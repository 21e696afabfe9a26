--------------------------- MODULE ApplyRunProofs ---------------------------
(***************************************************************************)
(* What CancellationRegistry and ApplyRun guarantee for any jobs, runs and *)
(* cancels and for both scheduling disciplines. An apply run takes the     *)
(* steps of the registry, so what is shown of runs, tokens and cancels in  *)
(* the first part holds of it; the second part is about the events and the *)
(* records that go with those steps.                                       *)
(***************************************************************************)
EXTENDS ApplyRun, TLAPS

-----------------------------------------------------------------------------
(* The registry.                                                           *)

\* The initial state satisfies the inductive invariant: nothing registered,
\* nothing cancelled.
LEMMA RegInitInv == RegInit => RegInv
  <1> SUFFICES ASSUME RegInit PROVE RegInv
    OBVIOUS
  <1> USE RegistryAssumption DEF RegInit
  <1>1. RegTypeOK
    BY DEF RegTypeOK, RunPcs, Outcomes, CancelPcs
  <1>2. CancelInv /\ DoomedNeverSucceed
    BY DEF CancelInv, DoomedNeverSucceed
  <1>4. CallerInv
    BY DEF CallerInv, Live
  <1>3. ExclusiveInv /\ RetryGetsFreshToken
    BY DEF ExclusiveInv, RetryGetsFreshToken, Registered, Callers
  <1> QED
    BY <1>1, <1>2, <1>3, <1>4 DEF RegInv

\* A move of a launch request along its program is well typed.
LEMMA MoveTyped ==
  ASSUME RegTypeOK, CallerInv,
         NEW r \in Runs, NEW from \in RunPcs \ {"new"}, NEW to \in RunPcs,
         NEW outcome \in Outcomes, Move(r, from, to, outcome),
         to \in {"registered", "running"} => outcome = "none"
  PROVE  (RegTypeOK /\ CallerInv)'
  <1>1. run' \in [Runs -> [pc : RunPcs, job : Jobs \cup {None},
                           token : Callers \cup {None}, outcome : Outcomes]]
    BY ZenonT(40) DEF Move, RegTypeOK
  <1>2. \A r2 \in Runs : run'[r2].job = run[r2].job
    BY DEF Move, RegTypeOK
  <1>5. run'[r].pc = to /\ run'[r].outcome = outcome
    BY DEF Move, RegTypeOK
  <1>3. run[r].job \in Jobs
    BY DEF Move, CallerInv
  <1>4. \A r2 \in Runs : r2 # r => run'[r2] = run[r2]
    BY DEF Move, RegTypeOK
  <1> QED
    BY <1>1, <1>2, <1>3, <1>4, <1>5 DEF Move, RegTypeOK, CallerInv, Live

\* Every step of every handler keeps the state well typed.
LEMMA RegTypeStep ==
    RegTypeOK /\ CallerInv /\ [RegNext]_regVars
        => RegTypeOK' /\ CallerInv'
  <1> SUFFICES ASSUME RegTypeOK, CallerInv, [RegNext]_regVars
               PROVE  RegTypeOK' /\ CallerInv'
    OBVIOUS
  <1> USE RegistryAssumption DEF RegTypeOK, CallerInv, Live, RunPcs,
                                 Outcomes, CancelPcs, Callers
  <1>1. ASSUME NEW r \in Runs, RunStep(r) PROVE (RegTypeOK /\ CallerInv)'
    <2>1. ASSUME NEW j \in Jobs, Register(r, j) PROVE (RegTypeOK /\ CallerInv)'
      BY <2>1 DEF Register, TokenFor
    <2>2. CASE Refuse(r)
      BY <2>2, MoveTyped DEF Refuse
    <2>3. CASE PreCheckCancelled(r) \/ PreCheckPasses(r)
      BY <2>3, MoveTyped DEF PreCheckCancelled, PreCheckPasses
    <2>4. CASE Raise(r)
      BY <2>4, MoveTyped DEF Raise
    <2>5. CASE PostCheckCancelled(r) \/ PostCheckPasses(r)
      BY <2>5, MoveTyped DEF PostCheckCancelled, PostCheckPasses
    <2>6. CASE Discard(r)
      BY <2>6 DEF Discard
    <2>7. CASE Respond(r)
      <3>1. run[r].outcome \in Outcomes
        OBVIOUS
      <3> QED
        BY <2>7, <3>1, MoveTyped DEF Respond
    <2> QED
      BY <1>1, <2>1, <2>2, <2>3, <2>4, <2>5, <2>6, <2>7 DEF RunStep
  <1>2. ASSUME NEW c \in Cancels, CancelStep(c) PROVE (RegTypeOK /\ CallerInv)'
    <2>1. ASSUME NEW j \in Jobs, CancelRefused(c, j) PROVE (RegTypeOK /\ CallerInv)'
      BY <2>1 DEF CancelRefused, registry
    <2>2. ASSUME NEW j \in Jobs, CancelLookup(c, j) PROVE (RegTypeOK /\ CallerInv)'
      BY <2>2 DEF CancelLookup
    <2>3. CASE CancelTrigger(c)
      <3>1. triggered' \subseteq Callers
        BY <2>3 DEF CancelTrigger
      <3>2. req' = [req EXCEPT ![c].pc = "accepted"]
        BY <2>3 DEF CancelTrigger
      <3>3. doomed' \subseteq Runs
        BY <2>3 DEF CancelTrigger
      <3> QED
        BY <2>3, <3>1, <3>2, <3>3 DEF CancelTrigger
    <2> QED
      BY <1>2, <2>1, <2>2, <2>3 DEF CancelStep
  <1>3. CASE UNCHANGED regVars
    BY <1>3 DEF regVars
  <1> QED
    BY <1>1, <1>2, <1>3 DEF RegNext

\* A move of one run between two states after its registration keeps what an
\* acknowledged cancel guarantees.
LEMMA CancelInvMove ==
  ASSUME RegTypeOK, CallerInv, CancelInv, DoomedNeverSucceed,
         NEW r \in Runs,
         NEW from \in RunPcs \ {"new"}, NEW to \in RunPcs \ {"new"},
         NEW outcome \in Outcomes, Move(r, from, to, outcome),
         Registered(r) \/ to = "done",
         outcome = "succeeded" =>
            ~IsCancelled(r) \/ outcome = run[r].outcome
  PROVE  (CancelInv /\ DoomedNeverSucceed)'
  <1> USE RegistryAssumption DEF CancelInv, DoomedNeverSucceed, Registered,
                                 RegisteredFor
  <1> USE DEF RegTypeOK, CallerInv, Live
  <1>1. run' = [run EXCEPT ![r] = [@ EXCEPT !.pc = to, !.outcome = outcome]]
    BY DEF Move
  <1>2. /\ run'[r].pc = to /\ run'[r].outcome = outcome
        /\ run'[r].job = run[r].job /\ run'[r].token = run[r].token
    BY <1>1
  <1>3. \A r2 \in Runs : r2 # r => run'[r2] = run[r2]
    BY <1>1
  <1>4. UNCHANGED <<tokens, discarded, triggered, req, waiting, doomed>>
    BY DEF Move
  <1>5. \A c \in waiting : RegisteredFor(req[c].job)' = {}
    BY <1>2, <1>3, <1>4
  <1>6. CancelInv'
    BY <1>2, <1>3, <1>4, <1>5
  <1>7. DoomedNeverSucceed'
    BY <1>2, <1>3, <1>4 DEF IsCancelled
  <1> QED
    BY <1>6, <1>7

\* What an acknowledged cancel guarantees survives every step of a run: a
\* waiting cancel's token is the one the next registration of its job gets.
LEMMA CancelInvRunStep ==
  ASSUME RegTypeOK, CallerInv, CancelInv, DoomedNeverSucceed,
         NEW r \in Runs, RunStep(r)
  PROVE  (CancelInv /\ DoomedNeverSucceed)'
  <1>1. ASSUME NEW j \in Jobs, Register(r, j)
        PROVE  (CancelInv /\ DoomedNeverSucceed)'
    <2> USE RegistryAssumption DEF CancelInv, DoomedNeverSucceed, Registered,
                                   RegisteredFor
    <2> USE DEF RegTypeOK, CallerInv, Live
    <2>1. run' = [run EXCEPT ![r] = [pc |-> "registered", job |-> j,
                                     token |-> TokenFor(r, j), outcome |-> "none"]]
      BY <1>1 DEF Register
    <2>2. run'[r].outcome = "none" /\ run'[r].pc = "registered"
          /\ run'[r].job = j /\ run'[r].token = TokenFor(r, j)
      BY <2>1
    <2>3. \A r2 \in Runs : r2 # r => run'[r2] = run[r2]
      BY <2>1
    <2>4. UNCHANGED <<triggered, req>> /\ waiting' = {c \in waiting : req[c].job # j}
      BY <1>1 DEF Register
    <2>5. \A j2 \in Jobs : j2 # j => tokens'[j2] = tokens[j2]
      BY <1>1 DEF Register
    <2>6. ASSUME NEW c \in waiting' PROVE RegisteredFor(req[c].job)' = {}
      BY <2>2, <2>3, <2>4, <2>6
    <2>7. \A c \in waiting' : tokens'[req'[c].job] = req'[c].token
      BY <2>4, <2>5
    <2>8. CancelInv'
      <3>1. ASSUME NEW d \in doomed', d # r
            PROVE  run'[d].pc # "new" /\ run'[d].token \in triggered'
        BY <1>1, <3>1, <2>3, <2>4 DEF Register
      <3>2. r \in doomed' => run'[r].token \in triggered'
        <4>1. CASE r \in doomed
          BY <4>1, <1>1 DEF Register
        <4>2. ASSUME NEW c \in waiting, req[c].job = j, req[c].pc = "accepted"
              PROVE  run'[r].token \in triggered'
          BY <4>2, <2>2, <2>4 DEF TokenFor
        <4> QED
          BY <4>1, <4>2, <1>1 DEF Register
      <3> QED
        BY <2>2, <2>4, <2>6, <2>7, <3>1, <3>2
    <2>9. DoomedNeverSucceed'
      BY <1>1, <2>2, <2>3 DEF Register
    <2> QED
      BY <2>8, <2>9
  <1>2. CASE Discard(r)
    <2> USE RegistryAssumption DEF CancelInv, DoomedNeverSucceed, Registered,
                                   RegisteredFor
    <2> USE DEF RegTypeOK, CallerInv, Live
    <2>1. run' = [run EXCEPT ![r].pc = "responding"]
          /\ tokens' = [tokens EXCEPT ![run[r].job] = None]
          /\ UNCHANGED <<triggered, req, waiting, doomed>>
          /\ run[r].pc = "leaving"
      BY <1>2 DEF Discard
    <2>2. /\ run'[r].pc = "responding" /\ run'[r].outcome = run[r].outcome
          /\ run'[r].job = run[r].job /\ run'[r].token = run[r].token
      BY <2>1
    <2>3. \A r2 \in Runs : r2 # r => run'[r2] = run[r2]
      BY <2>1
    <2>4. \A c \in waiting : req[c].job # run[r].job
      BY <2>1
    <2>5. \A c \in waiting : tokens'[req[c].job] = req[c].token
      BY <2>1, <2>4
    <2>6. \A c \in waiting : RegisteredFor(req[c].job)' = {}
      BY <2>1, <2>2, <2>3
    <2>7. CancelInv'
      BY <2>1, <2>2, <2>3, <2>5, <2>6
    <2>8. DoomedNeverSucceed'
      BY <2>1, <2>2, <2>3
    <2> QED
      BY <2>7, <2>8
  <1>3. CASE Refuse(r)
    BY <1>3, CancelInvMove DEF Refuse, Move, Registered, RunPcs, Outcomes
  <1>4. CASE PreCheckCancelled(r)
    BY <1>4, CancelInvMove DEF PreCheckCancelled, Move, Registered, RunPcs, Outcomes
  <1>5. CASE PreCheckPasses(r)
    BY <1>5, CancelInvMove DEF PreCheckPasses, Move, Registered, RunPcs, Outcomes
  <1>6. CASE Raise(r)
    BY <1>6, CancelInvMove DEF Raise, Move, Registered, RunPcs, Outcomes
  <1>7. CASE PostCheckCancelled(r)
    BY <1>7, CancelInvMove DEF PostCheckCancelled, Move, Registered, RunPcs, Outcomes
  <1>8. ASSUME NEW o \in {"failed", "succeeded"},
               ~IsCancelled(r), Move(r, "running", "leaving", o)
        PROVE  (CancelInv /\ DoomedNeverSucceed)'
    BY <1>8, CancelInvMove DEF Move, Registered, RunPcs, Outcomes
  <1>9. CASE Respond(r)
    <2>1. run[r].outcome \in Outcomes
      BY DEF RegTypeOK
    <2> QED
      BY <1>9, <2>1, CancelInvMove DEF Respond, Move, RunPcs
  <1> QED
    BY <1>1, <1>2, <1>3, <1>4, <1>5, <1>6, <1>7, <1>8, <1>9
       DEF RunStep, PostCheckPasses

\* ... and every step of a cancel request.
LEMMA CancelInvCancelStep ==
  ASSUME RegTypeOK, CallerInv, CancelInv, DoomedNeverSucceed,
         NEW c \in Cancels, CancelStep(c)
  PROVE  (CancelInv /\ DoomedNeverSucceed)'
  <1> USE RegistryAssumption DEF CancelInv, DoomedNeverSucceed, Registered,
                                 RegisteredFor
  <1> USE DEF RegTypeOK, CallerInv, Live
  <1>1. ASSUME NEW j \in Jobs, CancelRefused(c, j)
        PROVE  (CancelInv /\ DoomedNeverSucceed)'
    <2>1. c \notin waiting
      BY <1>1 DEF CancelRefused
    <2>2. UNCHANGED <<tokens, triggered, run, waiting, doomed>>
      BY <1>1 DEF CancelRefused, registry
    <2>3. req'[c].pc = "refused" /\ \A d \in Cancels : d # c => req'[d] = req[d]
      BY <1>1 DEF CancelRefused
    <2>4. \A d \in waiting : d # c /\ req'[d] = req[d]
      BY <2>1, <2>3
    <2>5. \A k \in Jobs : RegisteredFor(k)' = RegisteredFor(k)
      BY <2>2
    <2>6. ASSUME NEW d \in waiting'
          PROVE  /\ req'[d].pc \in {"found", "accepted"}
                 /\ req'[d].job \in Jobs
                 /\ req'[d].token # None
                 /\ tokens'[req'[d].job] = req'[d].token
                 /\ RegisteredFor(req[d].job)' = {}
      BY <2>2, <2>4, <2>5
    <2>7. \A d \in Cancels : req'[d].pc = "accepted" => req'[d].token \in triggered'
      BY <2>2, <2>3
    <2>8. CancelInv'
      BY <2>2, <2>6, <2>7
    <2>9. DoomedNeverSucceed'
      BY <2>2
    <2> QED
      BY <2>8, <2>9
  <1>2. ASSUME NEW j \in Jobs, CancelLookup(c, j)
        PROVE  (CancelInv /\ DoomedNeverSucceed)'
    <2> DEFINE t == IF tokens[j] # None THEN tokens[j] ELSE c
    <2>1. req'[c].pc = "found" /\ req'[c].job = j /\ req'[c].token = t
      BY <1>2 DEF CancelLookup
    <2>2. \A d \in Cancels : d # c => req'[d] = req[d]
      BY <1>2 DEF CancelLookup
    <2>3. UNCHANGED <<triggered, run, doomed>> /\ c \notin waiting
      BY <1>2 DEF CancelLookup
    <2>4. tokens'[j] = t /\ \A j2 \in Jobs : tokens[j2] # None => tokens'[j2] = tokens[j2]
      BY <1>2 DEF CancelLookup
    <2>5. t # None
      BY DEF Callers
    <2> HIDE DEF t
    <2>6. \A d \in waiting' : d = c \/ d \in waiting
      BY <1>2 DEF CancelLookup
    <2>7. c \in waiting' => RegisteredFor(j)' = {}
      BY <1>2, <2>3 DEF CancelLookup
    <2>8. \A k \in Jobs : RegisteredFor(k)' = RegisteredFor(k)
      BY <2>3
    <2>9. ASSUME NEW d \in waiting' PROVE RegisteredFor(req[d].job)' = {}
      BY <2>1, <2>2, <2>3, <2>6, <2>7, <2>8
    <2>10. \A d \in waiting' : tokens'[req'[d].job] = req'[d].token
      BY <2>1, <2>2, <2>3, <2>4, <2>6
    <2>11. \A d \in waiting' :
             /\ req'[d].pc \in {"found", "accepted"}
             /\ req'[d].job \in Jobs
             /\ req'[d].token # None
      BY <2>1, <2>2, <2>3, <2>5, <2>6
    <2>12. \A d \in Cancels : req'[d].pc = "accepted" => req'[d].token \in triggered'
      BY <2>1, <2>2, <2>3
    <2>13. \A r \in doomed' : run'[r].pc # "new" /\ run'[r].token \in triggered'
      BY <2>3
    <2>14. CancelInv'
      BY <2>9, <2>10, <2>11, <2>12, <2>13
    <2> QED
      BY <2>14, <2>3
  <1>3. CASE CancelTrigger(c)
    <2>1. UNCHANGED <<tokens, run, waiting>>
          /\ triggered' = triggered \cup {req[c].token}
      BY <1>3 DEF CancelTrigger
    <2>2. req'[c].pc = "accepted" /\ req'[c].job = req[c].job
          /\ req'[c].token = req[c].token
          /\ \A d \in Cancels : d # c => req'[d] = req[d]
      BY <1>3 DEF CancelTrigger
    <2>3. CancelInv'
      <3>1. \A r \in doomed' : run'[r].pc # "new" /\ run'[r].token \in triggered'
        BY <1>3, <2>1 DEF CancelTrigger, Live
      <3> QED
        BY <2>1, <2>2, <3>1
    <2>4. ASSUME NEW r \in doomed' PROVE run'[r].outcome # "succeeded"
      BY <1>3, <2>1, <2>4 DEF CancelTrigger, Live
    <2> QED
      BY <2>3, <2>4
  <1> QED
    BY <1>1, <1>2, <1>3 DEF CancelStep

\* Without overlapping runs a registration hands out a token no other
\* run has ever held, and the job's entry is that token.
LEMMA ExclusiveRegister ==
  ASSUME RegTypeOK, CallerInv, ExclusiveInv, RetryGetsFreshToken, Exclusive,
         NEW r \in Runs, NEW j \in Jobs, Register(r, j)
  PROVE  (ExclusiveInv /\ RetryGetsFreshToken)'
  <1> USE RegistryAssumption DEF RegTypeOK, CallerInv, Callers, Registered
  <1> DEFINE t == TokenFor(r, j)
  <1>1. /\ run'[r].pc = "registered" /\ run'[r].job = j /\ run'[r].token = t
        /\ \A r2 \in Runs : r2 # r => run'[r2] = run[r2]
    BY DEF Register
  <1>2. tokens'[j] = t /\ \A k \in Jobs : k # j => tokens'[k] = tokens[k]
    BY DEF Register
  <1>3. discarded' = discarded \ {j} /\ UNCHANGED req /\ run[r].pc = "new"
    BY DEF Register
  <1>4. \A r2 \in Runs : ~(Registered(r2) /\ run[r2].job = j)
    <2>1. CASE ~Overlap
      BY <2>1 DEF Register, RegisteredFor
    <2>2. CASE ~Threaded
      <3>1. \A r2 \in Runs \ {r} : ~Busy(r2)
        BY <2>2 DEF Register, Turn
      <3> QED
        BY <1>3, <3>1 DEF Busy
    <2> QED
      BY <2>1, <2>2 DEF Exclusive
  <1>5. t # None /\ (t = r \/ t = tokens[j])
    BY DEF TokenFor
  <1>6. \A r2 \in Runs : run[r2].token # t
    BY <1>3, <1>4, <1>5 DEF ExclusiveInv, TokenFor
  <1>7. \A k \in Jobs : k # j => tokens[k] # t
    BY <1>3, <1>5 DEF ExclusiveInv
  <1> HIDE DEF t
  <1>8. \A r1 \in Runs : Registered(r1)' =>
          /\ run'[r1].token # None
          /\ tokens'[run'[r1].job] = run'[r1].token
          /\ run'[r1].job \notin discarded'
    BY <1>1, <1>2, <1>3, <1>4, <1>5 DEF ExclusiveInv
  <1>9. \A r1, r2 \in Runs :
          r1 # r2 /\ Registered(r1)' /\ Registered(r2)' => run'[r1].job # run'[r2].job
    BY <1>1, <1>4 DEF ExclusiveInv
  <1>10. \A r1 \in Runs, k \in Jobs :
           tokens'[k] # None /\ run'[r1].token = tokens'[k]
             => Registered(r1)' /\ run'[r1].job = k
    BY <1>1, <1>2, <1>6, <1>7 DEF ExclusiveInv
  <1>11. \A k1, k2 \in Jobs :
           tokens'[k1] # None /\ tokens'[k1] = tokens'[k2] => k1 = k2
    BY <1>2, <1>7 DEF ExclusiveInv
  <1>12. ASSUME NEW r1 \in Runs, run'[r1].pc = "new"
         PROVE  /\ run'[r1].token = None
                /\ \A k \in Jobs : tokens'[k] # r1
                /\ \A r2 \in Runs : run'[r2].token # r1
    <2>1. r1 # r /\ run[r1].pc = "new"
      BY <1>1, <1>12
    <2>2. t # r1
      BY <1>5, <2>1 DEF ExclusiveInv
    <2> QED
      BY <1>1, <1>2, <2>1, <2>2 DEF ExclusiveInv
  <1>13. ASSUME NEW c \in Cancels, req[c].pc = "new"
         PROVE  /\ \A k \in Jobs : tokens'[k] # c
                /\ \A r1 \in Runs : run'[r1].token # c
    BY <1>1, <1>2, <1>5, <1>13 DEF ExclusiveInv
  <1>14. ExclusiveInv'
    BY <1>3, <1>8, <1>9, <1>10, <1>11, <1>12, <1>13 DEF ExclusiveInv
  <1>15. RetryGetsFreshToken'
    BY <1>1, <1>3, <1>5, <1>6 DEF RetryGetsFreshToken
  <1> QED
    BY <1>14, <1>15

\* Once it has registered, a run keeps its job and token to the end.
LEMMA ExclusiveMove ==
  ASSUME RegTypeOK, CallerInv, ExclusiveInv, RetryGetsFreshToken,
         NEW r \in Runs, NEW from \in RunPcs \ {"new"}, NEW to \in RunPcs \ {"new"},
         NEW outcome \in Outcomes, Move(r, from, to, outcome),
         \/ to \in {"leaving", "running"} /\ from \in {"registered", "running"}
         \/ from = "responding" /\ to = "done"
  PROVE  (ExclusiveInv /\ RetryGetsFreshToken)'
  <1> USE DEF RegTypeOK, Registered
  <1>1. /\ run'[r].pc = to /\ run[r].pc = from
        /\ \A r2 \in Runs : /\ run'[r2].job = run[r2].job
                            /\ run'[r2].token = run[r2].token
                            /\ run'[r2].pc = "new" <=> run[r2].pc = "new"
                            /\ Registered(r2)' <=> Registered(r2)
    BY DEF Move
  <1>2. UNCHANGED <<tokens, discarded, req>>
    BY DEF Move
  <1>3. ExclusiveInv'
    BY <1>1, <1>2 DEF ExclusiveInv
  <1>4. RetryGetsFreshToken'
    BY <1>1 DEF RetryGetsFreshToken
  <1> QED
    BY <1>3, <1>4

\* discard removes the entry of the one run that holds it.
LEMMA ExclusiveDiscard ==
  ASSUME RegTypeOK, CallerInv, ExclusiveInv, RetryGetsFreshToken,
         NEW r \in Runs, Discard(r)
  PROVE  (ExclusiveInv /\ RetryGetsFreshToken)'
  <1> USE RegistryAssumption DEF RegTypeOK, CallerInv, Registered, Callers
  <1> DEFINE j == run[r].job
  <1>1. /\ run'[r].pc = "responding" /\ run[r].pc = "leaving"
        /\ \A r2 \in Runs : /\ run'[r2].job = run[r2].job
                            /\ run'[r2].token = run[r2].token
                            /\ r2 # r => run'[r2].pc = run[r2].pc
    BY DEF Discard
  <1>2. j \in Jobs /\ tokens'[j] = None
        /\ \A k \in Jobs : k # j => tokens'[k] = tokens[k]
    BY DEF Discard
  <1>3. UNCHANGED req /\ discarded' = discarded \cup {j}
    BY DEF Discard
  <1>4. \A r2 \in Runs : r2 # r /\ Registered(r2) => run[r2].job # j
    BY <1>1 DEF ExclusiveInv
  <1> HIDE DEF j
  <1>5. ExclusiveInv'
    <2>1. \A r1 \in Runs : Registered(r1)' =>
            r1 # r /\ Registered(r1) /\ run[r1].job # j
      BY <1>1, <1>4
    <2>2. \A r1 \in Runs : Registered(r1)' =>
            /\ run'[r1].token # None
            /\ tokens'[run'[r1].job] = run'[r1].token
            /\ run'[r1].job \notin discarded'
      BY <2>1, <1>1, <1>2, <1>3 DEF ExclusiveInv
    <2>3. \A r1, r2 \in Runs :
            r1 # r2 /\ Registered(r1)' /\ Registered(r2)'
              => run'[r1].job # run'[r2].job
      BY <2>1, <1>1 DEF ExclusiveInv
    <2>4. \A r1 \in Runs, k \in Jobs :
            tokens'[k] # None /\ run'[r1].token = tokens'[k]
              => Registered(r1)' /\ run'[r1].job = k
      <3> SUFFICES ASSUME NEW r1 \in Runs, NEW k \in Jobs, tokens'[k] # None,
                          run'[r1].token = tokens'[k]
                   PROVE  Registered(r1)' /\ run'[r1].job = k
        OBVIOUS
      <3>1. k # j /\ tokens'[k] = tokens[k]
        BY <1>2
      <3>2. Registered(r1) /\ run[r1].job = k
        BY <3>1, <1>1 DEF ExclusiveInv
      <3>3. r1 # r
        BY <3>1, <3>2 DEF j
      <3> QED
        BY <3>2, <3>3, <1>1
    <2>5. \A k1, k2 \in Jobs :
            tokens'[k1] # None /\ tokens'[k1] = tokens'[k2] => k1 = k2
      BY <1>2 DEF ExclusiveInv
    <2>6. ASSUME NEW r1 \in Runs, run'[r1].pc = "new"
          PROVE  /\ run'[r1].token = None
                 /\ \A k \in Jobs : tokens'[k] # r1
                 /\ \A r2 \in Runs : run'[r2].token # r1
      BY <2>6, <1>1, <1>2 DEF ExclusiveInv
    <2>7. ASSUME NEW c \in Cancels, req[c].pc = "new"
          PROVE  /\ \A k \in Jobs : tokens'[k] # c
                 /\ \A r1 \in Runs : run'[r1].token # c
      BY <2>7, <1>1, <1>2 DEF ExclusiveInv
    <2> QED
      BY <1>3, <2>2, <2>3, <2>4, <2>5, <2>6, <2>7 DEF ExclusiveInv
  <1>6. RetryGetsFreshToken'
    BY <1>1 DEF RetryGetsFreshToken
  <1> QED
    BY <1>5, <1>6

\* A cancel request only ever adds a token named after itself.
LEMMA ExclusiveCancelStep ==
  ASSUME RegTypeOK, CallerInv, ExclusiveInv, RetryGetsFreshToken,
         NEW c \in Cancels, CancelStep(c)
  PROVE  (ExclusiveInv /\ RetryGetsFreshToken)'
  <1> USE RegistryAssumption DEF RegTypeOK, CallerInv, Registered, Callers
  <1>1. ASSUME NEW j \in Jobs, CancelLookup(c, j)
        PROVE  (ExclusiveInv /\ RetryGetsFreshToken)'
    <2> DEFINE t == IF tokens[j] # None THEN tokens[j] ELSE c
    <2>1. /\ req[c].pc = "new" /\ req'[c].pc = "found"
          /\ \A d \in Cancels : d # c => req'[d] = req[d]
      BY <1>1 DEF CancelLookup
    <2>2. tokens'[j] = t /\ \A k \in Jobs : k # j => tokens'[k] = tokens[k]
      BY <1>1 DEF CancelLookup
    <2>3. UNCHANGED <<discarded, run>>
      BY <1>1 DEF CancelLookup
    <2>4. \/ t = tokens[j] /\ tokens[j] # None
          \/ t = c /\ tokens[j] = None
      OBVIOUS
    <2>5. t # None
      OBVIOUS
    <2>6. /\ \A k \in Jobs : tokens[k] # c
          /\ \A r \in Runs : run[r].token # c
      BY <2>1 DEF ExclusiveInv
    <2> HIDE DEF t
    <2>7. \A r \in Runs : Registered(r) =>
            /\ run[r].token # None
            /\ tokens'[run[r].job] = run[r].token
            /\ run[r].job \notin discarded
      BY <2>2, <2>4 DEF ExclusiveInv
    <2>8. \A r \in Runs, k \in Jobs :
            tokens'[k] # None /\ run[r].token = tokens'[k]
              => Registered(r) /\ run[r].job = k
      BY <2>2, <2>4, <2>6 DEF ExclusiveInv
    <2>9. \A k1, k2 \in Jobs :
            tokens'[k1] # None /\ tokens'[k1] = tokens'[k2] => k1 = k2
      BY <2>2, <2>4, <2>6 DEF ExclusiveInv
    <2>10. ASSUME NEW r \in Runs, run[r].pc = "new"
           PROVE  \A k \in Jobs : tokens'[k] # r
      BY <2>10, <2>2, <2>4 DEF ExclusiveInv
    <2>11. ASSUME NEW d \in Cancels, req'[d].pc = "new"
           PROVE  \A k \in Jobs : tokens'[k] # d
      BY <2>11, <2>1, <2>2, <2>4 DEF ExclusiveInv
    <2>12. ASSUME NEW d \in Cancels, req'[d].pc = "new"
           PROVE  \A r \in Runs : run[r].token # d
      BY <2>12, <2>1 DEF ExclusiveInv
    <2>13. ExclusiveInv'
      BY <2>3, <2>7, <2>8, <2>9, <2>10, <2>11, <2>12 DEF ExclusiveInv
    <2>14. RetryGetsFreshToken'
      BY <2>3 DEF RetryGetsFreshToken
    <2> QED
      BY <2>13, <2>14
  <1>2. ASSUME UNCHANGED <<tokens, discarded, run>>, req'[c].pc # "new",
               \A d \in Cancels : d # c => req'[d] = req[d]
        PROVE  (ExclusiveInv /\ RetryGetsFreshToken)'
    BY <1>2 DEF ExclusiveInv, RetryGetsFreshToken
  <1>3. ASSUME NEW j \in Jobs, CancelRefused(c, j)
        PROVE  (ExclusiveInv /\ RetryGetsFreshToken)'
    BY <1>2, <1>3 DEF CancelRefused, registry
  <1>4. CASE CancelTrigger(c)
    BY <1>2, <1>4 DEF CancelTrigger
  <1> QED
    BY <1>1, <1>3, <1>4 DEF CancelStep

\* ... so no step of a run breaks the exclusive ownership of tokens.
LEMMA ExclusiveRunStep ==
  ASSUME RegTypeOK, CallerInv, ExclusiveInv, RetryGetsFreshToken, Exclusive,
         NEW r \in Runs, RunStep(r)
  PROVE  (ExclusiveInv /\ RetryGetsFreshToken)'
  <1> USE DEF RunPcs, Outcomes
  <1>1. CASE \E j \in Jobs : Register(r, j)
    BY <1>1, ExclusiveRegister
  <1>2. CASE Refuse(r)
    BY <1>2, ExclusiveMove DEF Refuse
  <1>3. CASE PreCheckCancelled(r) \/ PreCheckPasses(r)
    BY <1>3, ExclusiveMove DEF PreCheckCancelled, PreCheckPasses
  <1>4. CASE Raise(r)
    BY <1>4, ExclusiveMove DEF Raise
  <1>5. CASE PostCheckCancelled(r) \/ PostCheckPasses(r)
    BY <1>5, ExclusiveMove DEF PostCheckCancelled, PostCheckPasses
  <1>6. CASE Discard(r)
    BY <1>6, ExclusiveDiscard
  <1>7. CASE Respond(r)
    <2>1. run[r].outcome \in Outcomes
      BY DEF RegTypeOK
    <2> QED
      BY <1>7, <2>1, ExclusiveMove DEF Respond
  <1> QED
    BY <1>1, <1>2, <1>3, <1>4, <1>5, <1>6, <1>7 DEF RunStep

\* RegInv is inductive.
LEMMA RegInvStep == RegInv /\ [RegNext]_regVars => RegInv'
  <1> SUFFICES ASSUME RegInv, [RegNext]_regVars PROVE RegInv'
    OBVIOUS
  <1>1. (RegTypeOK /\ CallerInv)'
    BY RegTypeStep DEF RegInv
  <1>2. CASE UNCHANGED regVars
    BY <1>1, <1>2
       DEF regVars, RegInv, CancelInv, DoomedNeverSucceed, ExclusiveInv,
           RetryGetsFreshToken, Registered, RegisteredFor
  <1>3. CASE RegNext
    <2>1. (CancelInv /\ DoomedNeverSucceed)'
      BY <1>3, CancelInvRunStep, CancelInvCancelStep DEF RegNext, RegInv
    <2>2. ASSUME Exclusive PROVE (ExclusiveInv /\ RetryGetsFreshToken)'
      BY <1>3, <2>2, ExclusiveRunStep, ExclusiveCancelStep DEF RegNext, RegInv
    <2> QED
      BY <1>1, <2>1, <2>2 DEF RegInv
  <1> QED
    BY <1>2, <1>3

\* Every reachable state satisfies the inductive invariant.
THEOREM RegInvariant == RegSpec => []RegInv
  BY RegInitInv, RegInvStep, PTL DEF RegSpec

\* The registry's tables, tokens and requests stay well typed: in particular
\* discard never marks a job that was not launched.
THEOREM RegTypeCorrect == RegSpec => []RegTypeOK
  <1>1. RegInv => RegTypeOK
    BY DEF RegInv
  <1> QED
    BY <1>1, RegInvariant, PTL

\* However register, cancel and discard interleave, and however many launches
\* of a job overlap, a run that a cancel reached before its last check, or
\* for which a cancel was waiting when it registered, never succeeds.
THEOREM DoomedRunsNeverSucceed == RegSpec => []DoomedNeverSucceed
  <1>1. RegInv => DoomedNeverSucceed
    BY DEF RegInv
  <1> QED
    BY <1>1, RegInvariant, PTL

\* On one event loop, and on threads when a job is launched again only after its
\* earlier run has discarded its token, cancel() always finds the token a live run is checking.
THEOREM LiveRunsStayCancellable ==
  ASSUME Exclusive
  PROVE  RegSpec => []LiveRunsCancellable
  <1>1. RegInv => LiveRunsCancellable
    BY DEF RegInv, ExclusiveInv, LiveRunsCancellable, Live, Registered
  <1> QED
    BY <1>1, RegInvariant, PTL

\* ... and a retry never inherits the token of an earlier run.
THEOREM RetriesGetFreshTokens ==
  ASSUME Exclusive
  PROVE  RegSpec => []RetryGetsFreshToken
  <1>1. RegInv => RetryGetsFreshToken
    BY DEF RegInv
  <1> QED
    BY <1>1, RegInvariant, PTL

-----------------------------------------------------------------------------
(* Two properties that lean on the invariant without being part of it.     *)

\* Registered runs and waiting cancels account for every token.
LEMMA TokensOwnedStep ==
    ASSUME RegInv, TokensAreOwned, [RegNext]_regVars
    PROVE  TokensAreOwned'
<1>0. RegTypeOK /\ CancelInv
  BY DEF RegInv
<1> SUFFICES ASSUME NEW k \in Jobs, tokens'[k] # None
             PROVE  \/ \E x \in Runs : Registered(x)' /\ run'[x].job = k
                    \/ \E d \in waiting' : tokens'[k] = d /\ req'[d].job = k
  BY DEF TokensAreOwned, RegisteredFor
<1>1. tokens[k] # None =>
          \/ \E x \in Runs : Registered(x) /\ run[x].job = k
          \/ \E d \in waiting : tokens[k] = d /\ req[d].job = k
  BY DEF TokensAreOwned, RegisteredFor
<1>2. ASSUME NEW r \in Runs, NEW j \in Jobs, Register(r, j)
      PROVE  \/ \E x \in Runs : Registered(x)' /\ run'[x].job = k
             \/ \E d \in waiting' : tokens'[k] = d /\ req'[d].job = k
  <2>1. CASE j = k
    <3>1. Registered(r)' /\ run'[r].job = k
      BY <1>0, <1>2, <2>1 DEF Register, RegTypeOK, Registered
    <3> QED
      BY <3>1
  <2>2. CASE j # k
    <3>1. tokens'[k] = tokens[k] /\ req' = req
      BY <1>0, <1>2, <2>2 DEF Register, RegTypeOK
    <3>2. \A x \in Runs : Registered(x) => Registered(x)' /\ run'[x].job = run[x].job
      BY <1>0, <1>2 DEF Register, RegTypeOK, Registered
    <3>3. \A d \in waiting : req[d].job = k => d \in waiting'
      BY <1>2, <2>2 DEF Register
    <3> QED
      BY <1>1, <3>1, <3>2, <3>3
  <2> QED
    BY <2>1, <2>2
<1>3. ASSUME NEW r \in Runs, NEW from, NEW to, NEW outcome, Move(r, from, to, outcome),
             from \in {"registered", "running", "leaving"} =>
                to \in {"registered", "running", "leaving"}
      PROVE  \/ \E x \in Runs : Registered(x)' /\ run'[x].job = k
             \/ \E d \in waiting' : tokens'[k] = d /\ req'[d].job = k
  <2>1. tokens' = tokens /\ req' = req /\ waiting' = waiting
    BY <1>3 DEF Move
  <2>2. \A x \in Runs : Registered(x) => Registered(x)' /\ run'[x].job = run[x].job
    BY <1>0, <1>3 DEF Move, RegTypeOK, Registered
  <2> QED
    BY <1>1, <2>1, <2>2
<1>4. ASSUME NEW r \in Runs, Discard(r)
      PROVE  \/ \E x \in Runs : Registered(x)' /\ run'[x].job = k
             \/ \E d \in waiting' : tokens'[k] = d /\ req'[d].job = k
  <2>1. run[r].job # k /\ tokens'[k] = tokens[k]
    BY <1>0, <1>4 DEF Discard, RegTypeOK
  <2>2. \A x \in Runs \ {r} : run'[x] = run[x]
    BY <1>0, <1>4 DEF Discard, RegTypeOK
  <2>3. req' = req /\ waiting' = waiting
    BY <1>4 DEF Discard
  <2> QED
    BY <1>1, <2>1, <2>2, <2>3 DEF Registered
<1>5. ASSUME NEW c \in Cancels, NEW j \in Jobs, CancelLookup(c, j)
      PROVE  \/ \E x \in Runs : Registered(x)' /\ run'[x].job = k
             \/ \E d \in waiting' : tokens'[k] = d /\ req'[d].job = k
  <2>1. run' = run /\ waiting \subseteq waiting' /\ req[c].pc = "new"
    BY <1>5 DEF CancelLookup
  <2>2. \A d \in waiting : d # c /\ req'[d] = req[d]
    BY <1>0, <1>5, <2>1 DEF CancelLookup, CancelInv, RegTypeOK
  <2>3. CASE tokens[k] # None
    <3>1. tokens'[k] = tokens[k]
      BY <1>0, <1>5, <2>3 DEF CancelLookup, RegTypeOK
    <3> QED
      BY <1>1, <2>1, <2>2, <2>3, <3>1 DEF Registered
  <2>4. CASE tokens[k] = None
    <3>1. j = k /\ tokens'[k] = c /\ req'[c].job = k
      BY <1>0, <1>5, <2>4 DEF CancelLookup, RegTypeOK
    <3>2. c \in waiting' \/ \E x \in Runs : Registered(x) /\ run[x].job = k
      BY <1>5, <3>1 DEF CancelLookup, RegisteredFor
    <3> QED
      BY <2>1, <3>1, <3>2 DEF Registered
  <2> QED
    BY <2>3, <2>4
<1>6. ASSUME NEW c \in Cancels, CancelTrigger(c) \/ \E j \in Jobs : CancelRefused(c, j)
      PROVE  \/ \E x \in Runs : Registered(x)' /\ run'[x].job = k
             \/ \E d \in waiting' : tokens'[k] = d /\ req'[d].job = k
  <2>1. run' = run /\ waiting' = waiting /\ tokens' = tokens
    BY <1>6 DEF CancelTrigger, CancelRefused, registry
  <2>2. \A d \in waiting : req'[d].job = req[d].job
    BY <1>0, <1>6 DEF CancelTrigger, CancelRefused, CancelInv, RegTypeOK
  <2> QED
    BY <1>1, <2>1, <2>2 DEF Registered
<1>7. CASE UNCHANGED regVars
  BY <1>1, <1>7 DEF regVars, Registered
<1> QED
  BY <1>2, <1>3, <1>4, <1>5, <1>6, <1>7 DEF RegNext, RunStep, CancelStep, Refuse,
     PreCheckCancelled, PreCheckPasses, Raise, PostCheckCancelled, PostCheckPasses, Respond

\* However callers interleave and launches overlap, the registry keeps a token
\* for a registered run or a waiting cancel only.
THEOREM TokensStayOwned == RegSpec => []TokensAreOwned
<1>1. RegInit => TokensAreOwned
  BY DEF RegInit, TokensAreOwned
<1>2. RegInv /\ TokensAreOwned /\ [RegNext]_regVars => TokensAreOwned'
  BY TokensOwnedStep
<1> QED
  BY <1>1, <1>2, RegInvariant, PTL DEF RegSpec

\* A cancel that has found the token of a run finds it before its last check.
CaughtRunsDoNotSucceed ==
    \A r \in Runs, c \in Cancels :
        req[c].pc \in {"found", "accepted"} /\ req[c].token = run[r].token
            => run[r].outcome # "succeeded"

LEMMA CaughtStep ==
    ASSUME ~Threaded, RegInv, CaughtRunsDoNotSucceed, [RegNext]_regVars
    PROVE  CaughtRunsDoNotSucceed'
<1>0. RegTypeOK /\ CancelInv /\ ExclusiveInv
  BY DEF RegInv, Exclusive
<1> SUFFICES ASSUME NEW r \in Runs, NEW c \in Cancels,
                    req'[c].pc \in {"found", "accepted"}, req'[c].token = run'[r].token
             PROVE  run'[r].outcome # "succeeded"
  BY DEF CaughtRunsDoNotSucceed
<1>1. r # c /\ r \in Callers /\ c \in Callers
  BY RegistryAssumption DEF Callers
<1>2. ASSUME NEW x \in Runs, NEW j \in Jobs, Register(x, j)
      PROVE  run'[r].outcome # "succeeded"
  BY <1>0, <1>2 DEF Register, RegTypeOK, CaughtRunsDoNotSucceed
<1>3. ASSUME NEW x \in Runs, NEW from, NEW to, NEW outcome, Move(x, from, to, outcome),
             outcome # "succeeded" \/ x # r \/ outcome = run[x].outcome
      PROVE  run'[r].outcome # "succeeded"
  BY <1>0, <1>3 DEF Move, RegTypeOK, CaughtRunsDoNotSucceed
<1>4. ASSUME NEW outcome, Move(r, "running", "leaving", outcome), ~IsCancelled(r)
      PROVE  run'[r].outcome # "succeeded"
  <2>1. ~Busy(c) /\ req' = req /\ run'[r].token = run[r].token
    BY <1>0, <1>1, <1>4 DEF Move, Turn, RegTypeOK
  <2>2. req[c].pc = "accepted"
    BY <2>1 DEF Busy
  <2> QED
    BY <1>0, <1>4, <2>1, <2>2 DEF CancelInv, IsCancelled
<1>5. ASSUME NEW x \in Runs, Discard(x)
      PROVE  run'[r].outcome # "succeeded"
  BY <1>0, <1>5 DEF Discard, RegTypeOK, CaughtRunsDoNotSucceed
<1>6. ASSUME NEW d \in Cancels, NEW j \in Jobs, CancelLookup(d, j)
      PROVE  run'[r].outcome # "succeeded"
  <2>1. run' = run /\ \A e \in Cancels \ {d} : req'[e] = req[e]
    BY <1>0, <1>6 DEF CancelLookup, RegTypeOK
  <2>2. CASE c # d
    BY <2>1, <2>2 DEF CaughtRunsDoNotSucceed
  <2>3. CASE c = d
    <3>1. /\ req[c].pc = "new" /\ ~Busy(r)
          /\ run[r].token = IF tokens[j] # None THEN tokens[j] ELSE c
      BY <1>0, <1>1, <1>6, <2>1, <2>3 DEF CancelLookup, Turn, RegTypeOK
    <3>2. ~Registered(r)
      BY <3>1 DEF Busy, Registered
    <3>3. tokens[j] = None
      BY <1>0, <3>1, <3>2 DEF ExclusiveInv
    <3> QED
      BY <1>0, <3>1, <3>3 DEF ExclusiveInv
  <2> QED
    BY <2>2, <2>3
<1>7. ASSUME NEW d \in Cancels, CancelTrigger(d)
      PROVE  run'[r].outcome # "succeeded"
  BY <1>0, <1>7 DEF CancelTrigger, RegTypeOK, CaughtRunsDoNotSucceed
<1>8. ASSUME NEW d \in Cancels, NEW j \in Jobs, CancelRefused(d, j)
      PROVE  run'[r].outcome # "succeeded"
  BY <1>0, <1>8 DEF CancelRefused, RegTypeOK, CaughtRunsDoNotSucceed
<1>9. CASE UNCHANGED regVars
  BY <1>9 DEF regVars, CaughtRunsDoNotSucceed
<1>10. ASSUME NEW x \in Runs, PostCheckPasses(x)
       PROVE  run'[r].outcome # "succeeded"
  <2>1. PICK outcome \in {"failed", "succeeded"} : Move(x, "running", "leaving", outcome)
    BY <1>10 DEF PostCheckPasses
  <2>2. CASE x = r
    BY <1>4, <1>10, <2>1, <2>2 DEF PostCheckPasses
  <2>3. CASE x # r
    BY <1>3, <2>1, <2>3
  <2> QED
    BY <2>2, <2>3
<1> QED
  BY <1>2, <1>3, <1>5, <1>6, <1>7, <1>8, <1>9, <1>10 DEF RegNext, RunStep, CancelStep, Refuse,
     PreCheckCancelled, PreCheckPasses, Raise, PostCheckCancelled, Respond

\* On one event loop an accepted cancel keeps its run from succeeding, also
\* when it was accepted while no run was registered.
THEOREM AcceptedCancelsHold ==
  ASSUME ~Threaded
  PROVE  RegSpec => []AcceptedRunsDoNotSucceed
<1>1. RegInit => CaughtRunsDoNotSucceed
  BY DEF RegInit, CaughtRunsDoNotSucceed
<1>2. RegInv /\ CaughtRunsDoNotSucceed /\ [RegNext]_regVars => CaughtRunsDoNotSucceed'
  BY CaughtStep
<1>3. CaughtRunsDoNotSucceed => AcceptedRunsDoNotSucceed
  BY DEF CaughtRunsDoNotSucceed, AcceptedRunsDoNotSucceed
<1> QED
  BY <1>1, <1>2, <1>3, RegInvariant, PTL DEF RegSpec

-----------------------------------------------------------------------------
(* The apply run.                                                          *)

\* The end a run that has passed its last check has announced. COMPLETED and
\* CANCELLED go together only on threads.
EndFits(r) ==
    \/ run[r].outcome = "succeeded" /\ ended[r] = {"completed"}
    \/ run[r].outcome = "cancelled" /\ ended[r] = {"cancelled"}
    \/ run[r].outcome = "cancelled" /\ Threaded /\ ended[r] = {"completed", "cancelled"}
    \/ run[r].outcome \in {"refused", "failed"} /\ ended[r] \in {{}, {"failed"}}

\* How far a run is, and what it has announced by then.
EventsFit(r) ==
    /\ run[r].pc \in {"new", "registered"} =>
          asset[r] = -1 /\ ended[r] = {} /\ r \notin broken
    /\ run[r].pc = "running" =>
          /\ ended[r] = IF asset[r] = AssetCount THEN {"completed"} ELSE {}
          /\ r \in broken => asset[r] \in 0 .. AssetCount - 1
    /\ run[r].pc \in {"leaving", "responding", "done"} => EndFits(r)

EventInv == \A r \in Runs : EventsFit(r)

\* On one event loop no cancel comes between the two checks of a run.
LoopInv == ~Threaded =>
    \A r \in Runs : run[r].pc = "running" => run[r].token \notin triggered

\* Records are of runs that have returned.
RecordInv ==
    \A j \in Jobs : record[j] # None =>
        /\ run[record[j]].pc = "done" /\ run[record[j]].job = j
        /\ run[record[j]].outcome = "succeeded"

\* The latest event of a job is the latest event of the run registered for it.
Shown(r) == shown[run[r].job]

Current(r) ==
    /\ run[r].pc = "running" /\ asset[r] \in 0 .. AssetCount - 1 =>
          /\ Shown(r).status \in {"queued", "running"}
          /\ Shown(r).progress = IF asset[r] = 0 THEN 0 ELSE StageProgress[asset[r]]
          /\ asset[r] > 0 => Shown(r).status = "running"
    /\ run[r].pc = "running" /\ asset[r] = AssetCount => Shown(r).status = "completed"
    /\ run[r].pc = "leaving" /\ ended[r] # {} =>
          /\ Shown(r).status \in ended[r]
          /\ run[r].outcome = "succeeded" => Shown(r).status = "completed"
          /\ run[r].outcome = "cancelled" => Shown(r).status = "cancelled"

\* A job shows progress only while one of its runs is executed.
Shows(j) == shown[j].status \in {"queued", "running"}
Attends(r, j) ==
    run[r].pc = "running" /\ run[r].job = j /\ asset[r] \in 0 .. AssetCount - 1
Attended(j) == Shows(j) => \E r \in Runs : Attends(r, j)

ViewInv == Exclusive => (\A r \in Runs : Current(r)) /\ (\A j \in Jobs : Attended(j))

ApplyInv == RegInv /\ ApplyTypeOK /\ EventInv /\ LoopInv /\ RecordInv /\ ViewInv

-----------------------------------------------------------------------------
(* The steps of an apply run are steps of the registry.                    *)

\* The launcher's actions are the registry's, or leave it alone.
LEMMA ContinueIsRunStep ==
    ASSUME NEW r \in Runs, Continue(r)
    PROVE  RunStep(r) \/ UNCHANGED regVars
  BY DEF Continue, RefuseLaunch, CancelBeforeStart, PassPreCheck, DefinitionsRaise,
         EmitStarted, FinishAsset, FinishExportPackage, FailAsset, MaterializeRaises,
         CancelAfterMaterialize, ReportFailure, ReturnResult, DiscardToken, RecordJob,
         Materializing, RunStep

LEMMA ApplyStepIsRegStep == [ApplyNext]_applyVars => [RegNext]_regVars
<1> SUFFICES ASSUME ApplyNext \/ UNCHANGED applyVars PROVE RegNext \/ UNCHANGED regVars
  OBVIOUS
<1>1. CASE UNCHANGED applyVars
  BY <1>1 DEF applyVars, regVars
<1>2. ASSUME NEW r \in Runs, Launch(r) PROVE RegNext
  BY <1>2 DEF Launch, RegNext, RunStep
<1>3. ASSUME NEW r \in Runs, Continue(r) PROVE RegNext \/ UNCHANGED regVars
  BY <1>3, ContinueIsRunStep DEF RegNext
<1>4. ASSUME NEW c \in Cancels, CancelJob(c) PROVE RegNext
  BY <1>4 DEF CancelJob, RegNext
<1> QED
  BY <1>1, <1>2, <1>3, <1>4 DEF ApplyNext

\* Everything proved of the registry holds of apply runs.
THEOREM ApplyRefinesRegistry == ApplySpec => RegSpec
<1>1. ApplyInit => RegInit
  BY DEF ApplyInit
<1> QED
  BY <1>1, ApplyStepIsRegStep, PTL DEF ApplySpec, RegSpec

-----------------------------------------------------------------------------
(* What one step of a run changes.                                         *)

\* A move gives a run its position and outcome and leaves job and token.
LEMMA MoveFacts ==
    ASSUME RegTypeOK, NEW r \in Runs, NEW from, NEW to, NEW outcome,
           Move(r, from, to, outcome)
    PROVE  /\ run[r].pc = from /\ run'[r].pc = to /\ run'[r].outcome = outcome
           /\ run'[r].job = run[r].job /\ run'[r].token = run[r].token
           /\ \A x \in Runs \ {r} : run'[x] = run[x]
           /\ triggered' = triggered
  BY DEF RegTypeOK, Move

LEMMA RegisterFacts ==
    ASSUME RegTypeOK, NEW r \in Runs, NEW j \in Jobs, Register(r, j)
    PROVE  /\ run[r].pc = "new" /\ run'[r].pc = "registered" /\ run'[r].job = j
           /\ \A x \in Runs \ {r} : run'[x] = run[x]
           /\ triggered' = triggered
  BY DEF RegTypeOK, Register

LEMMA DiscardFacts ==
    ASSUME RegTypeOK, NEW r \in Runs, Discard(r)
    PROVE  /\ run[r].pc = "leaving" /\ run'[r].pc = "responding"
           /\ run'[r].job = run[r].job /\ run'[r].outcome = run[r].outcome
           /\ \A x \in Runs \ {r} : run'[x] = run[x]
           /\ triggered' = triggered
  BY DEF RegTypeOK, Discard

\* A step of one run leaves the others where they are.
LEMMA OthersKept ==
    ASSUME ApplyTypeOK, NEW r \in Runs, Launch(r) \/ Continue(r)
    PROVE  /\ triggered' = triggered
           /\ \A x \in Runs \ {r} :
                 /\ run'[x] = run[x] /\ asset'[x] = asset[x]
                 /\ ended'[x] = ended[x] /\ (x \in broken' <=> x \in broken)
<1> USE DEF ApplyTypeOK
<1>1. /\ triggered' = triggered
      /\ \A x \in Runs \ {r} : run'[x] = run[x]
  <2>1. CASE Launch(r)
    BY <2>1, RegisterFacts DEF Launch
  <2>2. CASE UNCHANGED regVars
    BY <2>2 DEF regVars
  <2>3. CASE Discard(r)
    BY <2>3, DiscardFacts
  <2>4. CASE \E from, to, outcome : Move(r, from, to, outcome)
    BY <2>4, MoveFacts
  <2> QED
    BY <2>1, <2>2, <2>3, <2>4 DEF Continue, RefuseLaunch, CancelBeforeStart, PassPreCheck,
       DefinitionsRaise, EmitStarted, FinishAsset, FinishExportPackage, FailAsset,
       MaterializeRaises, CancelAfterMaterialize, ReportFailure, ReturnResult, DiscardToken,
       RecordJob, Materializing, Refuse, PreCheckCancelled, PreCheckPasses, Raise,
       PostCheckCancelled, PostCheckPasses, Respond
<1>2. \A x \in Runs \ {r} : asset'[x] = asset[x]
  BY DEF Launch, launchVars, Continue, RefuseLaunch, CancelBeforeStart, PassPreCheck,
     DefinitionsRaise, EmitStarted, FinishAsset, FinishExportPackage, FailAsset,
     MaterializeRaises, CancelAfterMaterialize, ReportFailure, ReturnResult, DiscardToken,
     RecordJob
<1>3. \A x \in Runs \ {r} : x \in broken' <=> x \in broken
  BY DEF Launch, launchVars, Continue, RefuseLaunch, CancelBeforeStart, PassPreCheck,
     DefinitionsRaise, EmitStarted, FinishAsset, FinishExportPackage, FailAsset,
     MaterializeRaises, CancelAfterMaterialize, ReportFailure, ReturnResult, DiscardToken,
     RecordJob
<1>4. \A x \in Runs \ {r} : ended'[x] = ended[x]
  BY DEF Launch, launchVars, Continue, RefuseLaunch, CancelBeforeStart, PassPreCheck,
     DefinitionsRaise, EmitStarted, FinishAsset, FinishExportPackage, FailAsset,
     MaterializeRaises, CancelAfterMaterialize, ReportFailure, ReturnResult, DiscardToken,
     RecordJob, EmitCancelled, EmitFailed, EmitEnd, EmitProgress
<1> QED
  BY <1>1, <1>2, <1>3, <1>4

-----------------------------------------------------------------------------
(* Types.                                                                  *)

\* What an event may say.
Statuses == {"none", "queued", "running", "completed", "failed", "cancelled"}

LEMMA EmitTyped ==
    ASSUME ApplyTypeOK, NEW r \in Runs, NEW status \in Statuses, NEW progress \in 0 .. 100,
           NEW refs \in SUBSET Refs, Emit(r, status, progress, refs)
    PROVE  shown' \in [Jobs -> [status : Statuses, progress : 0 .. 100, refs : SUBSET Refs]]
  BY DEF ApplyTypeOK, Emit, Statuses

LEMMA EndTyped ==
    ASSUME ApplyTypeOK, NEW r \in Runs, NEW status \in {"completed", "failed", "cancelled"},
           NEW progress, NEW refs, EmitEnd(r, status, progress, refs)
    PROVE  ended' \in [Runs -> SUBSET {"completed", "failed", "cancelled"}]
  BY DEF ApplyTypeOK, EmitEnd

LEMMA StageTyped == \A n \in 1 .. 5 : StageProgress[n] \in 1 .. 99
  BY DEF StageProgress

\* Registry, events and records are typed one by one.
LEMMA TypesTogether ==
    ASSUME RegTypeOK', asset' \in [Runs -> -1 .. AssetCount], broken' \subseteq Runs,
           shown' \in [Jobs -> [status : Statuses, progress : 0 .. 100, refs : SUBSET Refs]],
           ended' \in [Runs -> SUBSET {"completed", "failed", "cancelled"}],
           reasons' \subseteq {"classified", "internal_error"},
           record' \in [Jobs -> Runs \cup {None}]
    PROVE  ApplyTypeOK'
  BY DEF ApplyTypeOK, Statuses

LEMMA ApplyTypeStep ==
    ASSUME ApplyTypeOK, RegTypeOK', [ApplyNext]_applyVars
    PROVE  ApplyTypeOK'
<1>0. /\ asset \in [Runs -> -1 .. AssetCount] /\ broken \subseteq Runs
      /\ shown \in [Jobs -> [status : Statuses, progress : 0 .. 100, refs : SUBSET Refs]]
      /\ ended \in [Runs -> SUBSET {"completed", "failed", "cancelled"}]
      /\ reasons \subseteq {"classified", "internal_error"}
      /\ record \in [Jobs -> Runs \cup {None}]
  BY DEF ApplyTypeOK, Statuses
<1>9. /\ "queued" \in Statuses /\ "running" \in Statuses /\ "completed" \in Statuses
      /\ "failed" \in Statuses /\ "cancelled" \in Statuses
      /\ 0 \in 0 .. 100 /\ 50 \in 0 .. 100 /\ 100 \in 0 .. 100 /\ {} \in SUBSET Refs
  BY DEF Statuses
<1>1. ASSUME NEW r \in Runs, Continue(r) PROVE ApplyTypeOK'
  <2>1. CASE RefuseLaunch(r) \/ PassPreCheck(r) \/ DefinitionsRaise(r) \/ ReturnResult(r) \/ DiscardToken(r)
    BY <2>1 DEF RefuseLaunch, PassPreCheck, DefinitionsRaise, ReturnResult, DiscardToken,
       launchVars, ApplyTypeOK
  <2>2. CASE CancelBeforeStart(r) \/ CancelAfterMaterialize(r)
    <3>1. PICK progress \in {0, 50} : EmitEnd(r, "cancelled", progress, {})
      BY <2>2 DEF CancelBeforeStart, CancelAfterMaterialize, EmitCancelled
    <3>2. shown' \in [Jobs -> [status : Statuses, progress : 0 .. 100, refs : SUBSET Refs]]
      BY <1>9, <3>1, EmitTyped DEF EmitEnd
    <3>3. ended' \in [Runs -> SUBSET {"completed", "failed", "cancelled"}]
      BY <3>1, EndTyped
    <3>4. UNCHANGED <<asset, broken, record, reasons>>
      BY <2>2 DEF CancelBeforeStart, CancelAfterMaterialize, EmitCancelled
    <3> QED
      BY <1>0, <3>2, <3>3, <3>4, TypesTogether
  <2>3. CASE MaterializeRaises(r) \/ ReportFailure(r)
    <3>1. EmitEnd(r, "failed", 0, {}) /\ reasons' \subseteq reasons \cup {"classified", "internal_error"}
      BY <2>3 DEF MaterializeRaises, ReportFailure, EmitFailed
    <3>2. shown' \in [Jobs -> [status : Statuses, progress : 0 .. 100, refs : SUBSET Refs]]
      BY <1>9, <3>1, EmitTyped DEF EmitEnd
    <3>3. ended' \in [Runs -> SUBSET {"completed", "failed", "cancelled"}]
      BY <3>1, EndTyped
    <3>4. UNCHANGED <<asset, broken, record>>
      BY <2>3 DEF MaterializeRaises, ReportFailure
    <3> QED
      BY <1>0, <3>1, <3>2, <3>3, <3>4, TypesTogether
  <2>4. CASE EmitStarted(r)
    <3>1. shown' \in [Jobs -> [status : Statuses, progress : 0 .. 100, refs : SUBSET Refs]]
      BY <1>9, <2>4, EmitTyped DEF EmitStarted, EmitProgress
    <3>2. asset' \in [Runs -> -1 .. AssetCount]
      BY <1>0, <2>4 DEF EmitStarted, AssetCount
    <3>3. UNCHANGED <<broken, ended, reasons, record>>
      BY <2>4 DEF EmitStarted, EmitProgress
    <3> QED
      BY <1>0, <3>1, <3>2, <3>3, TypesTogether
  <2>5. CASE FinishAsset(r)
    <3>1. asset[r] \in 0 .. 4 /\ asset' = [asset EXCEPT ![r] = @ + 1]
      BY <2>5 DEF FinishAsset, AssetCount
    <3>2. StageProgress[asset[r] + 1] \in 0 .. 100
      BY <3>1, StageTyped
    <3>3. asset' \in [Runs -> -1 .. AssetCount]
      BY <1>0, <3>1 DEF AssetCount
    <3>4. Emit(r, "running", StageProgress[asset[r] + 1], {})
      BY <2>5 DEF FinishAsset, EmitProgress
    <3>5. shown' \in [Jobs -> [status : Statuses, progress : 0 .. 100, refs : SUBSET Refs]]
      BY <1>9, <3>2, <3>4, EmitTyped
    <3>6. UNCHANGED <<broken, ended, reasons, record>>
      BY <2>5 DEF FinishAsset, EmitProgress
    <3> QED
      BY <1>0, <3>3, <3>5, <3>6, TypesTogether
  <2>6. CASE FinishExportPackage(r)
    <3>1. asset[r] = 5 /\ asset' = [asset EXCEPT ![r] = @ + 1]
      BY <2>6 DEF FinishExportPackage, AssetCount
    <3>2. asset' \in [Runs -> -1 .. AssetCount]
      BY <1>0, <3>1 DEF AssetCount
    <3>3. PICK refs \in FinalRefs : EmitEnd(r, "completed", 100, refs)
      BY <2>6 DEF FinishExportPackage
    <3>4. Emit(r, "completed", 100, refs) /\ refs \in SUBSET Refs
      BY <3>3 DEF EmitEnd, FinalRefs, Refs
    <3>5. shown' \in [Jobs -> [status : Statuses, progress : 0 .. 100, refs : SUBSET Refs]]
      BY <1>9, <3>4, EmitTyped
    <3>6. ended' \in [Runs -> SUBSET {"completed", "failed", "cancelled"}]
      BY <3>3, EndTyped
    <3>7. UNCHANGED <<broken, reasons, record>>
      BY <2>6 DEF FinishExportPackage
    <3> QED
      BY <1>0, <3>2, <3>5, <3>6, <3>7, TypesTogether
  <2>7. CASE FailAsset(r)
    BY <2>7 DEF FailAsset, ApplyTypeOK
  <2>8. CASE RecordJob(r)
    <3>1. record' \in [Jobs -> Runs \cup {None}]
      BY <1>0, <2>8 DEF RecordJob
    <3>2. UNCHANGED <<asset, broken, shown, ended, reasons>>
      BY <2>8 DEF RecordJob
    <3> QED
      BY <1>0, <3>1, <3>2, TypesTogether
  <2> QED
    BY <1>1, <2>1, <2>2, <2>3, <2>4, <2>5, <2>6, <2>7, <2>8 DEF Continue
<1>2. ASSUME NEW r \in Runs, Launch(r) PROVE ApplyTypeOK'
  BY <1>2 DEF Launch, launchVars, ApplyTypeOK
<1>3. ASSUME NEW c \in Cancels, CancelJob(c) PROVE ApplyTypeOK'
  BY <1>3 DEF CancelJob, launchVars, ApplyTypeOK
<1>4. CASE UNCHANGED applyVars
  BY <1>4 DEF applyVars, ApplyTypeOK
<1> QED
  BY <1>1, <1>2, <1>3, <1>4 DEF ApplyNext

-----------------------------------------------------------------------------
(* Events, and the one schedule on which no cancel can come too late.      *)

\* A run's own step takes it from one position of EventsFit to the next.
LEMMA OwnEventsStep ==
    ASSUME ApplyTypeOK, NEW r \in Runs, EventsFit(r), LoopInv, Launch(r) \/ Continue(r)
    PROVE  EventsFit(r)'
<1> USE DEF EventsFit
<1>0. RegTypeOK
  BY DEF ApplyTypeOK
<1>1. CASE Launch(r)
  BY <1>0, <1>1, RegisterFacts DEF Launch, launchVars
<1>2. CASE RefuseLaunch(r)
  BY <1>0, <1>2, MoveFacts DEF RefuseLaunch, Refuse, launchVars, EndFits
<1>3. CASE PassPreCheck(r)
  <2>1. /\ run[r].pc = "registered" /\ run'[r].pc = "running"
        /\ asset' = asset /\ ended' = ended /\ broken' = broken
    BY <1>0, <1>3, MoveFacts DEF PassPreCheck, PreCheckPasses, launchVars
  <2>2. asset[r] # AssetCount
    BY <2>1 DEF AssetCount
  <2> QED
    BY <2>1, <2>2
<1>4. CASE DefinitionsRaise(r)
  BY <1>0, <1>4, MoveFacts DEF DefinitionsRaise, Raise, launchVars, EndFits, AssetCount
<1>5. CASE CancelBeforeStart(r)
  BY <1>0, <1>5, MoveFacts DEF CancelBeforeStart, PreCheckCancelled, EmitCancelled, EmitEnd,
     EndFits, ApplyTypeOK
<1>6. CASE EmitStarted(r)
  BY <1>6 DEF EmitStarted, Materializing, EmitProgress, regVars, ApplyTypeOK, AssetCount
<1>7. CASE FinishAsset(r)
  BY <1>7 DEF FinishAsset, Materializing, EmitProgress, regVars, ApplyTypeOK, AssetCount
<1>8. CASE FinishExportPackage(r)
  BY <1>8 DEF FinishExportPackage, Materializing, EmitEnd, regVars, ApplyTypeOK, AssetCount
<1>9. CASE FailAsset(r)
  BY <1>9 DEF FailAsset, Materializing, regVars, ApplyTypeOK, AssetCount
<1>10. CASE MaterializeRaises(r)
  BY <1>0, <1>10, MoveFacts DEF MaterializeRaises, Raise, EmitFailed, EmitEnd, EndFits,
     ApplyTypeOK, AssetCount
<1>11. CASE CancelAfterMaterialize(r)
  <2>1. Threaded /\ run[r].pc = "running" /\ run'[r].pc = "leaving" /\ run'[r].outcome = "cancelled"
    BY <1>0, <1>11, MoveFacts DEF CancelAfterMaterialize, PostCheckCancelled, IsCancelled, LoopInv
  <2> QED
    BY <1>11, <2>1 DEF CancelAfterMaterialize, EmitCancelled, EmitEnd, EndFits, ApplyTypeOK
<1>12. CASE ReportFailure(r)
  BY <1>0, <1>12, MoveFacts DEF ReportFailure, PostCheckPasses, EmitFailed, EmitEnd, EndFits,
     ApplyTypeOK, AssetCount
<1>13. CASE ReturnResult(r)
  BY <1>0, <1>13, MoveFacts DEF ReturnResult, PostCheckPasses, Materialized, launchVars, EndFits
<1>14. CASE DiscardToken(r)
  BY <1>0, <1>14, DiscardFacts DEF DiscardToken, launchVars, EndFits
<1>15. CASE RecordJob(r)
  BY <1>0, <1>15, MoveFacts DEF RecordJob, Respond, EndFits
<1> QED
  BY <1>1, <1>2, <1>3, <1>4, <1>5, <1>6, <1>7, <1>8, <1>9, <1>10, <1>11, <1>12, <1>13,
     <1>14, <1>15 DEF Continue

\* Cancels leave runs alone, apart from their tokens.
LEMMA CancelFacts ==
    ASSUME NEW c \in Cancels, CancelJob(c)
    PROVE  UNCHANGED <<run, asset, broken, shown, ended, record>>
  BY DEF CancelJob, launchVars, CancelStep, CancelRefused, CancelLookup, CancelTrigger

LEMMA EventInvStep ==
    ASSUME ApplyTypeOK, EventInv, LoopInv, [ApplyNext]_applyVars
    PROVE  EventInv'
<1>1. ASSUME NEW r \in Runs, Launch(r) \/ Continue(r) PROVE EventInv'
  <2>1. EventsFit(r)'
    BY <1>1, OwnEventsStep DEF EventInv
  <2>2. ASSUME NEW x \in Runs \ {r} PROVE EventsFit(x)'
    BY <1>1, OthersKept DEF EventInv, EventsFit, EndFits
  <2> QED
    BY <2>1, <2>2 DEF EventInv
<1>2. ASSUME NEW c \in Cancels, CancelJob(c) PROVE EventInv'
  BY <1>2, CancelFacts DEF EventInv, EventsFit, EndFits
<1>3. CASE UNCHANGED applyVars
  BY <1>3 DEF applyVars, EventInv, EventsFit, EndFits
<1> QED
  BY <1>1, <1>2, <1>3 DEF ApplyNext

\* A cancel does not get its turn while a run is executed.
LEMMA LoopInvStep ==
    ASSUME ApplyTypeOK, LoopInv, [ApplyNext]_applyVars
    PROVE  LoopInv'
<1> SUFFICES ASSUME ~Threaded, NEW r \in Runs, run'[r].pc = "running"
             PROVE  run'[r].token \notin triggered'
  BY DEF LoopInv
<1>0. RegTypeOK
  BY DEF ApplyTypeOK
<1>1. ASSUME NEW x \in Runs, x # r, Launch(x) \/ Continue(x)
      PROVE  run'[r].token \notin triggered'
  BY <1>1, OthersKept DEF LoopInv
<1>2. ASSUME Launch(r) \/ Continue(r)
      PROVE  run'[r].token \notin triggered'
  <2>1. CASE PassPreCheck(r)
    BY <1>0, <2>1, MoveFacts DEF PassPreCheck, PreCheckPasses, IsCancelled
  <2>2. CASE Materializing(r)
    BY <2>2 DEF Materializing, regVars, LoopInv
  <2>3. CASE Launch(r)
    BY <1>0, <2>3, RegisterFacts DEF Launch
  <2>4. CASE Discard(r)
    BY <1>0, <2>4, DiscardFacts
  <2>5. CASE \E from, outcome : \E to \in RunPcs \ {"running"} : Move(r, from, to, outcome)
    BY <1>0, <2>5, MoveFacts
  <2> QED
    BY <1>2, <2>1, <2>2, <2>3, <2>4, <2>5 DEF Continue, RefuseLaunch, CancelBeforeStart,
       DefinitionsRaise, EmitStarted, FinishAsset, FinishExportPackage, FailAsset,
       MaterializeRaises, CancelAfterMaterialize, ReportFailure, ReturnResult, DiscardToken,
       RecordJob, Refuse, PreCheckCancelled, Raise, PostCheckCancelled, PostCheckPasses,
       Respond, RunPcs
<1>3. ASSUME NEW c \in Cancels, CancelJob(c)
      PROVE  run'[r].token \notin triggered'
  <2>1. run' = run /\ Busy(r)
    BY <1>3, CancelFacts DEF Busy
  <2>2. r # c
    BY RegistryAssumption
  <2>3. ~CancelTrigger(c)
    BY <2>1, <2>2 DEF CancelTrigger, Turn, Callers
  <2>4. triggered' = triggered
    BY <1>3, <2>3 DEF CancelJob, CancelStep, CancelRefused, CancelLookup, registry
  <2> QED
    BY <2>1, <2>4 DEF LoopInv
<1>4. CASE UNCHANGED applyVars
  BY <1>4 DEF applyVars, LoopInv
<1> QED
  BY <1>1, <1>2, <1>3, <1>4 DEF ApplyNext

-----------------------------------------------------------------------------
(* Records.                                                                *)

LEMMA RecordInvStep ==
    ASSUME ApplyTypeOK, RecordInv, [ApplyNext]_applyVars
    PROVE  RecordInv'
<1>0. RegTypeOK
  BY DEF ApplyTypeOK
<1>1. ASSUME NEW r \in Runs, RecordJob(r) PROVE RecordInv'
  <2>1. /\ run[r].pc = "responding" /\ run'[r].pc = "done" /\ run'[r].job = run[r].job
        /\ run'[r].outcome = run[r].outcome
        /\ \A x \in Runs \ {r} : run'[x] = run[x]
    BY <1>0, <1>1, MoveFacts DEF RecordJob, Respond
  <2> SUFFICES ASSUME NEW j \in Jobs, record'[j] # None
               PROVE  /\ run'[record'[j]].pc = "done" /\ run'[record'[j]].job = j
                      /\ run'[record'[j]].outcome = "succeeded"
    BY DEF RecordInv
  <2>2. CASE run[r].outcome = "succeeded" /\ j = run[r].job
    BY <1>1, <2>1, <2>2 DEF RecordJob, ApplyTypeOK
  <2>3. CASE ~(run[r].outcome = "succeeded" /\ j = run[r].job)
    <3>1. record'[j] = record[j]
      BY <1>1, <2>3 DEF RecordJob, ApplyTypeOK
    <3>2. record[j] \in Runs /\ record[j] # r
      BY <2>1, <3>1 DEF RecordInv, ApplyTypeOK
    <3> QED
      BY <2>1, <3>1, <3>2 DEF RecordInv
  <2> QED
    BY <2>2, <2>3
<1>2. ASSUME NEW r \in Runs, Launch(r) \/ Continue(r), ~RecordJob(r) PROVE RecordInv'
  <2>1. record' = record
    BY <1>2 DEF Launch, launchVars, Continue, RefuseLaunch, CancelBeforeStart, PassPreCheck,
       DefinitionsRaise, EmitStarted, FinishAsset, FinishExportPackage, FailAsset,
       MaterializeRaises, CancelAfterMaterialize, ReportFailure, ReturnResult, DiscardToken
  <2>2. run[r].pc # "done" \/ run'[r] = run[r]
    <3>1. CASE Launch(r)
      BY <1>0, <3>1, RegisterFacts DEF Launch
    <3>2. CASE Discard(r)
      BY <1>0, <3>2, DiscardFacts
    <3>3. CASE \E to, outcome : \E from \in {"registered", "running"} : Move(r, from, to, outcome)
      BY <1>0, <3>3, MoveFacts
    <3>4. CASE Materializing(r)
      BY <3>4 DEF Materializing, regVars
    <3> QED
      BY <1>2, <3>1, <3>2, <3>3, <3>4 DEF Continue, RefuseLaunch, CancelBeforeStart,
         PassPreCheck, DefinitionsRaise, EmitStarted, FinishAsset, FinishExportPackage,
         FailAsset, MaterializeRaises, CancelAfterMaterialize, ReportFailure, ReturnResult,
         DiscardToken, Refuse, PreCheckCancelled, PreCheckPasses, Raise, PostCheckCancelled,
         PostCheckPasses
  <2>3. \A x \in Runs : run[x].pc = "done" => run'[x] = run[x]
    BY <1>2, <2>2, OthersKept
  <2> QED
    BY <2>1, <2>3 DEF RecordInv, ApplyTypeOK
<1>3. ASSUME NEW c \in Cancels, CancelJob(c) PROVE RecordInv'
  BY <1>3, CancelFacts DEF RecordInv
<1>4. CASE UNCHANGED applyVars
  BY <1>4 DEF applyVars, RecordInv
<1> QED
  BY <1>1, <1>2, <1>3, <1>4 DEF ApplyNext

-----------------------------------------------------------------------------
(* The latest event of a job.                                              *)

\* An event replaces the latest one of the run's job and of no other.
LEMMA EmitFacts ==
    ASSUME ApplyTypeOK, NEW r \in Runs, run[r].job \in Jobs,
           NEW status, NEW progress, NEW refs, Emit(r, status, progress, refs)
    PROVE  /\ shown'[run[r].job] = [status |-> status, progress |-> progress, refs |-> refs]
           /\ shown'[run[r].job].status = status
           /\ \A j \in Jobs \ {run[r].job} : shown'[j] = shown[j]
  BY DEF ApplyTypeOK, Emit

\* A step of a run shows nothing, or an event of a registered run.
LEMMA ShownFacts ==
    ASSUME ApplyTypeOK, CallerInv, NEW r \in Runs, Launch(r) \/ Continue(r)
    PROVE  \/ shown' = shown
           \/ Registered(r) /\ \A j \in Jobs \ {run[r].job} : shown'[j] = shown[j]
<1>0. RegTypeOK /\ (Registered(r) => run[r].job \in Jobs)
  BY DEF ApplyTypeOK, CallerInv, Registered
<1>1. CASE CancelBeforeStart(r)
  BY <1>0, <1>1, EmitFacts, MoveFacts DEF CancelBeforeStart, EmitCancelled, EmitEnd,
     PreCheckCancelled, Registered
<1>2. CASE EmitStarted(r) \/ FinishAsset(r) \/ FinishExportPackage(r)
  <2>1. Registered(r)
    BY <1>2 DEF EmitStarted, FinishAsset, FinishExportPackage, Materializing, Registered
  <2>2. \E status, progress, refs : Emit(r, status, progress, refs)
    BY <1>2 DEF EmitStarted, FinishAsset, FinishExportPackage, EmitProgress, EmitEnd
  <2> QED
    BY <1>0, <2>1, <2>2, EmitFacts
<1>3. CASE MaterializeRaises(r) \/ CancelAfterMaterialize(r) \/ ReportFailure(r)
  <2>1. Registered(r)
    BY <1>0, <1>3, MoveFacts DEF MaterializeRaises, CancelAfterMaterialize, ReportFailure,
       Raise, PostCheckCancelled, PostCheckPasses, Registered
  <2>2. \E status, progress, refs : Emit(r, status, progress, refs)
    BY <1>3 DEF MaterializeRaises, CancelAfterMaterialize, ReportFailure, EmitFailed,
       EmitCancelled, EmitEnd
  <2> QED
    BY <1>0, <2>1, <2>2, EmitFacts
<1> QED
  BY <1>1, <1>2, <1>3 DEF Launch, launchVars, Continue, RefuseLaunch, PassPreCheck,
     DefinitionsRaise, FailAsset, ReturnResult, DiscardToken, RecordJob

\* With one registered run per job, a run keeps the view of its own job.
LEMMA ViewKept ==
    ASSUME Exclusive, RegInv, ApplyTypeOK, NEW r \in Runs, Launch(r) \/ Continue(r),
           NEW x \in Runs \ {r}, run[x].pc \in {"running", "leaving"}
    PROVE  Shown(x)' = Shown(x)
<1>1. run'[x] = run[x] /\ run[x].job \in Jobs /\ Registered(x)
  BY OthersKept DEF RegInv, CallerInv, Registered
<1>2. Registered(r) => run[x].job # run[r].job
  BY <1>1 DEF RegInv, ExclusiveInv
<1> QED
  BY <1>1, <1>2, ShownFacts DEF RegInv, Shown

\* The view after a run's own step.
LEMMA OwnViewStep ==
    ASSUME ApplyTypeOK, CallerInv, NEW r \in Runs, EventsFit(r), Current(r),
           Launch(r) \/ Continue(r)
    PROVE  /\ Current(r)'
           /\ \A j \in Jobs :
                 \/ ~Shows(j)' \/ Attends(r, j)'
                 \/ shown'[j] = shown[j] /\ (Attends(r, j) => Attends(r, j)')
<1>0. RegTypeOK /\ (run[r].pc # "new" => run[r].job \in Jobs)
  BY DEF ApplyTypeOK, CallerInv
<1>a. asset[r] \in -1 .. 6
  BY DEF ApplyTypeOK, AssetCount
<1> USE DEF Shows, Attends, Current, Shown, AssetCount
<1>1. CASE Launch(r)
  BY <1>0, <1>1, RegisterFacts DEF Launch, launchVars
<1>2. CASE RefuseLaunch(r)
  BY <1>0, <1>2, MoveFacts DEF RefuseLaunch, Refuse, launchVars, EventsFit
<1>3. CASE PassPreCheck(r)
  <2>1. /\ run[r].pc = "registered" /\ run'[r].pc = "running"
        /\ asset[r] = -1 /\ asset'[r] = asset[r] /\ shown' = shown
    BY <1>0, <1>3, MoveFacts DEF PassPreCheck, PreCheckPasses, launchVars, EventsFit
  <2> QED
    BY <2>1
<1>4. CASE DefinitionsRaise(r)
  <2>1. /\ run[r].pc = "running" /\ run'[r].pc = "leaving" /\ run'[r].job = run[r].job
        /\ asset[r] = -1 /\ ended'[r] = ended[r] /\ shown' = shown
    BY <1>0, <1>4, MoveFacts DEF DefinitionsRaise, Raise, launchVars
  <2>2. ended'[r] = {}
    BY <2>1 DEF EventsFit
  <2> QED
    BY <2>1, <2>2
<1>5. CASE CancelBeforeStart(r)
  <2>1. /\ run[r].pc = "registered" /\ run'[r].pc = "leaving" /\ run'[r].job = run[r].job
        /\ run'[r].outcome = "cancelled"
    BY <1>0, <1>5, MoveFacts DEF CancelBeforeStart, PreCheckCancelled
  <2>2. ended'[r] = {"cancelled"}
    BY <1>5, <2>1 DEF CancelBeforeStart, EmitCancelled, EmitEnd, EventsFit, ApplyTypeOK
  <2>3. /\ shown'[run[r].job].status = "cancelled"
        /\ \A j \in Jobs \ {run[r].job} : shown'[j] = shown[j]
    <3>1. Emit(r, "cancelled", 0, {}) /\ run[r].job \in Jobs
      BY <1>0, <1>5, <2>1 DEF CancelBeforeStart, EmitCancelled, EmitEnd
    <3> QED
      BY <3>1, EmitFacts
  <2> QED
    BY <2>1, <2>2, <2>3
<1>6. CASE EmitStarted(r)
  <2>1. /\ run[r].pc = "running" /\ run' = run /\ asset'[r] = 0
    BY <1>6 DEF EmitStarted, Materializing, regVars, ApplyTypeOK
  <2>2. /\ shown'[run[r].job] = [status |-> "queued", progress |-> 0, refs |-> {}]
        /\ \A j \in Jobs \ {run[r].job} : shown'[j] = shown[j]
    BY <1>0, <1>6, <2>1, EmitFacts DEF EmitStarted, EmitProgress
  <2> QED
    BY <2>1, <2>2
<1>7. CASE FinishAsset(r)
  <2>1. /\ run[r].pc = "running" /\ run' = run /\ asset[r] \in 0 .. 4
        /\ asset'[r] = asset[r] + 1
    BY <1>7 DEF FinishAsset, Materializing, regVars, ApplyTypeOK
  <2>2. /\ shown'[run[r].job] =
              [status |-> "running", progress |-> StageProgress[asset[r] + 1], refs |-> {}]
        /\ \A j \in Jobs \ {run[r].job} : shown'[j] = shown[j]
    BY <1>0, <1>7, <2>1, EmitFacts DEF FinishAsset, EmitProgress
  <2> QED
    BY <2>1, <2>2
<1>8. CASE FinishExportPackage(r)
  <2>1. /\ run[r].pc = "running" /\ run' = run /\ asset'[r] = 6
    BY <1>8 DEF FinishExportPackage, Materializing, regVars, ApplyTypeOK
  <2>2. PICK refs \in FinalRefs : Emit(r, "completed", 100, refs)
    BY <1>8 DEF FinishExportPackage, EmitEnd
  <2>3. /\ shown'[run[r].job].status = "completed"
        /\ \A j \in Jobs \ {run[r].job} : shown'[j] = shown[j]
    <3>1. run[r].job \in Jobs
      BY <1>0, <2>1
    <3> QED
      BY <2>2, <3>1, EmitFacts
  <2> QED
    BY <2>1, <2>3
<1>9. CASE FailAsset(r)
  BY <1>9 DEF FailAsset, Materializing, regVars
<1>10. CASE MaterializeRaises(r) \/ ReportFailure(r)
  <2>1. /\ run[r].pc = "running" /\ run'[r].pc = "leaving" /\ run'[r].job = run[r].job
        /\ run'[r].outcome = "failed"
    BY <1>0, <1>10, MoveFacts DEF MaterializeRaises, Raise, ReportFailure, PostCheckPasses
  <2>2. ended'[r] = {"failed"}
    BY <1>10, <2>1 DEF MaterializeRaises, ReportFailure, EmitFailed, EmitEnd, EventsFit,
       ApplyTypeOK
  <2>3. /\ shown'[run[r].job].status = "failed"
        /\ \A j \in Jobs \ {run[r].job} : shown'[j] = shown[j]
    <3>1. Emit(r, "failed", 0, {}) /\ run[r].job \in Jobs
      BY <1>0, <1>10, <2>1 DEF MaterializeRaises, ReportFailure, EmitFailed, EmitEnd
    <3> QED
      BY <3>1, EmitFacts
  <2> QED
    BY <2>1, <2>2, <2>3
<1>11. CASE CancelAfterMaterialize(r)
  <2>1. /\ run[r].pc = "running" /\ run'[r].pc = "leaving" /\ run'[r].job = run[r].job
        /\ run'[r].outcome = "cancelled"
    BY <1>0, <1>11, MoveFacts DEF CancelAfterMaterialize, PostCheckCancelled
  <2>2. "cancelled" \in ended'[r]
    BY <1>11 DEF CancelAfterMaterialize, EmitCancelled, EmitEnd, ApplyTypeOK
  <2>3. /\ shown'[run[r].job].status = "cancelled"
        /\ \A j \in Jobs \ {run[r].job} : shown'[j] = shown[j]
    <3>1. Emit(r, "cancelled", 50, {}) /\ run[r].job \in Jobs
      BY <1>0, <1>11, <2>1 DEF CancelAfterMaterialize, EmitCancelled, EmitEnd
    <3> QED
      BY <3>1, EmitFacts
  <2> QED
    BY <2>1, <2>2, <2>3
<1>12. CASE ReturnResult(r)
  <2>1. /\ run[r].pc = "running" /\ run'[r].pc = "leaving" /\ run'[r].job = run[r].job
        /\ run'[r].outcome = "succeeded" /\ asset[r] = 6
        /\ ended' = ended /\ shown' = shown
    BY <1>0, <1>12, MoveFacts DEF ReturnResult, PostCheckPasses, Materialized, launchVars
  <2>2. ended[r] = {"completed"} /\ shown[run[r].job].status = "completed"
    BY <2>1 DEF EventsFit
  <2> QED
    BY <2>1, <2>2
<1>13. CASE DiscardToken(r)
  BY <1>0, <1>13, DiscardFacts DEF DiscardToken, launchVars
<1>14. CASE RecordJob(r)
  BY <1>0, <1>14, MoveFacts DEF RecordJob, Respond
<1> QED
  BY <1>1, <1>2, <1>3, <1>4, <1>5, <1>6, <1>7, <1>8, <1>9, <1>10, <1>11, <1>12, <1>13,
     <1>14 DEF Continue

LEMMA ViewInvStep ==
    ASSUME RegInv, ApplyTypeOK, EventInv, ViewInv, [ApplyNext]_applyVars
    PROVE  ViewInv'
<1> SUFFICES ASSUME Exclusive
             PROVE  (\A x \in Runs : Current(x)') /\ (\A j \in Jobs : Attended(j)')
  BY DEF ViewInv
<1>0. (\A x \in Runs : Current(x)) /\ (\A j \in Jobs : Attended(j))
  BY DEF ViewInv
<1>1. ASSUME NEW r \in Runs, Launch(r) \/ Continue(r)
      PROVE  (\A x \in Runs : Current(x)') /\ (\A j \in Jobs : Attended(j)')
  <2>1. /\ Current(r)'
        /\ \A j \in Jobs :
              \/ ~Shows(j)' \/ Attends(r, j)'
              \/ shown'[j] = shown[j] /\ (Attends(r, j) => Attends(r, j)')
    BY <1>0, <1>1, OwnViewStep DEF RegInv, EventInv
  <2>2. ASSUME NEW x \in Runs \ {r} PROVE Current(x)'
    <3>1. run'[x] = run[x] /\ asset'[x] = asset[x] /\ ended'[x] = ended[x]
      BY <1>1, OthersKept
    <3>2. run[x].pc \in {"running", "leaving"} => Shown(x)' = Shown(x)
      BY <1>1, ViewKept
    <3> QED
      BY <1>0, <3>1, <3>2 DEF Current
  <2>3. ASSUME NEW j \in Jobs PROVE Attended(j)'
    <3>1. \A x \in Runs \ {r} : Attends(x, j) => Attends(x, j)'
      BY <1>1, OthersKept DEF Attends
    <3>2. CASE shown'[j] = shown[j] /\ (Attends(r, j) => Attends(r, j)')
      BY <1>0, <3>1, <3>2 DEF Attended, Shows
    <3> QED
      BY <2>1, <3>2 DEF Attended
  <2> QED
    BY <2>1, <2>2, <2>3
<1>2. CASE UNCHANGED <<run, asset, broken, shown, ended, record>>
  BY <1>0, <1>2 DEF Current, Shown, Attended, Shows, Attends
<1> QED
  BY <1>1, <1>2, CancelFacts DEF ApplyNext, applyVars

-----------------------------------------------------------------------------
(* The invariant, and what it says of every run.                           *)

LEMMA ApplyInitInv == ApplyInit => ApplyInv
<1> SUFFICES ASSUME ApplyInit PROVE ApplyInv
  OBVIOUS
<1>1. RegInv /\ RegTypeOK
  BY RegInitInv DEF ApplyInit, RegInv
<1>2. ApplyTypeOK
  BY <1>1 DEF ApplyInit, ApplyTypeOK, AssetCount
<1>3. \A r \in Runs : run[r].pc = "new"
  BY DEF ApplyInit, RegInit
<1>4. EventInv /\ LoopInv
  BY <1>3 DEF ApplyInit, EventInv, EventsFit, LoopInv
<1>5. RecordInv
  BY DEF ApplyInit, RecordInv
<1>6. ViewInv
  BY <1>3 DEF ApplyInit, ViewInv, Current, Attended, Shows
<1> QED
  BY <1>1, <1>2, <1>4, <1>5, <1>6 DEF ApplyInv

LEMMA ApplyInvStep == ApplyInv /\ [ApplyNext]_applyVars => ApplyInv'
<1> SUFFICES ASSUME ApplyInv, [ApplyNext]_applyVars PROVE ApplyInv'
  OBVIOUS
<1>1. RegInv' /\ RegTypeOK'
  BY ApplyStepIsRegStep, RegInvStep DEF ApplyInv, RegInv
<1>2. ApplyTypeOK'
  BY <1>1, ApplyTypeStep DEF ApplyInv
<1>3. EventInv' /\ LoopInv' /\ RecordInv' /\ ViewInv'
  BY EventInvStep, LoopInvStep, RecordInvStep, ViewInvStep DEF ApplyInv
<1> QED
  BY <1>1, <1>2, <1>3 DEF ApplyInv

\* What is true of registry, events and records after every step.
THEOREM ApplyInvariant == ApplySpec => []ApplyInv
  BY ApplyInitInv, ApplyInvStep, PTL DEF ApplySpec

\* Registry, events and records keep their types.
THEOREM ApplyTypeCorrect == ApplySpec => []ApplyTypeOK
<1>1. ApplyInv => ApplyTypeOK
  BY DEF ApplyInv
<1> QED
  BY <1>1, ApplyInvariant, PTL

\* However runs and cancels interleave, and however many launches of a job
\* overlap, the record of a job is of a run of that job that announced
\* COMPLETED and nothing else.
THEOREM RecordsAreOfCompletedRuns == ApplySpec => []RecordsOnlyCompletedRuns
<1>1. ApplyInv => RecordsOnlyCompletedRuns
  <2> SUFFICES ASSUME ApplyInv, NEW j \in Jobs, record[j] # None
               PROVE  run[record[j]].job = j /\ ended[record[j]] = {"completed"}
    BY DEF RecordsOnlyCompletedRuns
  <2>1. /\ record[j] \in Runs /\ run[record[j]].pc = "done"
        /\ run[record[j]].job = j /\ run[record[j]].outcome = "succeeded"
    BY DEF ApplyInv, ApplyTypeOK, RecordInv
  <2> QED
    BY <2>1 DEF ApplyInv, EventInv, EventsFit, EndFits
<1> QED
  BY <1>1, ApplyInvariant, PTL

\* On one event loop a run announces one end.
THEOREM RunsEndOnce ==
    ASSUME ~Threaded
    PROVE  ApplySpec => []OneEndPerRun
<1>1. ApplyInv => OneEndPerRun
  <2> SUFFICES ASSUME ApplyInv, NEW r \in Runs, NEW s \in ended[r], NEW t \in ended[r]
               PROVE  s = t
    BY DEF OneEndPerRun
  <2>1. EventsFit(r) /\ run[r].pc \in RunPcs
    BY DEF ApplyInv, EventInv, RegInv, RegTypeOK
  <2> QED
    BY <2>1 DEF EventsFit, EndFits, RunPcs
<1> QED
  BY <1>1, ApplyInvariant, PTL

\* On one event loop, and on threads when a job is launched again only after its
\* earlier run has discarded its token, the latest event of the job is true of
\* the run that is leaving.
THEOREM ViewsMatchOutcomes ==
    ASSUME Exclusive
    PROVE  ApplySpec => []ViewMatchesOutcome
<1>1. ApplyInv => ViewMatchesOutcome
  BY DEF ApplyInv, ViewInv, Current, Shown, ViewMatchesOutcome
<1> QED
  BY <1>1, ApplyInvariant, PTL

-----------------------------------------------------------------------------
(* The contract with the platform.                                         *)

\* The step the contract takes for each event.
LEMMA EmitIsShow ==
    ASSUME NEW r \in Runs, NEW status, NEW progress, NEW refs, Emit(r, status, progress, refs)
    PROVE  Contract!Show(run[r].job, Contract!Event(status, progress, refs))
  BY DEF Emit, Contract!Show, Contract!Event

\* Progress only grows.
LEMMA StagesGrow ==
    \A n \in 0 .. 4 :
        StageProgress[n + 1] \in (IF n = 0 THEN 0 ELSE StageProgress[n]) + 1 .. 99
  BY DEF StageProgress

LEMMA ContractStep ==
    ASSUME ~Threaded, ApplyInv, [ApplyNext]_applyVars
    PROVE  [Contract!ContractNext]_shown
<1>0. RegTypeOK /\ ApplyTypeOK /\ RegInv /\ Exclusive
  BY DEF ApplyInv, RegInv, Exclusive
<1>1. ASSUME NEW r \in Runs, Launch(r) \/ Continue(r)
      PROVE  Contract!ContractNext \/ shown' = shown
  <2> DEFINE j == run[r].job
  <2>1. /\ EventsFit(r) /\ Current(r)
        /\ (run[r].pc \in {"registered", "running"} => j \in Jobs /\ Registered(r))
    BY <1>0 DEF ApplyInv, EventInv, ViewInv, RegInv, CallerInv, Registered
  <2>2. ASSUME run[r].pc \in {"registered", "running"},
               ~(run[r].pc = "running" /\ asset[r] \in 0 .. AssetCount - 1)
        PROVE  Contract!Quiet(j)
    <3>1. ASSUME NEW x \in Runs PROVE ~Attends(x, j)
      <4>1. CASE x = r
        BY <2>2, <4>1 DEF Attends
      <4>2. CASE x # r
        BY <1>0, <2>1, <2>2, <4>2 DEF Attends, Registered, ApplyInv, RegInv, ExclusiveInv
      <4> QED
        BY <4>1, <4>2
    <3>2. ~Shows(j)
      BY <1>0, <2>1, <2>2, <3>1 DEF ApplyInv, ViewInv, Attended
    <3>3. shown[j].status \in {"none", "queued", "running", "completed", "failed", "cancelled"}
      BY <1>0, <2>1, <2>2 DEF ApplyTypeOK
    <3> QED
      BY <3>2, <3>3 DEF Shows, Contract!Quiet, Contract!Terminal
  <2>3. ASSUME run[r].pc = "running", asset[r] \in 0 .. AssetCount - 1
        PROVE  /\ Contract!Active(j) /\ j \in Jobs
               /\ shown[j].progress = IF asset[r] = 0 THEN 0 ELSE StageProgress[asset[r]]
               /\ asset[r] > 0 => shown[j].status = "running"
    BY <2>1, <2>3 DEF Current, Shown, Contract!Active
  <2> HIDE DEF j
  <2>4. CASE CancelBeforeStart(r)
    <3>1. run[r].pc = "registered" /\ Emit(r, "cancelled", 0, {})
      BY <1>0, <2>4, MoveFacts DEF CancelBeforeStart, PreCheckCancelled, EmitCancelled, EmitEnd
    <3>2. Contract!CancelUnbegun(j) /\ j \in Jobs
      BY <2>1, <2>2, <3>1, EmitIsShow DEF Contract!CancelUnbegun, j
    <3> QED
      BY <3>2 DEF Contract!ContractNext
  <2>5. CASE EmitStarted(r)
    <3>1. run[r].pc = "running" /\ asset[r] = -1 /\ Emit(r, "queued", 0, {})
      BY <2>5 DEF EmitStarted, Materializing, EmitProgress
    <3>2. ~(asset[r] \in 0 .. AssetCount - 1)
      BY <3>1 DEF AssetCount
    <3>3. Contract!Begin(j) /\ j \in Jobs
      BY <2>1, <2>2, <3>1, <3>2, EmitIsShow DEF Contract!Begin, j
    <3> QED
      BY <3>3 DEF Contract!ContractNext
  <2>6. CASE FinishAsset(r)
    <3>1. /\ run[r].pc = "running" /\ asset[r] \in 0 .. 4
          /\ Emit(r, "running", StageProgress[asset[r] + 1], {})
      BY <2>6 DEF FinishAsset, Materializing, EmitProgress, AssetCount
    <3>2. asset[r] \in 0 .. AssetCount - 1
      BY <3>1 DEF AssetCount
    <3>3. StageProgress[asset[r] + 1] \in shown[j].progress + 1 .. 99
      BY <2>3, <3>1, <3>2, StagesGrow
    <3>4. Contract!Advance(j) /\ j \in Jobs
      BY <2>3, <3>1, <3>2, <3>3, EmitIsShow DEF Contract!Advance, j
    <3> QED
      BY <3>4 DEF Contract!ContractNext
  <2>7. CASE FinishExportPackage(r)
    <3>1. run[r].pc = "running" /\ asset[r] = 5
      BY <2>7 DEF FinishExportPackage, Materializing, AssetCount
    <3>2. PICK refs \in SUBSET Refs : Emit(r, "completed", 100, refs)
      BY <2>7 DEF FinishExportPackage, EmitEnd, FinalRefs, Refs
    <3>3. asset[r] \in 0 .. AssetCount - 1 /\ asset[r] > 0
      BY <3>1 DEF AssetCount
    <3>4. Contract!Complete(j) /\ j \in Jobs
      BY <2>3, <3>1, <3>2, <3>3, EmitIsShow DEF Contract!Complete, j
    <3> QED
      BY <3>4 DEF Contract!ContractNext
  <2>8. CASE MaterializeRaises(r) \/ ReportFailure(r)
    <3>1. run[r].pc = "running" /\ Emit(r, "failed", 0, {})
      BY <1>0, <2>8, MoveFacts DEF MaterializeRaises, Raise, ReportFailure, PostCheckPasses,
         EmitFailed, EmitEnd
    <3>2. asset[r] \in 0 .. AssetCount - 1
      BY <2>1, <2>8, <3>1 DEF MaterializeRaises, ReportFailure, EventsFit, AssetCount
    <3>3. Contract!Fail(j) /\ j \in Jobs
      BY <2>3, <3>1, <3>2, EmitIsShow DEF Contract!Fail, j
    <3> QED
      BY <3>3 DEF Contract!ContractNext
  <2>9. ~CancelAfterMaterialize(r)
    BY <1>0, MoveFacts DEF CancelAfterMaterialize, PostCheckCancelled, IsCancelled, ApplyInv,
       LoopInv
  <2> QED
    BY <1>1, <2>4, <2>5, <2>6, <2>7, <2>8, <2>9 DEF Launch, launchVars, Continue,
       RefuseLaunch, PassPreCheck, DefinitionsRaise, FailAsset, ReturnResult, DiscardToken,
       RecordJob
<1>2. ASSUME NEW c \in Cancels, CancelJob(c) PROVE shown' = shown
  BY <1>2, CancelFacts
<1>3. CASE UNCHANGED applyVars
  BY <1>3 DEF applyVars
<1> QED
  BY <1>1, <1>2, <1>3 DEF ApplyNext

\* On one event loop the events of every job are those JobContract allows:
\* progress grows, an attempt ends once, and references come with its end.
THEOREM EventsKeepTheContract ==
    ASSUME ~Threaded
    PROVE  ApplySpec => ImplementsJobContract
<1>1. ApplyInit => Contract!ContractInit
  BY DEF ApplyInit, Contract!ContractInit, Contract!Event
<1>2. ApplyInv /\ [ApplyNext]_applyVars => [Contract!ContractNext]_shown
  BY ContractStep
<1> QED
  BY <1>1, <1>2, ApplyInvariant, PTL DEF ApplySpec, ImplementsJobContract, Contract!ContractSpec

=============================================================================
