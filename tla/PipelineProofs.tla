---------------------------- MODULE PipelineProofs ----------------------------
(***************************************************************************)
(* What holds of the pipeline for every number of findings, workers,       *)
(* operators and pods: the type invariant, that no two workers hold one    *)
(* finding, that what is queued can be claimed, and that nothing signs     *)
(* itself off.                                                             *)
(***************************************************************************)
EXTENDS Pipeline, TLAPS

-----------------------------------------------------------------------------
(* The type invariant in four parts, with what each part of the state      *)
(* points to: a worker or an operator in the middle of a call knows which  *)
(* finding the call is about.                                              *)

RowsTyped ==
    /\ row \in [Finding -> Row]
    /\ art \in [Finding -> Artifacts]
    /\ now \in Nat
    /\ events \in Nat

PodsTyped ==
    /\ pods \subseteq made /\ made \subseteq Pod
    /\ owner \in [Pod -> Finding \cup {NoFinding}]

WorkersTyped ==
    /\ pc \in [Worker -> Phase]
    /\ job \in [Worker -> Finding \cup {NoFinding}]
    /\ snap \in [Worker -> Row]
    /\ res \in [Worker -> Status \cup {"none"}]
    /\ kid \in [Worker -> Finding \cup {NoFinding}]
    /\ \A w \in Worker :
          pc[w] \notin {"stopped", "poll"} => job[w] \in Finding
    /\ \A w \in Worker : pc[w] \in {"spawn", "child"} => kid[w] \in Finding

OperatorsTyped ==
    /\ opPc \in [Operator -> {"idle", "unblock", "signoff", "iterate"}]
    /\ opJob \in [Operator -> Finding \cup {NoFinding}]
    /\ signed \subseteq Finding /\ unwritten \subseteq Finding
    /\ \A o \in Operator : opPc[o] # "idle" => opJob[o] \in Finding

TypeInv == RowsTyped /\ PodsTyped /\ WorkersTyped /\ OperatorsTyped

(* The four parts say at least what TypeOK says. *)
LEMMA TypeInvIsTypeOK == TypeInv => TypeOK
BY DEF TypeInv, TypeOK, RowsTyped, PodsTyped, WorkersTyped, OperatorsTyped

(* The row of a finding that is not there is a row. *)
LEMMA NoRowTyped == NoRow \in Row
BY PipelineAssumption DEF NoRow, Row, State, Stage

(* The rows that the writes below write, from any row. *)
LEMMA RowClaimed ==
    \A r \in Row : [r EXCEPT !.state = "running"] \in Row
BY DEF Row, State

(* A row queued afresh: requeue and unblock. *)
LEMMA RowQueued ==
    \A r \in Row : [r EXCEPT !.state = "pending", !.attempts = 0,
                             !.error = ""] \in Row
BY DEF Row, State

(* The container_id column written: pin, link and clear. *)
LEMMA RowPinned ==
    \A r \in Row, c \in Pod \cup {NoPod} : [r EXCEPT !.container_id = c] \in Row
BY DEF Row

(* State and error written: a result without a retry. *)
LEMMA RowResult ==
    \A r \in Row, s \in State, e \in {"", "message"} :
        [r EXCEPT !.state = s, !.error = e] \in Row
BY DEF Row

(* An attempt counted: a retry or an exception. *)
LEMMA RowAttempt ==
    \A r \in Row, s \in State, n \in Nat, e \in {"message"} \cup Signature :
        [r EXCEPT !.state = s, !.attempts = n, !.error = e] \in Row
BY DEF Row

(* The next stage, queued: a stage that answered ok. *)
LEMMA RowAdvanced ==
    \A r \in Row, g \in Stage :
        [r EXCEPT !.stage = g, !.state = "pending", !.attempts = 0,
                  !.error = ""] \in Row
BY DEF Row, State

(* Back to the patch stage: an iteration. *)
LEMMA RowIterated ==
    \A r \in Row :
        [r EXCEPT !.state = "pending", !.stage = "patch", !.attempts = 0,
                  !.error = ""] \in Row
BY DEF Row, State, Stage

(* An attempt is a number. *)
LEMMA NextAttemptTyped ==
    ASSUME WorkersTyped, NEW w \in Worker
    PROVE  NextAttempt(w) \in Nat
<1>1. snap[w] \in Row
  BY DEF WorkersTyped
<1>2. snap[w].attempts \in Nat
  BY <1>1 DEF Row
<1> QED BY <1>2 DEF NextAttempt

(* What a handler leaves is what the artifacts table can hold. *)
LEMMA ArtifactsTyped ==
    ASSUME NEW a \in Artifacts, NEW g, NEW s
    PROVE  ArtifactsAfter(a, g, s) \subseteq Artifacts
<1>1. a.patches + 1 \in Nat
  BY DEF Artifacts
<1>2. [a EXCEPT !.patches = @ + 1] \in Artifacts
  BY <1>1 DEF Artifacts
<1>3. /\ [a EXCEPT !.reproducer = TRUE] \in Artifacts
      /\ [a EXCEPT !.verdict = "closed"] \in Artifacts
      /\ [a EXCEPT !.verdict = "open"] \in Artifacts
  BY DEF Artifacts
<1> QED BY <1>2, <1>3 DEF ArtifactsAfter

(* A row inserted: a finding added or a child spawned. *)
LEMMA RowInserted ==
    ASSUME NEW n \in Nat, NEW g \in Stage
    PROVE  [NoRow EXCEPT !.state = "pending", !.stage = g, !.created_at = n]
              \in Row
BY NoRowTyped DEF Row, State

(* An UPDATE that writes a row leaves the table a table. *)
LEMMA UpdateTyped ==
    ASSUME NEW f \in Finding, NEW r \in Row, row \in [Finding -> Row],
           Update(f, r)
    PROVE  row' \in [Finding -> Row]
BY DEF Update

(* A write of the column that follows the pod, or its failure. *)
LEMMA ColumnTyped ==
    ASSUME TypeInv, NEW f \in Finding, NEW r \in Row,
           UNCHANGED <<art, now, opPc, opJob, signed>>,
           \/ Update(f, r) /\ UNCHANGED <<unwritten, events>>
           \/ Unwritten(f)
    PROVE  RowsTyped' /\ OperatorsTyped'
<1> USE DEF TypeInv, RowsTyped, OperatorsTyped
<1>1. CASE Update(f, r) /\ UNCHANGED <<unwritten, events>>
  BY <1>1, UpdateTyped
<1>2. CASE Unwritten(f)
  BY <1>2 DEF Unwritten, Happens
<1> QED BY <1>1, <1>2

(* Letting go of everything is always well typed. *)
LEMMA ReleaseTyped ==
    ASSUME WorkersTyped, NEW w \in Worker, NEW p \in {"poll", "stopped"},
           Release(w, p)
    PROVE  WorkersTyped'
BY NoRowTyped DEF WorkersTyped, Release, Goto, Phase

(* So is moving on to the next step of the same job. *)
LEMMA GotoTyped ==
    ASSUME WorkersTyped, NEW w \in Worker, NEW p \in Phase \ {"spawn", "child"},
           pc[w] \notin {"stopped", "poll"}, Goto(w, p),
           UNCHANGED <<job, kid>>,
           snap' \in [Worker -> Row], res' \in [Worker -> Status \cup {"none"}]
    PROVE  WorkersTyped'
BY DEF WorkersTyped, Goto

(* What does not change stays typed. *)
LEMMA UnchangedTyped ==
    ASSUME TypeInv
    PROVE  /\ UNCHANGED <<dbVars, events>> => RowsTyped'
           /\ UNCHANGED podVars => PodsTyped'
           /\ UNCHANGED workerVars => WorkersTyped'
           /\ UNCHANGED opVars => OperatorsTyped'
BY DEF TypeInv, RowsTyped, PodsTyped, WorkersTyped, OperatorsTyped, dbVars,
   podVars, workerVars, opVars

(* The variables start well typed. *)
LEMMA TypeInit == Init => TypeInv
<1> SUFFICES ASSUME Init PROVE TypeInv
  OBVIOUS
<1>1. RowsTyped
  BY NoRowTyped DEF Init, RowsTyped, Artifacts, NoArtifacts
<1>2. PodsTyped
  BY DEF Init, PodsTyped
<1>3. WorkersTyped
  BY NoRowTyped DEF Init, WorkersTyped, Phase
<1>4. OperatorsTyped
  BY DEF Init, OperatorsTyped
<1> QED BY <1>1, <1>2, <1>3, <1>4 DEF TypeInv

-----------------------------------------------------------------------------
(* One lemma per group of actions: every column a write sets has a value   *)
(* of its type.                                                            *)

(* Adding a finding. *)
LEMMA TypeAdd ==
    ASSUME TypeInv, NEW f \in Finding, AddFinding(f)
    PROVE  TypeInv'
<1> USE DEF TypeInv
<1>1. [NoRow EXCEPT !.state = "pending", !.stage = "ingest",
                    !.created_at = now + 1] \in Row
  <2>1. now + 1 \in Nat
    BY DEF RowsTyped
  <2> QED BY <2>1, RowInserted DEF Stage
<1>2. RowsTyped'
  BY <1>1, UpdateTyped DEF AddFinding, Insert, RowsTyped
<1> QED BY <1>2, UnchangedTyped DEF AddFinding

(* Starting a run, requeueing and claiming. *)
LEMMA TypeQueue ==
    ASSUME TypeInv, NEW w \in Worker,
           \/ StartRun(w) \/ (\E f \in Finding : RequeueRead(w, f))
           \/ RequeueWrite(w) \/ ClaimSelect(w) \/ QueueEmpty(w)
           \/ ClaimUpdate(w) \/ ClaimLost(w) \/ Fetch(w)
    PROVE  TypeInv'
<1> USE DEF TypeInv
<1>1. CASE StartRun(w)
  <2>1. WorkersTyped'
    BY <1>1 DEF StartRun, Goto, WorkersTyped, Phase
  <2> QED BY <1>1, <2>1, UnchangedTyped DEF StartRun
<1>2. CASE \E f \in Finding : RequeueRead(w, f)
  <2>1. WorkersTyped'
    BY <1>2 DEF RequeueRead, Goto, WorkersTyped, Phase
  <2>2. RowsTyped'
    BY <1>2 DEF RequeueRead, RowsTyped, Happens, dbVars
  <2> QED BY <1>2, <2>1, <2>2, UnchangedTyped DEF RequeueRead
<1>3. CASE RequeueWrite(w)
  <2>1. job[w] \in Finding
    BY <1>3 DEF RequeueWrite, WorkersTyped
  <2>2. [row[job[w]] EXCEPT !.state = "pending", !.attempts = 0, !.error = ""]
           \in Row
    BY <2>1, RowQueued DEF RowsTyped
  <2>3. RowsTyped'
    BY <1>3, <2>1, <2>2, UpdateTyped DEF RequeueWrite, RowsTyped
  <2> QED BY <1>3, <2>3, ReleaseTyped, UnchangedTyped DEF RequeueWrite
<1>4. CASE ClaimSelect(w)
  <2>1. WorkersTyped'
    BY <1>4 DEF ClaimSelect, OldestReady, Goto, WorkersTyped, Phase
  <2> QED BY <1>4, <2>1, UnchangedTyped DEF ClaimSelect
<1>5. CASE QueueEmpty(w)
  BY <1>5, ReleaseTyped, UnchangedTyped DEF QueueEmpty
<1>6. CASE ClaimUpdate(w)
  <2>1. job[w] \in Finding
    BY <1>6 DEF ClaimUpdate, WorkersTyped
  <2>2. [row[job[w]] EXCEPT !.state = "running"] \in Row
    BY <2>1, RowClaimed DEF RowsTyped
  <2>3. RowsTyped'
    BY <1>6, <2>1, <2>2, UpdateTyped DEF ClaimUpdate, RowsTyped
  <2>4. WorkersTyped'
    BY <1>6, GotoTyped DEF ClaimUpdate, WorkersTyped, Phase
  <2> QED BY <1>6, <2>3, <2>4, UnchangedTyped DEF ClaimUpdate
<1>7. CASE ClaimLost(w)
  BY <1>7, ReleaseTyped, UnchangedTyped DEF ClaimLost
<1>8. CASE Fetch(w)
  <2>1. WorkersTyped'
    BY <1>8 DEF Fetch, Goto, WorkersTyped, RowsTyped, Phase
  <2> QED BY <1>8, <2>1, UnchangedTyped DEF Fetch
<1> QED BY <1>1, <1>2, <1>3, <1>4, <1>5, <1>6, <1>7, <1>8

(* Inside a stage handler. *)
LEMMA TypeHandler ==
    ASSUME TypeInv, NEW w \in Worker, Handler(w)
    PROVE  TypeInv'
<1> USE DEF TypeInv
<1>1. CASE \E s \in Status : EarlyReturn(w, s)
  <2>1. WorkersTyped'
    BY <1>1, GotoTyped DEF EarlyReturn, WorkersTyped, Phase
  <2> QED BY <1>1, <2>1, UnchangedTyped DEF EarlyReturn
<1>2. CASE AttachPod(w)
  <2>1. WorkersTyped'
    BY <1>2, GotoTyped DEF AttachPod, WorkersTyped, Phase
  <2> QED BY <1>2, <2>1, UnchangedTyped DEF AttachPod
<1>3. CASE PodLost(w)
  <2>1. WorkersTyped'
    BY <1>3, GotoTyped DEF PodLost, WorkersTyped, Phase, Status
  <2> QED BY <1>3, <2>1, UnchangedTyped DEF PodLost
<1>4. CASE \E p \in Pod : CreatePod(w, p)
  <2> PICK p \in Pod : CreatePod(w, p)
    BY <1>4
  <2>1. snap' \in [Worker -> Row]
    <3>1. [snap[w] EXCEPT !.container_id = p] \in Row
      BY RowPinned DEF WorkersTyped
    <3> QED BY <3>1 DEF CreatePod, WorkersTyped
  <2>2. WorkersTyped'
    BY <2>1, GotoTyped DEF CreatePod, WorkersTyped, Phase
  <2>3. PodsTyped'
    <3>1. job[w] \in Finding
      BY DEF CreatePod, WorkersTyped
    <3> QED BY <3>1 DEF CreatePod, PodsTyped
  <2> QED BY <2>2, <2>3, UnchangedTyped DEF CreatePod
<1>5. CASE PinPod(w)
  <2>1. job[w] \in Finding /\ snap[w].container_id \in Pod \cup {NoPod}
    BY <1>5 DEF PinPod, WorkersTyped, Row
  <2>2. [row[job[w]] EXCEPT !.container_id = snap[w].container_id] \in Row
    BY <2>1, RowPinned DEF RowsTyped
  <2>3. RowsTyped' /\ OperatorsTyped'
    BY <1>5, <2>1, <2>2, ColumnTyped DEF PinPod
  <2>4. snap' \in [Worker -> Row]
    <3>1. [snap[w] EXCEPT !.container_id = NoPod] \in Row
      BY RowPinned DEF WorkersTyped
    <3> QED BY <1>5, <3>1 DEF PinPod, WorkersTyped
  <2>5. WorkersTyped'
    BY <1>5, <2>4, GotoTyped DEF PinPod, WorkersTyped, Phase
  <2> QED BY <1>5, <2>3, <2>5, UnchangedTyped DEF PinPod
<1>6. CASE \E s \in Status : StageReturn(w, s)
  <2> PICK s \in Status : StageReturn(w, s)
    BY <1>6
  <2>1. art' \in [Finding -> Artifacts]
    <3>1. job[w] \in Finding
      BY DEF StageReturn, WorkersTyped
    <3>2. ArtifactsAfter(art[job[w]], StageOf(w), s) \subseteq Artifacts
      BY <3>1, ArtifactsTyped DEF RowsTyped
    <3> QED BY <3>1, <3>2 DEF StageReturn, RowsTyped
  <2>2. RowsTyped'
    BY <2>1 DEF StageReturn, RowsTyped
  <2>3. WorkersTyped'
    BY GotoTyped DEF StageReturn, WorkersTyped, Phase
  <2> QED BY <2>2, <2>3, UnchangedTyped DEF StageReturn
<1>7. CASE \E c \in Finding : SpawnChild(w, c)
  <2> PICK c \in Finding : SpawnChild(w, c)
    BY <1>7
  <2>1. [NoRow EXCEPT !.state = "pending", !.stage = "patch",
                      !.created_at = now + 1] \in Row
    <3>1. now + 1 \in Nat
      BY DEF RowsTyped
    <3> QED BY <3>1, RowInserted DEF Stage
  <2>2. RowsTyped'
    BY <2>1, UpdateTyped DEF SpawnChild, Insert, RowsTyped
  <2>3. WorkersTyped'
    BY DEF SpawnChild, Goto, WorkersTyped, Phase
  <2> QED BY <2>2, <2>3, UnchangedTyped DEF SpawnChild
<1>8. CASE LinkChild(w)
  <2>1. kid[w] \in Finding /\ snap[w].container_id \in Pod \cup {NoPod}
    BY <1>8 DEF LinkChild, WorkersTyped, Row
  <2>2. [row[kid[w]] EXCEPT !.container_id = snap[w].container_id] \in Row
    BY <2>1, RowPinned DEF RowsTyped
  <2>3. RowsTyped'
    BY <1>8, <2>1, <2>2, UpdateTyped DEF LinkChild, RowsTyped
  <2>4. WorkersTyped'
    BY <1>8 DEF LinkChild, Goto, WorkersTyped, Phase
  <2> QED BY <1>8, <2>3, <2>4, UnchangedTyped DEF LinkChild
<1>9. CASE ChildProved(w)
  <2>1. WorkersTyped'
    BY <1>9 DEF ChildProved, Goto, WorkersTyped, Phase
  <2> QED BY <1>9, <2>1, UnchangedTyped DEF ChildProved
<1>10. CASE ChildFails(w)
  <2>1. kid[w] \in Finding
    BY <1>10 DEF ChildFails, WorkersTyped
  <2>2. [row[kid[w]] EXCEPT !.state = "failed", !.error = "message"] \in Row
    BY <2>1, RowResult DEF RowsTyped, State
  <2>3. RowsTyped'
    BY <1>10, <2>1, <2>2, UpdateTyped DEF ChildFails, RowsTyped
  <2>4. WorkersTyped'
    BY <1>10 DEF ChildFails, Goto, WorkersTyped, Phase, Status
  <2> QED BY <1>10, <2>3, <2>4, UnchangedTyped DEF ChildFails
<1>11. CASE \E sig \in Signature, transient \in BOOLEAN : Raise(w, sig, transient)
  <2> PICK sig \in Signature, transient \in BOOLEAN : Raise(w, sig, transient)
    BY <1>11
  <2> DEFINE s == IF Grant(w, sig, transient) THEN "pending" ELSE "failed"
             n == NextAttempt(w)
  <2>1. job[w] \in Finding /\ s \in State
    BY DEF Raise, NoContainerId, WorkersTyped, State
  <2> n \in Nat
    BY NextAttemptTyped
  <2>2. [row[job[w]] EXCEPT !.state = s, !.attempts = n, !.error = sig] \in Row
    BY <2>1, RowAttempt DEF RowsTyped
  <2>3. RowsTyped'
    BY <2>1, <2>2, UpdateTyped DEF Raise, NoContainerId, RowsTyped
  <2> QED BY <2>3, ReleaseTyped, UnchangedTyped DEF Raise, NoContainerId
<1> QED BY <1>1, <1>2, <1>3, <1>4, <1>5, <1>6, <1>7, <1>8, <1>9, <1>10, <1>11
        DEF Handler

(* Writing the result of a stage. *)
LEMMA CloseTyped ==
    ASSUME TypeInv, NEW w \in Worker, pc[w] = "advance",
           NEW s \in State, NEW e \in {"", "message"}, Close(w, s, e)
    PROVE  row' \in [Finding -> Row] /\ WorkersTyped'
<1>1. job[w] \in Finding /\ row[job[w]] \in Row
  BY DEF TypeInv, RowsTyped, WorkersTyped
<1>2. [row[job[w]] EXCEPT !.state = s, !.error = e] \in Row
  BY <1>1, RowResult
<1>3. row' \in [Finding -> Row]
  BY <1>1, <1>2, UpdateTyped DEF Close, TypeInv, RowsTyped
<1>4. WorkersTyped'
  BY ReleaseTyped, GotoTyped DEF Close, TearDown, TypeInv, WorkersTyped, Phase
<1> QED BY <1>3, <1>4

(* The writes of _advance and _teardown_pod. *)
LEMMA TypeDispatch ==
    ASSUME TypeInv, NEW w \in Worker, Dispatch(w)
    PROVE  TypeInv'
<1> USE DEF TypeInv
<1>a. pc[w] \notin {"stopped", "poll"} => job[w] \in Finding /\ row[job[w]] \in Row
  BY DEF RowsTyped, WorkersTyped
<1>b. StageOf(w) \in Stage
  <2>1. snap[w] \in Row
    BY DEF WorkersTyped
  <2> QED BY <2>1 DEF StageOf, Row
<1>1. CASE AdvanceOk(w)
  <2>1. CASE AtLastStage(w)
    <3>1. Close(w, "done", "") /\ pc[w] = "advance"
      BY <1>1, <2>1 DEF AdvanceOk, Returned, AtLastStage
    <3>2. row' \in [Finding -> Row] /\ WorkersTyped'
      BY <3>1, CloseTyped DEF State
    <3>3. RowsTyped'
      BY <1>1, <3>2 DEF AdvanceOk, RowsTyped
    <3> QED BY <1>1, <3>2, <3>3, UnchangedTyped DEF AdvanceOk
  <2>2. CASE ~AtLastStage(w)
    <3>1. NextStage[StageOf(w)] \in Stage
      BY <1>b, <2>2 DEF AtLastStage, NextStage, Stage
    <3>2. [row[job[w]] EXCEPT !.stage = NextStage[StageOf(w)],
               !.state = "pending", !.attempts = 0, !.error = ""] \in Row
      BY <1>a, <1>1, <3>1, RowAdvanced DEF AdvanceOk, Returned
    <3>3. RowsTyped'
      BY <1>a, <1>1, <2>2, <3>2, UpdateTyped DEF AdvanceOk, Returned, RowsTyped
    <3> QED BY <1>1, <2>2, <3>3, ReleaseTyped, UnchangedTyped DEF AdvanceOk
  <2> QED BY <2>1, <2>2
<1>2. CASE AdvanceRetry(w)
  <2> DEFINE n == NextAttempt(w)
             s == IF TriesLeft(n) THEN "pending" ELSE "failed"
  <2>1. n \in Nat /\ s \in State
    BY NextAttemptTyped DEF State
  <2>2. [row[job[w]] EXCEPT !.state = s, !.attempts = n, !.error = "message"]
           \in Row
    BY <1>a, <1>2, <2>1, RowAttempt DEF AdvanceRetry, Returned
  <2>3. RowsTyped'
    BY <1>a, <1>2, <2>2, UpdateTyped DEF AdvanceRetry, Returned, RowsTyped
  <2>4. WorkersTyped'
    BY <1>2, ReleaseTyped, GotoTyped
       DEF AdvanceRetry, Returned, TearDown, WorkersTyped, Phase
  <2> QED BY <1>2, <2>3, <2>4, UnchangedTyped DEF AdvanceRetry
<1>3. CASE AdvanceBlocked(w)
  <2>1. [row[job[w]] EXCEPT !.state = "blocked", !.error = "message"] \in Row
    BY <1>a, <1>3, RowResult DEF AdvanceBlocked, Returned, State
  <2>2. RowsTyped'
    BY <1>a, <1>3, <2>1, UpdateTyped DEF AdvanceBlocked, Returned, RowsTyped
  <2> QED BY <1>3, <2>2, ReleaseTyped, UnchangedTyped DEF AdvanceBlocked
<1>4. CASE AdvanceReject(w)
  <2>1. row' \in [Finding -> Row] /\ WorkersTyped'
    BY <1>4, CloseTyped DEF AdvanceReject, Returned, State
  <2>2. RowsTyped'
    BY <1>4, <2>1 DEF AdvanceReject, RowsTyped
  <2> QED BY <1>4, <2>1, <2>2, UnchangedTyped DEF AdvanceReject
<1>5. CASE AdvanceFail(w)
  <2>1. row' \in [Finding -> Row] /\ WorkersTyped'
    BY <1>5, CloseTyped DEF AdvanceFail, Returned, State
  <2>2. RowsTyped'
    BY <1>5, <2>1 DEF AdvanceFail, RowsTyped
  <2> QED BY <1>5, <2>1, <2>2, UnchangedTyped DEF AdvanceFail
<1>6. CASE RemovePod(w)
  <2>1. RowsTyped'
    BY <1>6 DEF RemovePod, Happens, RowsTyped, dbVars
  <2>2. PodsTyped'
    BY <1>6 DEF RemovePod, PodsTyped
  <2>3. WorkersTyped'
    BY <1>6, GotoTyped DEF RemovePod, WorkersTyped, Phase
  <2> QED BY <1>6, <2>1, <2>2, <2>3, UnchangedTyped DEF RemovePod
<1>7. CASE ClearPod(w)
  <2>1. [row[job[w]] EXCEPT !.container_id = NoPod] \in Row
    BY <1>a, <1>7, RowPinned DEF ClearPod
  <2>2. RowsTyped' /\ OperatorsTyped'
    BY <1>a, <1>7, <2>1, ColumnTyped DEF ClearPod
  <2> QED BY <1>7, <2>2, ReleaseTyped, UnchangedTyped DEF ClearPod
<1> QED BY <1>1, <1>2, <1>3, <1>4, <1>5, <1>6, <1>7 DEF Dispatch

(* The calls of the operators. *)
LEMMA CallTyped ==
    ASSUME TypeInv, NEW o \in Operator, NEW f \in Finding,
           NEW what \in {"unblock", "signoff", "iterate"}, Call(o, what, f)
    PROVE  TypeInv'
<1>1. RowsTyped'
  BY DEF Call, Happens, TypeInv, RowsTyped, dbVars
<1>2. OperatorsTyped'
  BY DEF Call, TypeInv, OperatorsTyped
<1> QED BY <1>1, <1>2, UnchangedTyped DEF Call, TypeInv

(* The reads and writes of unblock, signoff and iterate. *)
LEMMA TypeOperator ==
    ASSUME TypeInv, NEW o \in Operator, OperatorStep(o)
    PROVE  TypeInv'
<1> USE DEF TypeInv
<1>a. opPc[o] # "idle" => opJob[o] \in Finding /\ row[opJob[o]] \in Row
  BY DEF RowsTyped, OperatorsTyped
<1>1. CASE \E f \in Finding : UnblockRead(o, f) \/ SignoffRead(o, f)
                                 \/ IterateRead(o, f)
  BY <1>1, CallTyped DEF UnblockRead, SignoffRead, IterateRead
<1>2. CASE UnblockWrite(o)
  <2>1. [row[opJob[o]] EXCEPT !.state = "pending", !.attempts = 0, !.error = ""]
           \in Row
    BY <1>a, <1>2, RowQueued DEF UnblockWrite, Answer
  <2>2. RowsTyped'
    BY <1>a, <1>2, <2>1, UpdateTyped DEF UnblockWrite, Answer, RowsTyped
  <2>3. OperatorsTyped'
    BY <1>2 DEF UnblockWrite, Answer, OperatorsTyped
  <2> QED BY <1>2, <2>2, <2>3, UnchangedTyped DEF UnblockWrite, Answer
<1>3. CASE SignoffWrite(o)
  <2>1. [row[opJob[o]] EXCEPT !.state = "done", !.error = ""] \in Row
    BY <1>a, <1>3, RowResult DEF SignoffWrite, Answer, State
  <2>2. RowsTyped'
    BY <1>a, <1>3, <2>1, UpdateTyped DEF SignoffWrite, Answer, RowsTyped
  <2>3. OperatorsTyped'
    BY <1>3 DEF SignoffWrite, Answer, OperatorsTyped
  <2> QED BY <1>3, <2>2, <2>3, UnchangedTyped DEF SignoffWrite, Answer
<1>4. CASE IterateWrite(o)
  <2>1. [row[opJob[o]] EXCEPT !.state = "pending", !.stage = "patch",
                              !.attempts = 0, !.error = ""] \in Row
    BY <1>a, <1>4, RowIterated DEF IterateWrite, Answer
  <2>2. row' \in [Finding -> Row]
    BY <1>a, <1>4, <2>1, UpdateTyped DEF IterateWrite, Answer, RowsTyped
  <2>3. art' \in [Finding -> Artifacts]
    <3>1. opJob[o] \in Finding
      BY <1>a, <1>4 DEF IterateWrite, Answer
    <3>2. [art[opJob[o]] EXCEPT !.patches = 0, !.verdict = "none"] \in Artifacts
      BY <3>1 DEF Artifacts, RowsTyped
    <3> QED BY <1>4, <3>1, <3>2 DEF IterateWrite, RowsTyped
  <2>4. RowsTyped'
    BY <1>4, <2>2, <2>3 DEF IterateWrite, Answer, RowsTyped
  <2>5. OperatorsTyped'
    BY <1>4 DEF IterateWrite, Answer, OperatorsTyped
  <2> QED BY <1>4, <2>4, <2>5, UnchangedTyped DEF IterateWrite, Answer
<1> QED BY <1>1, <1>2, <1>3, <1>4 DEF OperatorStep

(* Crashes and lost containers. *)
LEMMA TypeFault ==
    ASSUME TypeInv, (\E w \in Worker : Crash(w)) \/ (\E p \in Pod : PodDies(p))
    PROVE  TypeInv'
<1>1. CASE \E w \in Worker : Crash(w)
  <2>1. RowsTyped'
    BY <1>1 DEF Crash, Happens, TypeInv, RowsTyped, dbVars
  <2> QED BY <1>1, <2>1, ReleaseTyped, UnchangedTyped DEF Crash, TypeInv
<1>2. CASE \E p \in Pod : PodDies(p)
  <2>1. RowsTyped' /\ PodsTyped'
    BY <1>2 DEF PodDies, Happens, TypeInv, RowsTyped, PodsTyped, dbVars
  <2> QED BY <1>2, <2>1, UnchangedTyped DEF PodDies, TypeInv
<1> QED BY <1>1, <1>2

(* Every step. *)
LEMMA TypeStep == TypeInv /\ [Next]_vars => TypeInv'
<1> SUFFICES ASSUME TypeInv, [Next]_vars PROVE TypeInv'
  OBVIOUS
<1>1. CASE \E f \in Finding : AddFinding(f)
  BY <1>1, TypeAdd
<1>2. CASE \E w \in Worker : \/ StartRun(w)
                             \/ \E f \in Finding : RequeueRead(w, f)
  BY <1>2, TypeQueue
<1>3. CASE \E w \in Worker : WorkerStep(w)
  BY <1>3, TypeQueue, TypeHandler, TypeDispatch DEF WorkerStep
<1>4. CASE \E o \in Operator : OperatorStep(o)
  BY <1>4, TypeOperator
<1>5. CASE (\E w \in Worker : Crash(w)) \/ (\E p \in Pod : PodDies(p))
  BY <1>5, TypeFault
<1>6. CASE UNCHANGED vars
  BY <1>6, UnchangedTyped DEF vars, TypeInv
<1> QED BY <1>1, <1>2, <1>3, <1>4, <1>5, <1>6 DEF Next

(* Every value the pipeline stores or keeps in memory has its type, and    *)
(* no write happens without a row to write to, for any number of findings, *)
(* workers, operators and pods and in every environment.                   *)
THEOREM TypeCorrect == Spec => []TypeOK
<1>1. Spec => []TypeInv
  BY TypeInit, TypeStep, PTL DEF Spec
<1> QED BY <1>1, TypeInvIsTypeOK, PTL

(* What pinning and clearing may do to the rows: write that column of the  *)
(* worker's own finding, or nothing.                                       *)
LEMMA ColumnWrites ==
    ASSUME TypeInv, NEW w \in Worker, PinPod(w) \/ ClearPod(w)
    PROVE  /\ job[w] \in Finding /\ row[job[w]] \in Row
           /\ \/ UNCHANGED row
              \/ \E c \in Pod \cup {NoPod} :
                    Update(job[w], [row[job[w]] EXCEPT !.container_id = c])
           /\ \A f \in Finding : row'[f].state = row[f].state
<1>1. job[w] \in Finding /\ row[job[w]] \in Row
  BY DEF PinPod, ClearPod, TypeInv, WorkersTyped, RowsTyped
<1>2. snap[w].container_id \in Pod \cup {NoPod}
  BY DEF TypeInv, WorkersTyped, Row
<1>3. \/ UNCHANGED row
      \/ \E c \in Pod \cup {NoPod} :
            Update(job[w], [row[job[w]] EXCEPT !.container_id = c])
  BY <1>2 DEF PinPod, ClearPod, Unwritten
<1>4. ASSUME NEW c, Update(job[w], [row[job[w]] EXCEPT !.container_id = c]),
             NEW f \in Finding
      PROVE  row'[f].state = row[f].state
  <2>1. [row[job[w]] EXCEPT !.container_id = c].state = row[job[w]].state
    BY <1>1 DEF Row
  <2> QED BY <1>1, <1>4, <2>1 DEF Update, TypeInv, RowsTyped
<1> QED BY <1>1, <1>3, <1>4

-----------------------------------------------------------------------------
(* One holder.  The inductive invariant counts the tear-down, in which the *)
(* worker still writes to the row it has closed, as part of the holding,   *)
(* and adds why a second claim fails: the row of a finding somebody keeps  *)
(* is neither pending nor absent.                                          *)

Keeps(w) == Holds(w) \/ pc[w] \in {"teardown", "clear"}

KeepersApart == \A v, w \in Worker :
    v # w /\ Keeps(v) /\ Keeps(w) => job[v] # job[w]

Held(r) == r.state \notin {"pending", "absent"}

Exclusive ==
    /\ \A w \in Worker : Keeps(w) => Held(row[job[w]])
    /\ KeepersApart

(* Nobody rewrites a row to pending behind a worker's back. *)
Unrewritten == Environment \cap {"requeue", "unblock", "iterate"} = {}

(* The writers that Unrewritten rules out never get to their write. *)
NoRewriter ==
    /\ \A w \in Worker : pc[w] # "requeue"
    /\ \A o \in Operator : opPc[o] \notin {"unblock", "iterate"}

ExclusiveInv == TypeInv /\ NoRewriter /\ Exclusive

(* Without their read they never start: they check Environment there.     *)
LEMMA NoRewriterStep ==
    ASSUME Unrewritten, TypeInv, NoRewriter, [Next]_vars
    PROVE  NoRewriter'
<1> USE DEF NoRewriter
<1>1. CASE \E f \in Finding : AddFinding(f)
  BY <1>1 DEF AddFinding, workerVars, opVars
<1>2. CASE \E w \in Worker : StartRun(w)
  BY <1>2 DEF StartRun, Goto, opVars, TypeInv, WorkersTyped
<1>3. CASE \E w \in Worker, f \in Finding : RequeueRead(w, f)
  BY <1>3 DEF RequeueRead, Happens, Unrewritten
<1>4. CASE \E w \in Worker : WorkerStep(w)
  <2> PICK w \in Worker : WorkerStep(w)
    BY <1>4
  <2>1. UNCHANGED opPc
    BY DEF WorkerStep, RequeueWrite, ClaimSelect, QueueEmpty, ClaimUpdate,
       ClaimLost, Fetch, Handler, EarlyReturn, AttachPod, PodLost, CreatePod,
       PinPod, StageReturn, SpawnChild, LinkChild, ChildProved, ChildFails,
       Raise, NoContainerId, Dispatch, AdvanceOk, AdvanceRetry, AdvanceBlocked,
       AdvanceReject, AdvanceFail, RemovePod, ClearPod, opVars
  <2>2. \E p \in Phase \ {"requeue"} : pc' = [pc EXCEPT ![w] = p]
    BY DEF WorkerStep, RequeueWrite, ClaimSelect, QueueEmpty, ClaimUpdate,
       ClaimLost, Fetch, Handler, EarlyReturn, AttachPod, PodLost, CreatePod,
       PinPod, StageReturn, SpawnChild, LinkChild, ChildProved, ChildFails,
       Raise, NoContainerId, Dispatch, AdvanceOk, AdvanceRetry, AdvanceBlocked,
       AdvanceReject, AdvanceFail, RemovePod, ClearPod, Close, TearDown,
       Release, Goto, Phase
  <2> QED BY <2>1, <2>2 DEF TypeInv, WorkersTyped
<1>5. CASE \E o \in Operator : OperatorStep(o)
  BY <1>5 DEF OperatorStep, UnblockRead, UnblockWrite, SignoffRead,
     SignoffWrite, IterateRead, IterateWrite, Call, Answer, Happens,
     Unrewritten, workerVars, TypeInv, OperatorsTyped
<1>6. CASE \E w \in Worker : Crash(w)
  BY <1>6 DEF Crash, Release, Goto, opVars, TypeInv, WorkersTyped
<1>7. CASE \E p \in Pod : PodDies(p)
  BY <1>7 DEF PodDies, workerVars, opVars
<1>8. CASE UNCHANGED vars
  BY <1>8 DEF vars, workerVars, opVars
<1> QED BY <1>1, <1>2, <1>3, <1>4, <1>5, <1>6, <1>7, <1>8 DEF Next

(* It is enough that a step of w leaves the rows that others hold alone,   *)
(* and that w, if it still holds its finding, held it before.              *)
LEMMA ExclusiveFrame ==
    ASSUME ExclusiveInv, NEW w \in Worker,
           \A v \in Worker \ {w} : pc'[v] = pc[v] /\ job'[v] = job[v],
           \A v \in Worker \ {w} : Keeps(v) => Held(row'[job[v]]),
           Keeps(w)' => Keeps(w) /\ job'[w] = job[w] /\ Held(row'[job[w]])
    PROVE  Exclusive'
<1>1. \A v \in Worker \ {w} : Keeps(v)' <=> Keeps(v)
  BY DEF Keeps, Holds
<1> QED BY <1>1 DEF ExclusiveInv, Exclusive, KeepersApart

(* A step of w that writes no row but its own. *)
LEMMA ExclusiveOwnRow ==
    ASSUME ExclusiveInv, NEW w \in Worker,
           \A v \in Worker \ {w} : pc'[v] = pc[v] /\ job'[v] = job[v],
           Keeps(w), NEW r, Update(job[w], r),
           Keeps(w)' => job'[w] = job[w] /\ Held(row'[job[w]])
    PROVE  Exclusive'
<1>1. \A v \in Worker \ {w} : Keeps(v) => Held(row'[job[v]])
  <2> TAKE v \in Worker \ {w}
  <2> HAVE Keeps(v)
  <2>1. job[v] # job[w] /\ job[v] \in Finding /\ Held(row[job[v]])
    BY DEF ExclusiveInv, Exclusive, KeepersApart, TypeInv, WorkersTyped, Keeps, Holds
  <2> QED BY <2>1 DEF Update, ExclusiveInv, TypeInv, RowsTyped
<1> QED BY <1>1, ExclusiveFrame

(* Waiting, claiming and starting. *)
LEMMA ExclusiveQueue ==
    ASSUME ExclusiveInv, NEW w \in Worker,
           \/ StartRun(w) \/ ClaimSelect(w) \/ QueueEmpty(w) \/ ClaimUpdate(w)
           \/ ClaimLost(w) \/ Fetch(w)
    PROVE  Exclusive'
<1> USE DEF ExclusiveInv, Exclusive, TypeInv, WorkersTyped, RowsTyped
<1>1. CASE StartRun(w)
  BY <1>1, ExclusiveFrame DEF StartRun, Goto, Keeps, Holds, dbVars
<1>2. CASE ClaimSelect(w)
  BY <1>2, ExclusiveFrame DEF ClaimSelect, Goto, Keeps, Holds, dbVars
<1>3. CASE QueueEmpty(w) \/ ClaimLost(w)
  BY <1>3, ExclusiveFrame DEF QueueEmpty, ClaimLost, Release, Goto, Keeps, Holds,
     dbVars
<1>4. CASE ClaimUpdate(w)
  <2>1. job[w] \in Finding /\ row[job[w]].state = "pending"
    BY <1>4 DEF ClaimUpdate, ClaimGuard
  <2>2. \A v \in Worker \ {w} : Keeps(v) => job[v] # job[w]
    BY <2>1 DEF Held
  <2>3. \A v \in Worker \ {w} : Keeps(v) =>
           job[v] \in Finding /\ row'[job[v]] = row[job[v]]
    BY <1>4, <2>1, <2>2 DEF ClaimUpdate, Update, Keeps, Holds
  <2>4. row'[job[w]].state = "running"
    BY <1>4, <2>1 DEF ClaimUpdate, Update, Row
  <2>5. /\ job' = job
        /\ \A v \in Worker \ {w} : Keeps(v)' <=> Keeps(v)
    BY <1>4 DEF ClaimUpdate, Goto, Keeps, Holds
  <2> QED BY <2>2, <2>3, <2>4, <2>5 DEF Held, KeepersApart
<1>5. CASE Fetch(w)
  BY <1>5, ExclusiveFrame DEF Fetch, Goto, Keeps, Holds, dbVars
<1> QED BY <1>1, <1>2, <1>3, <1>4, <1>5

(* Inside a handler only the row of a child is written besides the own:    *)
(* inserted when nobody can hold it, and never made pending.               *)
LEMMA ExclusiveHandler ==
    ASSUME ExclusiveInv, NEW w \in Worker, Handler(w)
    PROVE  Exclusive'
<1> USE DEF ExclusiveInv, Exclusive, TypeInv, WorkersTyped, RowsTyped
<1>1. CASE \/ \E s \in Status : EarlyReturn(w, s)
           \/ AttachPod(w) \/ PodLost(w)
           \/ \E p \in Pod : CreatePod(w, p)
           \/ \E s \in Status : StageReturn(w, s)
           \/ ChildProved(w)
  <2>1. UNCHANGED <<row, job>>
    BY <1>1 DEF EarlyReturn, AttachPod, PodLost, CreatePod, StageReturn,
       ChildProved, dbVars
  <2>2. Keeps(w) /\ \A v \in Worker \ {w} : pc'[v] = pc[v]
    BY <1>1 DEF EarlyReturn, AttachPod, PodLost, CreatePod, StageReturn,
       ChildProved, Goto, Keeps, Holds
  <2> QED BY <2>1, <2>2, ExclusiveFrame
<1>2. CASE PinPod(w)
  <2>1. \A v \in Worker : Keeps(v) => Held(row'[job[v]])
    BY <1>2, ColumnWrites DEF Held, Keeps, Holds
  <2>2. Keeps(w) /\ job' = job /\ \A v \in Worker \ {w} : pc'[v] = pc[v]
    BY <1>2 DEF PinPod, Goto, Keeps, Holds
  <2> QED BY <2>1, <2>2, ExclusiveFrame
<1>3. CASE \E c \in Finding : SpawnChild(w, c)
  <2> PICK c \in Finding : SpawnChild(w, c)
    BY <1>3
  <2>1. \A v \in Worker : Keeps(v) => job[v] # c /\ job[v] \in Finding
    BY DEF SpawnChild, Insert, Present, Held, Keeps, Holds
  <2>2. \A v \in Worker : Keeps(v) => row'[job[v]] = row[job[v]]
    BY <2>1 DEF SpawnChild, Insert, Update
  <2>3. Keeps(w) /\ job' = job /\ \A v \in Worker \ {w} : pc'[v] = pc[v]
    BY DEF SpawnChild, Goto, Keeps, Holds
  <2> QED BY <2>2, <2>3, ExclusiveFrame
<1>4. CASE LinkChild(w)
  <2>1. kid[w] \in Finding /\ row[kid[w]] \in Row
    BY <1>4 DEF LinkChild
  <2>2. \A f \in Finding : row'[f].state = row[f].state
    BY <1>4, <2>1 DEF LinkChild, Update, Row
  <2>3. Keeps(w) /\ job' = job /\ \A v \in Worker \ {w} : pc'[v] = pc[v]
    BY <1>4 DEF LinkChild, Goto, Keeps, Holds
  <2>4. \A v \in Worker : Keeps(v) => Held(row'[job[v]])
    BY <2>2 DEF Held, Keeps, Holds
  <2> QED BY <2>3, <2>4, ExclusiveFrame
<1>5. CASE ChildFails(w)
  <2>1. kid[w] \in Finding /\ row[kid[w]] \in Row
    BY <1>5 DEF ChildFails
  <2>2. \A f \in Finding : row'[f].state \in {row[f].state, "failed"}
    BY <1>5, <2>1 DEF ChildFails, Update, Row
  <2>3. Keeps(w) /\ job' = job /\ \A v \in Worker \ {w} : pc'[v] = pc[v]
    BY <1>5 DEF ChildFails, Goto, Keeps, Holds
  <2>4. \A v \in Worker : Keeps(v) => Held(row'[job[v]])
    BY <2>2 DEF Held, Keeps, Holds
  <2> QED BY <2>3, <2>4, ExclusiveFrame
<1>6. CASE \E sig \in Signature, transient \in BOOLEAN : Raise(w, sig, transient)
  <2> PICK sig \in Signature, transient \in BOOLEAN : Raise(w, sig, transient)
    BY <1>6
  <2>1. /\ Keeps(w) /\ ~Keeps(w)'
        /\ \A v \in Worker \ {w} : pc'[v] = pc[v] /\ job'[v] = job[v]
    BY DEF Raise, NoContainerId, Release, Goto, Keeps, Holds
  <2> QED BY <2>1, ExclusiveOwnRow DEF Raise, NoContainerId
<1> QED BY <1>1, <1>2, <1>3, <1>4, <1>5, <1>6 DEF Handler

(* What the result of a stage writes: the row queued at its next stage, or *)
(* once more at the same one; the row set aside; or the row closed, and    *)
(* its pod, if the worker knows of one, to be torn down.                   *)
LEMMA AdvanceWrites ==
    ASSUME TypeInv, NEW w \in Worker,
           \/ AdvanceOk(w) \/ AdvanceRetry(w) \/ AdvanceBlocked(w)
           \/ AdvanceReject(w) \/ AdvanceFail(w)
    PROVE  \E r \in Row :
        /\ pc[w] = "advance" /\ job[w] \in Finding /\ Update(job[w], r)
        /\ r.container_id = row[job[w]].container_id
        /\ r.error \in {"", "message"}
        /\ \/ /\ r.state = "pending" /\ r.attempts = 0
              /\ StageOf(w) # "review" /\ r.stage = NextStage[StageOf(w)]
              /\ res[w] = "ok" /\ Release(w, "poll")
           \/ /\ r.state = "pending" /\ r.stage = row[job[w]].stage
              /\ r.attempts = NextAttempt(w) /\ TriesLeft(NextAttempt(w))
              /\ Release(w, "poll")
           \/ /\ r.state = "blocked" /\ r.stage = row[job[w]].stage
              /\ r.attempts = row[job[w]].attempts /\ Release(w, "poll")
           \/ /\ r.state \in Closed /\ r.stage = row[job[w]].stage
              /\ r.attempts \in {row[job[w]].attempts, NextAttempt(w)}
              /\ TearDown(w)
<1> USE DEF TypeInv, RowsTyped, WorkersTyped
<1>1. /\ pc[w] = "advance" /\ job[w] \in Finding /\ row[job[w]] \in Row
      /\ StageOf(w) \in Stage
  <2>1. snap[w] \in Row
    OBVIOUS
  <2>2. pc[w] = "advance"
    BY DEF AdvanceOk, AdvanceRetry, AdvanceBlocked, AdvanceReject,
       AdvanceFail, Returned
  <2> QED BY <2>1, <2>2 DEF StageOf, Row
<1>2. ASSUME NEW s \in State, NEW e \in {"", "message"}
      PROVE  LET r == [row[job[w]] EXCEPT !.state = s, !.error = e]
             IN  /\ r \in Row /\ r.state = s /\ r.error = e
                 /\ r.stage = row[job[w]].stage
                 /\ r.attempts = row[job[w]].attempts
                 /\ r.container_id = row[job[w]].container_id
  BY <1>1 DEF Row
<1>3. ASSUME NEW s \in {"done", "rejected", "failed"},
             NEW e \in {"", "message"}, Close(w, s, e)
      PROVE  \E r \in Row :
        /\ Update(job[w], r)
        /\ r.container_id = row[job[w]].container_id
        /\ r.error \in {"", "message"}
        /\ r.state \in Closed /\ r.stage = row[job[w]].stage
        /\ r.attempts = row[job[w]].attempts
        /\ TearDown(w)
  <2> DEFINE r == [row[job[w]] EXCEPT !.state = s, !.error = e]
  <2>1. Update(job[w], r) /\ TearDown(w)
    BY <1>3 DEF Close
  <2>2. s \in State /\ s \in Closed
    BY DEF State, Closed
  <2>3. /\ r \in Row /\ r.state = s /\ r.error = e
        /\ r.stage = row[job[w]].stage /\ r.attempts = row[job[w]].attempts
        /\ r.container_id = row[job[w]].container_id
    BY ONLY <1>2, <2>2, e \in {"", "message"}
  <2> HIDE DEF r
  <2>4. QED
    BY ONLY <2>1, <2>2, <2>3, e \in {"", "message"}
<1>4. CASE AdvanceOk(w)
  <2>1. CASE AtLastStage(w)
    BY <1>1, <1>3, <1>4, <2>1 DEF AdvanceOk
  <2>2. CASE ~AtLastStage(w)
    <3> DEFINE r == [row[job[w]] EXCEPT !.stage = NextStage[StageOf(w)],
                         !.state = "pending", !.attempts = 0, !.error = ""]
    <3>1. NextStage[StageOf(w)] \in Stage
      BY <1>1, <2>2 DEF AtLastStage, NextStage, Stage
    <3>2. /\ r \in Row /\ r.state = "pending" /\ r.attempts = 0
          /\ r.error = "" /\ r.stage = NextStage[StageOf(w)]
          /\ r.container_id = row[job[w]].container_id
      BY <1>1, <3>1, RowAdvanced DEF Row
    <3>3. Update(job[w], r) /\ Release(w, "poll") /\ res[w] = "ok"
      BY <1>4, <2>2 DEF AdvanceOk, Returned
    <3> HIDE DEF r
    <3> QED BY <1>1, <2>2, <3>2, <3>3 DEF AtLastStage
  <2> QED BY <2>1, <2>2
<1>5. CASE AdvanceRetry(w)
  <2> DEFINE n == NextAttempt(w)
             s == IF TriesLeft(n) THEN "pending" ELSE "failed"
             r == [row[job[w]] EXCEPT !.state = s, !.attempts = n,
                                      !.error = "message"]
  <2>1. n \in Nat /\ s \in State
    BY NextAttemptTyped DEF State
  <2>2. r \in Row
    BY <1>1, <2>1, RowAttempt
  <2>3. /\ r.state = s /\ r.attempts = n /\ r.error = "message"
        /\ r.stage = row[job[w]].stage
        /\ r.container_id = row[job[w]].container_id
    BY <1>1 DEF Row
  <2>4. /\ Update(job[w], r)
        /\ IF TriesLeft(n) THEN Release(w, "poll") ELSE TearDown(w)
    BY <1>5 DEF AdvanceRetry
  <2> HIDE DEF r
  <2> QED BY <1>1, <2>2, <2>3, <2>4 DEF Closed
<1>6. CASE AdvanceBlocked(w)
  BY <1>1, <1>2, <1>6 DEF AdvanceBlocked, State
<1>7. CASE AdvanceReject(w) \/ AdvanceFail(w)
  BY <1>1, <1>3, <1>7 DEF AdvanceReject, AdvanceFail
<1> QED BY <1>4, <1>5, <1>6, <1>7

(* The write of a result is the last thing a holder does. *)
LEMMA ExclusiveDispatch ==
    ASSUME ExclusiveInv, NEW w \in Worker, Dispatch(w)
    PROVE  Exclusive'
<1> USE DEF ExclusiveInv, Exclusive, TypeInv, WorkersTyped, RowsTyped
<1>1. CASE \/ AdvanceOk(w) \/ AdvanceRetry(w) \/ AdvanceBlocked(w)
           \/ AdvanceReject(w) \/ AdvanceFail(w)
  <2>1. Keeps(w)
    BY <1>1 DEF AdvanceOk, AdvanceRetry, AdvanceBlocked, AdvanceReject,
       AdvanceFail, Returned, Keeps, Holds
  <2>2. PICK r \in Row :
           /\ job[w] \in Finding /\ Update(job[w], r)
           /\ \/ Release(w, "poll")
              \/ r.state \in Closed /\ TearDown(w)
    BY <1>1, AdvanceWrites
  <2>3. CASE Release(w, "poll")
    BY <2>1, <2>2, <2>3, ExclusiveOwnRow DEF Release, Goto, Keeps, Holds
  <2>4. CASE r.state \in Closed /\ Goto(w, "teardown") /\ UNCHANGED job
    <3>1. Held(row'[job[w]])
      BY <2>2, <2>4 DEF Update, Held, Closed
    <3> QED BY <2>1, <2>2, <2>4, <3>1, ExclusiveOwnRow DEF Goto
  <2> QED BY <2>2, <2>3, <2>4 DEF TearDown
<1>2. CASE RemovePod(w)
  BY <1>2, ExclusiveFrame DEF RemovePod, Goto, Keeps, Holds, dbVars
<1>3. CASE ClearPod(w)
  <2>1. \A v \in Worker : Keeps(v) => Held(row'[job[v]])
    BY <1>3, ColumnWrites DEF Held, Keeps, Holds
  <2>2. ~Keeps(w)' /\ \A v \in Worker \ {w} : pc'[v] = pc[v] /\ job'[v] = job[v]
    BY <1>3 DEF ClearPod, Release, Goto, Keeps, Holds
  <2> QED BY <2>1, <2>2, ExclusiveFrame
<1> QED BY <1>1, <1>2, <1>3 DEF Dispatch

(* Every step keeps the holders apart. *)
LEMMA ExclusiveStep == ASSUME Unrewritten, ExclusiveInv, [Next]_vars
                       PROVE  ExclusiveInv'
<1> USE DEF ExclusiveInv
<1>1. TypeInv' /\ NoRewriter'
  BY TypeStep, NoRewriterStep
<1>2. Exclusive'
  <2>1. CASE \E f \in Finding : AddFinding(f)
    <3> PICK f \in Finding : AddFinding(f)
      BY <2>1
    <3>1. \A w \in Worker : Keeps(w) => job[w] # f /\ job[w] \in Finding
      BY DEF AddFinding, Insert, Present, Exclusive, Held, Keeps, Holds, TypeInv,
         WorkersTyped
    <3>2. \A w \in Worker : Keeps(w) => row'[job[w]] = row[job[w]]
      BY <3>1 DEF AddFinding, Insert, Update, TypeInv, RowsTyped
    <3>3. UNCHANGED <<pc, job>>
      BY DEF AddFinding, workerVars
    <3> QED BY <3>2, <3>3 DEF Exclusive, KeepersApart, Keeps, Holds
  <2>2. CASE \E w \in Worker : StartRun(w)
    BY <2>2, ExclusiveQueue
  <2>3. CASE \E w \in Worker, f \in Finding : RequeueRead(w, f)
    BY <2>3 DEF RequeueRead, Happens, Unrewritten
  <2>4. CASE \E w \in Worker : WorkerStep(w)
    BY <2>4, ExclusiveQueue, ExclusiveHandler, ExclusiveDispatch
       DEF WorkerStep, RequeueWrite, NoRewriter
  <2>5. CASE \E o \in Operator : OperatorStep(o)
    <3> PICK o \in Operator : OperatorStep(o)
      BY <2>5
    <3>1. UNCHANGED <<pc, job>>
      BY DEF OperatorStep, UnblockRead, UnblockWrite, SignoffRead,
         SignoffWrite, IterateRead, IterateWrite, Call, Answer, workerVars
    <3>2. UNCHANGED row \/ SignoffWrite(o)
      BY DEF OperatorStep, UnblockRead, UnblockWrite, SignoffRead,
         IterateRead, IterateWrite, Call, Answer, dbVars, NoRewriter
    <3>3. \A f \in Finding : row'[f].state \in {row[f].state, "done"}
      <4>1. CASE UNCHANGED row
        BY <4>1
      <4>2. CASE SignoffWrite(o)
        <5>1. opJob[o] \in Finding /\ row[opJob[o]] \in Row
          BY <4>2 DEF SignoffWrite, Answer, TypeInv, OperatorsTyped, RowsTyped
        <5> QED BY <4>2, <5>1 DEF SignoffWrite, Update, Row, TypeInv, RowsTyped
      <4> QED BY <3>2, <4>1, <4>2
    <3>4. \A w \in Worker : Keeps(w) => job[w] \in Finding
      BY DEF Keeps, Holds, TypeInv, WorkersTyped
    <3> QED BY <3>1, <3>3, <3>4 DEF Exclusive, KeepersApart, Keeps, Holds, Held
  <2>6. CASE \E w \in Worker : Crash(w)
    BY <2>6, ExclusiveFrame DEF Crash, Release, Goto, Keeps, Holds, dbVars, Exclusive,
       TypeInv, WorkersTyped
  <2>7. CASE (\E p \in Pod : PodDies(p)) \/ UNCHANGED vars
    BY <2>7 DEF PodDies, dbVars, workerVars, vars, Exclusive, KeepersApart, Keeps, Holds
  <2> QED BY <2>1, <2>2, <2>3, <2>4, <2>5, <2>6, <2>7 DEF Next
<1> QED BY <1>1, <1>2

(* Whoever tears down is apart from every holder as well. *)
LEMMA ExclusiveAlways == ASSUME Unrewritten PROVE Spec => []ExclusiveInv
<1>1. Init => ExclusiveInv
  <2> SUFFICES ASSUME Init PROVE NoRewriter /\ Exclusive
    BY TypeInit DEF ExclusiveInv
  <2> QED BY DEF Init, NoRewriter, Exclusive, KeepersApart, Keeps, Holds
<1>2. ExclusiveInv /\ [Next]_vars => ExclusiveInv'
  BY ExclusiveStep
<1> QED BY <1>1, <1>2, PTL DEF Spec

(* Without children of their own, workers have no kid. *)
NoKid == \A w \in Worker : kid[w] = NoFinding

(* Only an investigation that inserts a child takes one up. *)
LEMMA NoKidStep ==
    ASSUME "spawn" \notin Environment, TypeInv, NoKid, [Next]_vars
    PROVE  NoKid'
<1> USE DEF NoKid
<1>1. CASE \E w \in Worker : WorkerStep(w) \/ Crash(w)
  <2> PICK w \in Worker : WorkerStep(w) \/ Crash(w)
    BY <1>1
  <2>1. UNCHANGED kid \/ kid' = [kid EXCEPT ![w] = NoFinding]
    BY DEF WorkerStep, RequeueWrite, ClaimSelect, QueueEmpty, ClaimUpdate,
       ClaimLost, Fetch, Handler, EarlyReturn, AttachPod, PodLost, CreatePod,
       PinPod, StageReturn, SpawnChild, LinkChild, ChildProved, ChildFails,
       Raise, NoContainerId, Dispatch, AdvanceOk, AdvanceRetry, AdvanceBlocked,
       AdvanceReject, AdvanceFail, RemovePod, ClearPod, Close, TearDown,
       Release, Crash
  <2> QED BY <2>1 DEF TypeInv, WorkersTyped
<1>2. CASE UNCHANGED kid
  BY <1>2
<1> QED BY <1>1, <1>2 DEF Next, AddFinding, StartRun, RequeueRead,
        OperatorStep, UnblockRead, UnblockWrite, SignoffRead, SignoffWrite,
        IterateRead, IterateWrite, Call, Answer, PodDies, workerVars, vars

(* No two workers ever work on the same finding, however many processes    *)
(* share the database and whatever they crash on or raise -- provided that *)
(* no human call that rewrites a row to pending happens, and that no       *)
(* investigation inserts a child: that one is pending, for anybody to      *)
(* claim, while its parent's worker is busy with it.                       *)
THEOREM MutualExclusion ==
    ASSUME Unrewritten, "spawn" \notin Environment
    PROVE  Spec => []OneHolder
<1>1. Init => NoKid
  BY DEF Init, NoKid
<1>2. ExclusiveInv /\ NoKid /\ [Next]_vars => NoKid'
  BY NoKidStep DEF ExclusiveInv
<1>3. ExclusiveInv /\ NoKid => OneHolder
  BY DEF ExclusiveInv, Exclusive, KeepersApart, Keeps, NoKid, OneHolder,
     WorkedOn
<1> QED BY <1>1, <1>2, <1>3, ExclusiveAlways, PTL DEF Spec

-----------------------------------------------------------------------------
(* What is queued can be claimed.  Every write either keeps the columns of *)
(* this predicate or writes a row that satisfies it, so no step of anybody *)
(* else can break it between two of the writer's own.                      *)

QueuedOk(r) == r.state = "pending" =>
    /\ r.attempts < MaxAttempts
    /\ r.error \in Signature => r.attempts = 1

(* What a comparison of errors and attempts needs to know of the constants. *)
LEMMA Limits ==
    /\ 1 < MaxAttempts /\ 0 < MaxAttempts
    /\ "" \notin Signature
    /\ "message" \notin Signature
<1>1. MaxAttempts \in Nat /\ MaxAttempts >= 2
  BY PipelineAssumption, Zenon
<1>2. {"", "message"} \cap Signature = {}
  BY PipelineAssumption, Zenon
<1>3. 1 < MaxAttempts /\ 0 < MaxAttempts
  BY <1>1
<1>4. "" \notin Signature
  BY <1>2
<1>5. "message" \notin Signature
  BY <1>2
<1> QED BY <1>3, <1>4, <1>5

QueuedInv == TypeInv /\ \A f \in Finding : QueuedOk(row[f])

(* One row written, and well. *)
LEMMA QueuedWrite ==
    ASSUME QueuedInv, NEW f \in Finding, NEW r, Update(f, r), QueuedOk(r)
    PROVE  \A g \in Finding : QueuedOk(row'[g])
BY DEF QueuedInv, Update, TypeInv, RowsTyped

(* An UPDATE of the container_id column. *)
LEMMA QueuedPin ==
    ASSUME QueuedInv, NEW f \in Finding, NEW c,
           Update(f, [row[f] EXCEPT !.container_id = c])
    PROVE  \A g \in Finding : QueuedOk(row'[g])
<1>1. row[f] \in Row /\ QueuedOk(row[f])
  BY DEF QueuedInv, TypeInv, RowsTyped
<1>2. QueuedOk([row[f] EXCEPT !.container_id = c])
  BY <1>1 DEF QueuedOk, Row
<1> QED BY <1>2, QueuedWrite

(* Rows that a call queues afresh, and rows written in another state.      *)
LEMMA QueuedRow ==
    ASSUME NEW r \in Row
    PROVE  /\ r.attempts = 0 /\ r.error = "" => QueuedOk(r)
           /\ r.state # "pending" => QueuedOk(r)
BY Limits DEF QueuedOk

(* Inserting a finding. *)
LEMMA QueuedInsert ==
    ASSUME QueuedInv, NEW f \in Finding, NEW g \in Stage, Insert(f, g)
    PROVE  \A h \in Finding : QueuedOk(row'[h])
<1> DEFINE r == [NoRow EXCEPT !.state = "pending", !.stage = g,
                              !.created_at = now + 1]
<1>1. now + 1 \in Nat
  BY DEF QueuedInv, TypeInv, RowsTyped
<1>2. r \in Row
  BY <1>1, RowInserted
<1>3. r.attempts = 0 /\ r.error = ""
  BY DEF NoRow
<1>4. QueuedOk(r)
  BY <1>2, <1>3, QueuedRow
<1> QED BY <1>4, QueuedWrite DEF Insert

(* A retry is queued while tries are left, a granted failure once. *)
LEMMA QueuedAttempt ==
    ASSUME QueuedInv, NEW w \in Worker,
           \/ AdvanceRetry(w)
           \/ \E sig \in Signature, transient \in BOOLEAN :
                 Raise(w, sig, transient)
    PROVE  \A g \in Finding : QueuedOk(row'[g])
<1> USE DEF QueuedInv, TypeInv, WorkersTyped, RowsTyped
<1>1. NextAttempt(w) \in Nat
  BY NextAttemptTyped
<1>2. job[w] \in Finding /\ row[job[w]] \in Row
  BY DEF AdvanceRetry, Raise, NoContainerId, Returned
<1>3. CASE AdvanceRetry(w)
  <2> DEFINE s == IF TriesLeft(NextAttempt(w)) THEN "pending" ELSE "failed"
             r == [row[job[w]] EXCEPT !.state = s, !.attempts = NextAttempt(w),
                                      !.error = "message"]
  <2>1. r.state = s /\ r.attempts = NextAttempt(w) /\ r.error = "message"
    BY <1>2 DEF Row
  <2>2. QueuedOk(r)
    <3>1. CASE TriesLeft(NextAttempt(w))
      BY <2>1, Limits, <3>1 DEF QueuedOk, TriesLeft
    <3>2. CASE ~TriesLeft(NextAttempt(w))
      BY <2>1, <3>2 DEF QueuedOk
    <3> QED BY <3>1, <3>2
  <2> QED BY <1>2, <1>3, <2>2, QueuedWrite DEF AdvanceRetry
<1>4. CASE \E sig \in Signature, transient \in BOOLEAN :
             Raise(w, sig, transient)
  <2> PICK sig \in Signature, transient \in BOOLEAN : Raise(w, sig, transient)
    BY <1>4
  <2> DEFINE s == IF Grant(w, sig, transient) THEN "pending" ELSE "failed"
             r == [row[job[w]] EXCEPT !.state = s, !.attempts = NextAttempt(w),
                                      !.error = sig]
  <2>1. r.state = s /\ r.attempts = NextAttempt(w)
    BY <1>2 DEF Row
  <2>2. Grant(w, sig, transient) => snap[w].attempts = 0
    BY DEF Grant
  <2>3. snap[w].attempts = 0 => NextAttempt(w) = 1
    BY DEF NextAttempt
  <2>4. QueuedOk(r)
    <3>1. CASE Grant(w, sig, transient)
      BY <2>1, <2>2, <2>3, Limits, <3>1 DEF QueuedOk
    <3>2. CASE ~Grant(w, sig, transient)
      BY <2>1, <3>2 DEF QueuedOk
    <3> QED BY <3>1, <3>2
  <2> QED BY <1>2, <2>4, QueuedWrite DEF Raise, NoContainerId
<1> QED BY <1>3, <1>4

(* The other writes of a worker. *)
LEMMA QueuedWorker ==
    ASSUME QueuedInv, NEW w \in Worker, WorkerStep(w)
    PROVE  \A g \in Finding : QueuedOk(row'[g])
<1> USE DEF QueuedInv, TypeInv, WorkersTyped, RowsTyped
<1>1. CASE RequeueWrite(w)
  <2> DEFINE r == [row[job[w]] EXCEPT !.state = "pending", !.attempts = 0,
                                      !.error = ""]
  <2>1. job[w] \in Finding /\ r \in Row
    BY <1>1, RowQueued DEF RequeueWrite
  <2>2. r.attempts = 0 /\ r.error = ""
    BY <2>1 DEF Row
  <2> QED BY <1>1, <2>1, <2>2, QueuedRow, QueuedWrite DEF RequeueWrite
<1>2. CASE ClaimUpdate(w)
  <2>1. job[w] \in Finding /\ row[job[w]] \in Row
    BY <1>2 DEF ClaimUpdate
  <2>2. [row[job[w]] EXCEPT !.state = "running"].state = "running"
    BY <2>1 DEF Row
  <2>3. QueuedOk([row[job[w]] EXCEPT !.state = "running"])
    BY <2>2 DEF QueuedOk
  <2> QED BY <1>2, <2>1, <2>3, QueuedWrite DEF ClaimUpdate
<1>3. CASE PinPod(w)
  BY <1>3, ColumnWrites, QueuedPin
<1>4. CASE \E c \in Finding : SpawnChild(w, c)
  BY <1>4, QueuedInsert DEF SpawnChild, Stage
<1>5. CASE LinkChild(w)
  BY <1>5, QueuedPin DEF LinkChild
<1>6. CASE ChildFails(w)
  <2>1. kid[w] \in Finding /\ row[kid[w]] \in Row
    BY <1>6 DEF ChildFails
  <2>2. [row[kid[w]] EXCEPT !.state = "failed", !.error = "message"].state
            = "failed"
    BY <2>1 DEF Row
  <2>3. QueuedOk([row[kid[w]] EXCEPT !.state = "failed", !.error = "message"])
    BY <2>2 DEF QueuedOk
  <2> QED BY <1>6, <2>1, <2>3, QueuedWrite DEF ChildFails
<1>7. CASE AdvanceOk(w)
  <2> DEFINE d == [row[job[w]] EXCEPT !.state = "done", !.error = ""]
             r == [row[job[w]] EXCEPT !.stage = NextStage[StageOf(w)],
                      !.state = "pending", !.attempts = 0, !.error = ""]
  <2>1. job[w] \in Finding /\ row[job[w]] \in Row
    BY <1>7 DEF AdvanceOk, Returned
  <2>2. d.state = "done"
    BY <2>1 DEF Row
  <2>3. r.attempts = 0 /\ r.error = ""
    BY <2>1 DEF Row
  <2>4. QueuedOk(d) /\ QueuedOk(r)
    BY <2>2, <2>3, Limits DEF QueuedOk
  <2>5. Update(job[w], d) \/ Update(job[w], r)
    BY <1>7 DEF AdvanceOk, Close
  <2> QED BY <2>1, <2>4, <2>5, QueuedWrite
<1>8. CASE AdvanceBlocked(w) \/ AdvanceReject(w) \/ AdvanceFail(w)
  <2>1. job[w] \in Finding /\ row[job[w]] \in Row
    BY <1>8 DEF AdvanceBlocked, AdvanceReject, AdvanceFail, Returned
  <2>2. PICK s \in {"blocked", "rejected", "failed"} :
           Update(job[w], [row[job[w]] EXCEPT !.state = s, !.error = "message"])
    BY <1>8 DEF AdvanceBlocked, AdvanceReject, AdvanceFail, Close
  <2>3. [row[job[w]] EXCEPT !.state = s, !.error = "message"].state = s
    BY <2>1 DEF Row
  <2>4. QueuedOk([row[job[w]] EXCEPT !.state = s, !.error = "message"])
    BY <2>3 DEF QueuedOk
  <2> QED BY <2>1, <2>2, <2>4, QueuedWrite
<1>9. CASE AdvanceRetry(w) \/ \E sig \in Signature, transient \in BOOLEAN :
             Raise(w, sig, transient)
  BY <1>9, QueuedAttempt
<1>10. CASE ClearPod(w)
  BY <1>10, ColumnWrites, QueuedPin
<1>11. CASE \/ ClaimSelect(w) \/ QueueEmpty(w) \/ ClaimLost(w) \/ Fetch(w)
            \/ (\E s \in Status : EarlyReturn(w, s))
            \/ AttachPod(w) \/ PodLost(w)
            \/ (\E p \in Pod : CreatePod(w, p))
            \/ (\E s \in Status : StageReturn(w, s))
            \/ ChildProved(w) \/ RemovePod(w)
  BY <1>11 DEF ClaimSelect, QueueEmpty, ClaimLost, Fetch, EarlyReturn, AttachPod,
     PodLost, CreatePod, StageReturn, ChildProved, RemovePod, dbVars
<1> QED BY <1>1, <1>2, <1>3, <1>4, <1>5, <1>6, <1>7, <1>8, <1>9, <1>10, <1>11
        DEF WorkerStep, Handler, Dispatch

(* The writes of an operator. *)
LEMMA QueuedOperator ==
    ASSUME QueuedInv, NEW o \in Operator, OperatorStep(o)
    PROVE  \A g \in Finding : QueuedOk(row'[g])
<1> USE DEF QueuedInv, TypeInv, OperatorsTyped, RowsTyped
<1>1. CASE UNCHANGED row
  BY <1>1
<1>2. CASE UnblockWrite(o) \/ IterateWrite(o)
  <2>1. opJob[o] \in Finding /\ row[opJob[o]] \in Row
    BY <1>2 DEF UnblockWrite, IterateWrite, Answer
  <2> DEFINE u == [row[opJob[o]] EXCEPT !.state = "pending", !.attempts = 0,
                                        !.error = ""]
             i == [row[opJob[o]] EXCEPT !.state = "pending", !.stage = "patch",
                                        !.attempts = 0, !.error = ""]
  <2>2. /\ u.attempts = 0 /\ u.error = ""
        /\ i.attempts = 0 /\ i.error = ""
    BY <2>1 DEF Row
  <2>3. QueuedOk(u) /\ QueuedOk(i)
    BY <2>2, Limits DEF QueuedOk
  <2>4. Update(opJob[o], u) \/ Update(opJob[o], i)
    BY <1>2 DEF UnblockWrite, IterateWrite
  <2> QED BY <2>1, <2>3, <2>4, QueuedWrite
<1>3. CASE SignoffWrite(o)
  <2>1. opJob[o] \in Finding /\ row[opJob[o]] \in Row
    BY <1>3 DEF SignoffWrite, Answer
  <2>2. [row[opJob[o]] EXCEPT !.state = "done", !.error = ""].state = "done"
    BY <2>1 DEF Row
  <2>3. QueuedOk([row[opJob[o]] EXCEPT !.state = "done", !.error = ""])
    BY <2>2 DEF QueuedOk
  <2> QED BY <1>3, <2>1, <2>3, QueuedWrite DEF SignoffWrite
<1> QED BY <1>1, <1>2, <1>3 DEF OperatorStep, UnblockRead, SignoffRead,
        IterateRead, Call, dbVars

(* Every step keeps what is queued within reach. *)
LEMMA QueuedStep == QueuedInv /\ [Next]_vars => QueuedInv'
<1> SUFFICES ASSUME QueuedInv, [Next]_vars PROVE QueuedInv'
  OBVIOUS
<1>1. TypeInv'
  BY TypeStep DEF QueuedInv
<1>2. \A g \in Finding : QueuedOk(row'[g])
  <2>1. CASE \E f \in Finding : AddFinding(f)
    BY <2>1, QueuedInsert DEF AddFinding, Stage
  <2>2. CASE \E w \in Worker : WorkerStep(w)
    BY <2>2, QueuedWorker
  <2>3. CASE \E o \in Operator : OperatorStep(o)
    BY <2>3, QueuedOperator
  <2>4. CASE \/ (\E w \in Worker : StartRun(w))
             \/ (\E w \in Worker, f \in Finding : RequeueRead(w, f))
             \/ (\E w \in Worker : Crash(w)) \/ (\E p \in Pod : PodDies(p))
             \/ UNCHANGED vars
    BY <2>4 DEF StartRun, RequeueRead, Crash, PodDies, vars, dbVars, QueuedInv
  <2> QED BY <2>1, <2>2, <2>3, <2>4 DEF Next
<1> QED BY <1>1, <1>2 DEF QueuedInv

(* QueuedInv always holds, whatever humans, faults and children do. *)
LEMMA QueuedAlways == Spec => []QueuedInv
<1>1. Init => QueuedInv
  <2> SUFFICES ASSUME Init PROVE \A f \in Finding : QueuedOk(row[f])
    BY TypeInit DEF QueuedInv
  <2> QED BY DEF Init, NoRow, QueuedOk
<1> QED BY <1>1, QueuedStep, PTL DEF Spec

(* claim_next can reach every row that is queued: neither a retry, nor a   *)
(* granted failure, nor a call that resets a row on what it read before    *)
(* leaves a pending finding without attempts.                              *)
THEOREM PendingClaimable == Spec => []NoStrandedPending
<1>1. QueuedInv => NoStrandedPending
  BY DEF QueuedInv, QueuedOk, NoStrandedPending
<1> QED BY <1>1, QueuedAlways, PTL

(* "AT MOST ONE" retry after exceptions (_record_harness_failure). *)
THEOREM HarnessRetriesOnce == Spec => []OneHarnessRetry
<1>1. QueuedInv => OneHarnessRetry
  BY DEF QueuedInv, QueuedOk, OneHarnessRetry
<1> QED BY <1>1, QueuedAlways, PTL

-----------------------------------------------------------------------------
(* Nothing signs itself off.  AdvanceOk would, for a review that answers   *)
(* ok: the inductive invariant says that a worker inside a pod is in a     *)
(* stage that has one, and that no review is on its way to an ok.          *)

HandlersPlaced == \A w \in Worker :
    /\ pc[w] \in {"pin", "inpod", "spawn", "child"} => StageOf(w) \in PodStage
    /\ pc[w] = "advance" /\ res[w] = "ok" => StageOf(w) # "review"

SignedInv == TypeInv /\ HandlersPlaced /\ NeverSelfSigned

(* The handlers keep to their stages. *)
LEMMA PlacedHandler ==
    ASSUME TypeInv, HandlersPlaced, NEW w \in Worker, Handler(w)
    PROVE  HandlersPlaced'
<1> USE DEF TypeInv, WorkersTyped, HandlersPlaced
<1>1. ASSUME NEW s \in Status, EarlyReturn(w, s)
      PROVE  HandlersPlaced'
  <2>1. s = "ok" => StageOf(w) # "review"
    BY <1>1 DEF EarlyReturn, EarlyStatus, ReviewReturns
  <2> QED BY <1>1, <2>1 DEF EarlyReturn, Goto, StageOf
<1>2. CASE AttachPod(w)
  BY <1>2 DEF AttachPod, Goto, StageOf
<1>3. CASE PodLost(w)
  BY <1>3 DEF PodLost, Goto, StageOf
<1>4. ASSUME NEW p \in Pod, CreatePod(w, p)
      PROVE  HandlersPlaced'
  <2>1. snap' = snap \/ snap' = [snap EXCEPT ![w].container_id = p]
    BY <1>4 DEF CreatePod
  <2>2. \A v \in Worker : StageOf(v)' = StageOf(v)
    <3> TAKE v \in Worker
    <3>1. snap[v] \in Row /\ snap[w] \in Row
      OBVIOUS
    <3>2. [snap[w] EXCEPT !.container_id = p].stage = snap[w].stage
      BY <3>1 DEF Row
    <3>3. CASE snap' = [snap EXCEPT ![w].container_id = p]
      BY <3>2, <3>3 DEF StageOf
    <3> QED BY <2>1, <3>3 DEF StageOf
  <2>3. StageOf(w) \in PodStage /\ UNCHANGED res
    BY <1>4 DEF CreatePod
  <2>4. Goto(w, "pin") \/ Goto(w, "inpod")
    BY <1>4 DEF CreatePod
  <2> QED BY <2>2, <2>3, <2>4 DEF Goto
<1>5. CASE PinPod(w)
  <2>1. snap' = snap \/ snap' = [snap EXCEPT ![w].container_id = NoPod]
    BY <1>5 DEF PinPod
  <2>2. \A v \in Worker : StageOf(v)' = StageOf(v)
    <3> TAKE v \in Worker
    <3>1. [snap[w] EXCEPT !.container_id = NoPod].stage = snap[w].stage
      BY DEF Row
    <3> QED BY <2>1, <3>1 DEF StageOf
  <2> QED BY <1>5, <2>2 DEF PinPod, Goto
<1>6. ASSUME NEW s \in Status, StageReturn(w, s)
      PROVE  HandlersPlaced'
  <2>1. StageOf(w) # "review"
    BY <1>6 DEF StageReturn, PodStage
  <2> QED BY <1>6, <2>1 DEF StageReturn, Goto, StageOf
<1>7. CASE (\E c \in Finding : SpawnChild(w, c)) \/ LinkChild(w) \/ ChildProved(w)
  BY <1>7 DEF SpawnChild, LinkChild, ChildProved, Goto, StageOf
<1>8. CASE ChildFails(w)
  BY <1>8 DEF ChildFails, Goto, StageOf
<1>9. ASSUME NEW sig \in Signature, NEW transient \in BOOLEAN,
             Raise(w, sig, transient)
      PROVE  HandlersPlaced'
  BY <1>9 DEF Raise, NoContainerId, Release, Goto, StageOf
<1> QED BY <1>1, <1>2, <1>3, <1>4, <1>5, <1>6, <1>7, <1>8, <1>9 DEF Handler

(* Every other step of a worker leaves the handler, or enters it afresh.   *)
LEMMA PlacedStep ==
    ASSUME TypeInv, HandlersPlaced, [Next]_vars
    PROVE  HandlersPlaced'
<1> USE DEF TypeInv, WorkersTyped, HandlersPlaced
<1>1. ASSUME NEW w \in Worker,
             \/ StartRun(w) \/ ClaimSelect(w) \/ ClaimUpdate(w)
             \/ (\E f \in Finding : RequeueRead(w, f)) \/ RemovePod(w)
      PROVE  HandlersPlaced'
  BY <1>1 DEF StartRun, ClaimSelect, ClaimUpdate, RequeueRead, RemovePod, Goto,
     StageOf
<1>2. ASSUME NEW w \in Worker, Fetch(w)
      PROVE  HandlersPlaced'
  BY <1>2 DEF Fetch, Goto, StageOf
<1>3. ASSUME NEW w \in Worker,
             \/ RequeueWrite(w) \/ QueueEmpty(w) \/ ClaimLost(w) \/ ClearPod(w)
             \/ Crash(w) \/ AdvanceBlocked(w)
      PROVE  HandlersPlaced'
  BY <1>3 DEF RequeueWrite, QueueEmpty, ClaimLost, ClearPod, Crash,
     AdvanceBlocked, Release, Goto, StageOf
<1>4. ASSUME NEW w \in Worker,
             \/ AdvanceOk(w) \/ AdvanceRetry(w) \/ AdvanceReject(w)
             \/ AdvanceFail(w)
      PROVE  HandlersPlaced'
  <2>1. Release(w, "poll")
        \/ (Goto(w, "teardown") /\ UNCHANGED <<job, snap, res, kid>>)
    BY <1>4 DEF AdvanceOk, AdvanceRetry, AdvanceReject, AdvanceFail, Close,
       TearDown
  <2> QED BY <2>1 DEF Release, Goto, StageOf
<1>5. CASE UNCHANGED <<pc, snap, res>>
  BY <1>5 DEF StageOf
<1>6. CASE \/ (\E f \in Finding : AddFinding(f))
           \/ (\E o \in Operator : OperatorStep(o))
           \/ (\E p \in Pod : PodDies(p)) \/ UNCHANGED vars
  BY <1>5, <1>6 DEF AddFinding, OperatorStep, UnblockRead, UnblockWrite,
     SignoffRead, SignoffWrite, IterateRead, IterateWrite, Call, Answer,
     PodDies, vars, workerVars
<1> QED BY <1>1, <1>2, <1>3, <1>4, <1>6, PlacedHandler
        DEF Next, WorkerStep, Dispatch

(* A write that makes nothing done. *)
LEMMA SignedWrite ==
    ASSUME TypeInv, NeverSelfSigned, NEW f \in Finding, NEW r, Update(f, r),
           r.state # "done" \/ r.state = row[f].state, UNCHANGED signed
    PROVE  NeverSelfSigned'
BY DEF NeverSelfSigned, Update, TypeInv, RowsTyped

(* What the writes of a worker write. *)
LEMMA SignedWorker ==
    ASSUME SignedInv, NEW w \in Worker, WorkerStep(w)
    PROVE  NeverSelfSigned'
<1> USE DEF SignedInv, TypeInv, WorkersTyped, RowsTyped
<1>1. UNCHANGED signed
  BY DEF WorkerStep, RequeueWrite, ClaimSelect, QueueEmpty, ClaimUpdate,
     ClaimLost, Fetch, Handler, EarlyReturn, AttachPod, PodLost, CreatePod,
     PinPod, StageReturn, SpawnChild, LinkChild, ChildProved, ChildFails,
     Raise, NoContainerId, Dispatch, AdvanceOk, AdvanceRetry, AdvanceBlocked,
     AdvanceReject, AdvanceFail, RemovePod, ClearPod, opVars
<1>2. CASE UNCHANGED row
  BY <1>1, <1>2 DEF NeverSelfSigned
<1>3. ASSUME NEW f \in Finding, NEW s \in State \ {"done"}, NEW n, NEW e,
             NEW g,
             \/ Update(f, [row[f] EXCEPT !.state = s])
             \/ Update(f, [row[f] EXCEPT !.state = s, !.error = e])
             \/ Update(f, [row[f] EXCEPT !.state = s, !.attempts = n,
                                          !.error = e])
             \/ Update(f, [row[f] EXCEPT !.stage = g, !.state = s,
                                          !.attempts = n, !.error = e])
      PROVE  NeverSelfSigned'
  <2>1. row[f] \in Row
    OBVIOUS
  <2>2. /\ [row[f] EXCEPT !.state = s].state = s
        /\ [row[f] EXCEPT !.state = s, !.error = e].state = s
        /\ [row[f] EXCEPT !.state = s, !.attempts = n, !.error = e].state = s
        /\ [row[f] EXCEPT !.stage = g, !.state = s, !.attempts = n,
                          !.error = e].state = s
    BY <2>1 DEF Row
  <2>3. s # "done"
    OBVIOUS
  <2> QED BY <1>1, <1>3, <2>2, <2>3, SignedWrite
<1>4. ASSUME NEW f \in Finding, NEW c,
             Update(f, [row[f] EXCEPT !.container_id = c])
      PROVE  NeverSelfSigned'
  <2>1. row[f] \in Row
    OBVIOUS
  <2>2. [row[f] EXCEPT !.container_id = c].state = row[f].state
    BY <2>1 DEF Row
  <2> QED BY <1>1, <1>4, <2>2, SignedWrite
<1>5. ASSUME NEW c \in Finding, SpawnChild(w, c)
      PROVE  NeverSelfSigned'
  <2>1. [NoRow EXCEPT !.state = "pending", !.stage = "patch",
                      !.created_at = now + 1].state = "pending"
    BY DEF NoRow
  <2> QED BY <1>1, <1>5, <2>1, SignedWrite DEF SpawnChild, Insert
<1>6. CASE AdvanceOk(w)
  <2>1. job[w] \in Finding /\ ~AtLastStage(w)
    BY <1>6 DEF AdvanceOk, Returned, AtLastStage, HandlersPlaced
  <2>2. Update(job[w], [row[job[w]] EXCEPT !.stage = NextStage[StageOf(w)],
                          !.state = "pending", !.attempts = 0, !.error = ""])
    BY <1>6, <2>1 DEF AdvanceOk
  <2> QED BY <2>1, <2>2, <1>3 DEF State
<1>7. CASE \/ RequeueWrite(w) \/ ClaimUpdate(w) \/ PinPod(w) \/ LinkChild(w)
           \/ ChildFails(w) \/ ClearPod(w) \/ AdvanceBlocked(w)
           \/ AdvanceReject(w) \/ AdvanceFail(w)
  <2>1. job[w] \in Finding
    BY <1>7 DEF RequeueWrite, ClaimUpdate, PinPod, LinkChild, ChildFails,
       ClearPod, AdvanceBlocked, AdvanceReject, AdvanceFail, Returned
  <2>2. CASE RequeueWrite(w)
    BY <1>3, <2>1, <2>2, Zenon DEF RequeueWrite, State
  <2>3. CASE ClaimUpdate(w)
    BY <1>3, <2>1, <2>3 DEF ClaimUpdate, State
  <2>4. CASE PinPod(w) \/ ClearPod(w)
    BY <1>2, <1>4, <2>1, <2>4, ColumnWrites
  <2>5. CASE LinkChild(w)
    <3>1. kid[w] \in Finding
      BY <2>5 DEF LinkChild
    <3> QED BY <1>4, <2>5, <3>1 DEF LinkChild
  <2>6. CASE ChildFails(w)
    <3>1. kid[w] \in Finding
      BY <2>6 DEF ChildFails
    <3> QED BY <1>3, <2>6, <3>1 DEF ChildFails, State
  <2>7. CASE AdvanceBlocked(w) \/ AdvanceReject(w) \/ AdvanceFail(w)
    <3>1. \E s \in {"blocked", "rejected", "failed"} :
             Update(job[w], [row[job[w]] EXCEPT !.state = s,
                                                !.error = "message"])
      BY <2>7 DEF AdvanceBlocked, AdvanceReject, AdvanceFail, Close
    <3> QED BY <1>3, <2>1, <3>1 DEF State
  <2> QED BY <1>7, <2>2, <2>3, <2>4, <2>5, <2>6, <2>7
<1>8. CASE AdvanceRetry(w) \/ \E sig \in Signature, transient \in BOOLEAN :
             Raise(w, sig, transient)
  <2>1. job[w] \in Finding
    BY <1>8 DEF AdvanceRetry, Raise, NoContainerId, Returned
  <2>2. \E s \in {"pending", "failed"}, e \in {"message"} \cup Signature :
           Update(job[w], [row[job[w]] EXCEPT !.state = s,
                              !.attempts = NextAttempt(w), !.error = e])
    BY <1>8 DEF AdvanceRetry, Raise, NoContainerId
  <2> QED BY <1>3, <2>1, <2>2 DEF State
<1>9. CASE \/ ClaimSelect(w) \/ QueueEmpty(w) \/ ClaimLost(w) \/ Fetch(w)
           \/ (\E s \in Status : EarlyReturn(w, s))
           \/ AttachPod(w) \/ PodLost(w)
           \/ (\E p \in Pod : CreatePod(w, p))
           \/ (\E s \in Status : StageReturn(w, s))
           \/ ChildProved(w) \/ RemovePod(w)
  BY <1>2, <1>9 DEF ClaimSelect, QueueEmpty, ClaimLost, Fetch, EarlyReturn,
     AttachPod, PodLost, CreatePod, StageReturn, ChildProved, RemovePod, dbVars
<1> QED BY <1>5, <1>6, <1>7, <1>8, <1>9 DEF WorkerStep, Handler, Dispatch

(* Every step leaves done what a human signed off, and nothing else. *)
LEMMA SignedStep == SignedInv /\ [Next]_vars => SignedInv'
<1> SUFFICES ASSUME SignedInv, [Next]_vars PROVE SignedInv'
  OBVIOUS
<1> USE DEF SignedInv
<1>1. TypeInv' /\ HandlersPlaced'
  BY TypeStep, PlacedStep
<1>2. CASE \E w \in Worker : WorkerStep(w)
  BY <1>1, <1>2, SignedWorker
<1>3. ASSUME NEW f \in Finding, AddFinding(f)
      PROVE  NeverSelfSigned'
  <2>1. [NoRow EXCEPT !.state = "pending", !.stage = "ingest",
                      !.created_at = now + 1].state = "pending"
    BY DEF NoRow
  <2> QED BY <1>3, <2>1, SignedWrite DEF AddFinding, Insert, opVars
<1>4. ASSUME NEW o \in Operator, OperatorStep(o)
      PROVE  NeverSelfSigned'
  <2> USE DEF TypeInv, OperatorsTyped, RowsTyped
  <2>1. CASE SignoffWrite(o)
    <3>1. opJob[o] \in Finding
      BY <2>1 DEF SignoffWrite, Answer
    <3> QED BY <2>1, <3>1 DEF SignoffWrite, Update, NeverSelfSigned
  <2>2. CASE UnblockWrite(o) \/ IterateWrite(o)
    <3> DEFINE u == [row[opJob[o]] EXCEPT !.state = "pending", !.attempts = 0,
                                          !.error = ""]
               i == [row[opJob[o]] EXCEPT !.state = "pending",
                        !.stage = "patch", !.attempts = 0, !.error = ""]
    <3>1. opJob[o] \in Finding /\ row[opJob[o]] \in Row
      BY <2>2 DEF UnblockWrite, IterateWrite, Answer
    <3>2. u.state = "pending" /\ i.state = "pending"
      BY <3>1 DEF Row
    <3>3. (Update(opJob[o], u) \/ Update(opJob[o], i)) /\ UNCHANGED signed
      BY <2>2 DEF UnblockWrite, IterateWrite
    <3> QED BY <3>1, <3>2, <3>3, SignedWrite
  <2>3. CASE UNCHANGED <<row, signed>>
    BY <2>3 DEF NeverSelfSigned
  <2> QED BY <1>4, <2>1, <2>2, <2>3 DEF OperatorStep, UnblockRead,
          SignoffRead, IterateRead, Call, dbVars
<1>5. CASE \/ (\E w \in Worker : StartRun(w) \/ Crash(w))
           \/ (\E w \in Worker, f \in Finding : RequeueRead(w, f))
           \/ (\E p \in Pod : PodDies(p)) \/ UNCHANGED vars
  <2>1. UNCHANGED <<row, signed>>
    BY <1>5 DEF StartRun, Crash, RequeueRead, PodDies, vars, dbVars, opVars
  <2> QED BY <1>1, <2>1 DEF NeverSelfSigned
<1> QED BY <1>1, <1>2, <1>3, <1>4, <1>5 DEF Next

(* "A machine never signs off its own patch" (README.md): whatever runs,   *)
(* crashes, retries or iterates, a finding is done only once some operator *)
(* has called signoff on it.                                               *)
THEOREM SignoffIsHuman == Spec => []NeverSelfSigned
<1>1. Init => SignedInv
  <2> SUFFICES ASSUME Init PROVE HandlersPlaced /\ NeverSelfSigned
    BY TypeInit DEF SignedInv
  <2> QED BY DEF Init, HandlersPlaced, NeverSelfSigned, NoRow
<1>2. SignedInv => NeverSelfSigned
  BY DEF SignedInv
<1> QED BY <1>1, <1>2, SignedStep, PTL DEF Spec

=============================================================================
