------------------------------- MODULE Pipeline -------------------------------
(***************************************************************************)
(* The pipeline core of PatchWing: the findings table of store.py, the     *)
(* Runner of runner.py that advances findings stage by stage, the pod that *)
(* follows a finding from stage to stage (stages.py, sandbox.py), and the  *)
(* operators who write to the same table through server.py and cli.py.     *)
(*                                                                         *)
(* Several workers (one `patchwing run` process or the server's run thread *)
(* each) may share the database.  Every database call is one step; what a  *)
(* worker read stays in its snapshot until it writes.  What a stage        *)
(* handler computes is abstracted to the statuses it can return.           *)
(***************************************************************************)
EXTENDS Integers

CONSTANTS
    Finding,        \* rows the findings table can hold
    Worker,         \* threads or processes that execute Runner.run
    ServerRun,      \* the workers that are the server's single run thread
    HostTarget,     \* findings whose target is not in-image: no containers
    Operator,       \* HTTP requests and CLI commands a human may issue at once
    Pod,            \* container ids podman can hand out, each one once
    Signature,      \* signatures of exceptions a stage can raise
    NoFinding,
    NoPod,          \* the empty container_id column
    MaxAttempts,    \* Runner.max_attempts
    MaxIterations,  \* pipeline.max_iterations, 0 when unbounded
    Environment,    \* which human calls and faults happen at all
    MaxEvents       \* bound: human calls and faults in one behaviour

Happenings == {"raise", "spawn", "requeue", "unblock", "signoff", "iterate",
               "crash", "podloss", "rmfail", "dbfail"}

ASSUME PipelineAssumption ==
    /\ ServerRun \subseteq Worker
    /\ HostTarget \subseteq Finding
    /\ NoFinding \notin Finding
    /\ NoPod \notin Pod
    /\ MaxAttempts \in Nat /\ MaxAttempts >= 2
    /\ MaxIterations \in Nat
    /\ Environment \subseteq Happenings
    /\ MaxEvents \in Nat
    /\ {"", "message"} \cap Signature = {}

-----------------------------------------------------------------------------
(* The columns of a row. *)

NextStage == [ingest |-> "localize", localize |-> "provision",
              provision |-> "reproduce", reproduce |-> "patch",
              patch |-> "verify", verify |-> "package", package |-> "review"]

Stage == {"ingest", "localize", "provision", "reproduce", "patch", "verify",
          "package", "review"}

(* Where a stage stands in STAGES. *)
Position == [ingest |-> 0, localize |-> 1, provision |-> 2, reproduce |-> 3,
             patch |-> 4, verify |-> 5, package |-> 6, review |-> 7]

State == {"pending", "running", "blocked", "pending_signoff", "done",
          "rejected", "failed"}

Closed == {"done", "rejected", "failed"}

Row == [state : State \cup {"absent"}, stage : Stage, attempts : Nat,
        error : {"", "message"} \cup Signature,
        container_id : Pod \cup {NoPod},
        created_at : Nat]

NoRow == [state |-> "absent", stage |-> "ingest", attempts |-> 0,
          error |-> "", container_id |-> NoPod, created_at |-> 0]

(* What each handler can return before it has a pod, and from inside one.  *)
(* A raised CeilingExceeded is the status "blocked" (stages.stage).        *)
IngestReturns    == {"ok", "fail", "reject"}
LocalizeReturns  == {"ok", "fail", "blocked", "reject"}
ProvisionEarly   == {"ok", "fail", "blocked"}
ProvisionReturns == {"ok", "fail", "blocked"}
ReproduceEarly   == {"blocked"}
ReproduceReturns == {"ok", "fail", "reject", "retry"}
PatchEarly       == {"blocked", "fail", "reject"}
PatchReturns     == {"ok", "fail", "reject", "retry", "blocked"}
VerifyEarly      == {"blocked", "fail", "retry"}
VerifyReturns    == {"ok", "fail", "reject", "retry", "blocked"}
PackageReturns   == {"ok", "fail"}
ReviewReturns    == {"pending_signoff"}

EarlyStatus ==
    [ingest |-> IngestReturns, localize |-> LocalizeReturns,
     provision |-> ProvisionEarly, reproduce |-> ReproduceEarly,
     patch |-> PatchEarly, verify |-> VerifyEarly,
     package |-> PackageReturns, review |-> ReviewReturns]

PodStage == {"provision", "reproduce", "patch", "verify"}

PodStatus ==
    [provision |-> ProvisionReturns, reproduce |-> ReproduceReturns,
     patch |-> PatchReturns, verify |-> VerifyReturns]

(* Mutant: provision forgets to pin. *)
PinningReproduce == {"reproduce"}

(* Only these call _pin_container; patch and verify leave a pod they had   *)
(* to create out of the row.                                               *)
PinningStage == {"provision", "reproduce"}

Status == {"ok", "retry", "blocked", "pending_signoff", "reject", "fail"}

(* The artifacts later decisions read: a reproducer with its reading, how  *)
(* many patches, and whether the last verdict is one that invites another  *)
(* iteration ("open") or not ("closed").                                   *)
Artifacts == [reproducer : BOOLEAN, patches : Nat,
              verdict : {"none", "open", "closed"}]

NoArtifacts == [reproducer |-> FALSE, patches |-> 0, verdict |-> "none"]

-----------------------------------------------------------------------------
VARIABLES
    row,        \* the findings table
    art,        \* the artifacts table, per finding
    now,        \* the clock of created_at: rows inserted so far
    pods,       \* containers that exist
    made,       \* container ids already handed out
    owner,      \* and, for the properties, the finding each was started for
    pc,         \* where each worker is
    job,        \* the finding it works on
    snap,       \* its Finding object: the row as it read it
    res,        \* the status its handler returned
    kid,        \* the child finding its investigation works on
    opPc,       \* the call each operator has in progress
    opJob,      \* and the finding it is about
    signed,     \* findings a human has signed off
    unwritten,  \* findings whose container_id once could not be written
    events      \* human calls and faults so far

dbVars == <<row, art, now>>
podVars == <<pods, made, owner>>
workerVars == <<pc, job, snap, res, kid>>
opVars == <<opPc, opJob, signed, unwritten>>
vars == <<dbVars, podVars, workerVars, opVars, events>>

Phase == {"stopped", "requeue", "poll", "selected", "claimed", "stage", "pin",
          "inpod", "spawn", "child", "advance", "teardown", "clear"}

TypeOK ==
    /\ row \in [Finding -> Row]
    /\ art \in [Finding -> Artifacts]
    /\ now \in Nat
    /\ pods \subseteq made /\ made \subseteq Pod
    /\ owner \in [Pod -> Finding \cup {NoFinding}]
    /\ pc \in [Worker -> Phase]
    /\ job \in [Worker -> Finding \cup {NoFinding}]
    /\ snap \in [Worker -> Row]
    /\ res \in [Worker -> Status \cup {"none"}]
    /\ kid \in [Worker -> Finding \cup {NoFinding}]
    /\ opPc \in [Operator -> {"idle", "unblock", "signoff", "iterate"}]
    /\ opJob \in [Operator -> Finding \cup {NoFinding}]
    /\ signed \subseteq Finding /\ unwritten \subseteq Finding
    /\ events \in Nat

Init ==
    /\ row = [f \in Finding |-> NoRow]
    /\ art = [f \in Finding |-> NoArtifacts]
    /\ now = 0
    /\ pods = {} /\ made = {} /\ owner = [p \in Pod |-> NoFinding]
    /\ pc = [w \in Worker |-> "stopped"]
    /\ job = [w \in Worker |-> NoFinding]
    /\ snap = [w \in Worker |-> NoRow]
    /\ res = [w \in Worker |-> "none"]
    /\ kid = [w \in Worker |-> NoFinding]
    /\ opPc = [o \in Operator |-> "idle"]
    /\ opJob = [o \in Operator |-> NoFinding]
    /\ signed = {} /\ unwritten = {}
    /\ events = 0

-----------------------------------------------------------------------------
(* The store. *)

Present(f) == row[f].state # "absent"

(* Store.update: an UPDATE by id that checks nothing about the row.        *)
Update(f, r) == row' = [row EXCEPT ![f] = r]

(* The INSERT of Store.add_finding. *)
Insert(f, s) ==
    /\ ~Present(f)
    /\ Update(f, [NoRow EXCEPT !.state = "pending", !.stage = s,
                               !.created_at = now + 1])
    /\ now' = now + 1

(* The SELECT of claim_next: pending, attempts left, oldest first. *)
Ready(f) == row[f].state = "pending" /\ row[f].attempts < MaxAttempts

OldestReady == {f \in Finding :
    /\ Ready(f)
    /\ \A g \in Finding : Ready(g) => row[f].created_at <= row[g].created_at}

(* A human call or a fault: it happens in this environment, and the bound  *)
(* on their number is not reached.                                         *)
Happens(what) ==
    /\ what \in Environment
    /\ events < MaxEvents
    /\ events' = events + 1

-----------------------------------------------------------------------------
(* Runner.run, run_once and Store.claim_next. *)

Goto(w, p) == pc' = [pc EXCEPT ![w] = p]

(* The worker lets go of everything it holds in memory. *)
Release(w, p) ==
    /\ Goto(w, p)
    /\ job' = [job EXCEPT ![w] = NoFinding]
    /\ snap' = [snap EXCEPT ![w] = NoRow]
    /\ res' = [res EXCEPT ![w] = "none"]
    /\ kid' = [kid EXCEPT ![w] = NoFinding]

(* cmd_add; ingestion promotes advisories through the same call. *)
AddFinding(f) ==
    /\ Insert(f, "ingest")
    /\ UNCHANGED <<art, podVars, workerVars, opVars, events>>

(* `patchwing run`, or start_run when no run thread is alive. *)
StartRun(w) ==
    /\ pc[w] = "stopped"
    /\ Goto(w, "poll")
    /\ UNCHANGED <<dbVars, podVars, job, snap, res, kid, opVars, events>>

(* start_run(finding_id): its thread reads the finding it is asked to run ...*)
RequeueRead(w, f) ==
    /\ w \in ServerRun /\ pc[w] = "stopped"
    /\ row[f].state \in {"blocked", "failed"}
    /\ Happens("requeue")
    /\ Goto(w, "requeue")
    /\ job' = [job EXCEPT ![w] = f]
    /\ UNCHANGED <<dbVars, podVars, snap, res, kid, opVars>>

(* ... and resets it, whatever it has become, before it runs the queue.    *)
RequeueWrite(w) ==
    /\ pc[w] = "requeue"
    /\ Update(job[w], [row[job[w]] EXCEPT !.state = "pending", !.attempts = 0,
                                          !.error = ""])
    /\ Release(w, "poll")
    /\ UNCHANGED <<art, now, podVars, opVars, events>>

ClaimSelect(w) ==
    /\ pc[w] = "poll"
    /\ \E f \in OldestReady : job' = [job EXCEPT ![w] = f]
    /\ Goto(w, "selected")
    /\ UNCHANGED <<dbVars, podVars, snap, res, kid, opVars, events>>

(* Mutant: the loop ends as soon as some finding is not ready. *)
QueueEmptyForOne(w) ==
    /\ pc[w] = "poll"
    /\ \E f \in Finding : ~Ready(f)
    /\ Release(w, "stopped")
    /\ UNCHANGED <<dbVars, podVars, opVars, events>>

(* Nothing is ready: run_once answers False and the loop ends. *)
QueueEmpty(w) ==
    /\ pc[w] = "poll"
    /\ \A f \in Finding : ~Ready(f)
    /\ Release(w, "stopped")
    /\ UNCHANGED <<dbVars, podVars, opVars, events>>

(* Mutant: the UPDATE checks the id alone. *)
ClaimUnguarded(w) == job[w] \in Finding

(* The guard of UPDATE ... WHERE id = ? AND state = 'pending'. *)
ClaimGuard(w) == row[job[w]].state = "pending"

ClaimUpdate(w) ==
    /\ pc[w] = "selected"
    /\ ClaimGuard(w)
    /\ Update(job[w], [row[job[w]] EXCEPT !.state = "running"])
    /\ Goto(w, "claimed")
    /\ UNCHANGED <<art, now, podVars, job, snap, res, kid, opVars, events>>

(* rowcount = 0, "somebody else took it": claim_next answers None, which   *)
(* ends the loop as if nothing were ready.                                 *)
ClaimLost(w) ==
    /\ pc[w] = "selected"
    /\ ~ClaimGuard(w)
    /\ Release(w, "stopped")
    /\ UNCHANGED <<dbVars, podVars, opVars, events>>

(* claim_next returns a fresh read of the row, not the one it selected.    *)
Fetch(w) ==
    /\ pc[w] = "claimed"
    /\ snap' = [snap EXCEPT ![w] = row[job[w]]]
    /\ Goto(w, "stage")
    /\ UNCHANGED <<dbVars, podVars, job, res, kid, opVars, events>>

-----------------------------------------------------------------------------
(* The stage handlers, up to the status they return. *)

StageOf(w) == snap[w].stage

(* The artifacts a handler refuses to go on without. *)
HasInputs(w) ==
    CASE StageOf(w) = "verify"  -> art[job[w]].patches > 0
      [] StageOf(w) = "package" -> /\ art[job[w]].patches > 0
                                   /\ art[job[w]].verdict # "none"
      [] OTHER -> TRUE

EarlyReturn(w, s) ==
    /\ pc[w] = "stage"
    /\ s \in EarlyStatus[StageOf(w)]
    /\ s \in {"ok", "retry"} => HasInputs(w)
    /\ res' = [res EXCEPT ![w] = s]
    /\ Goto(w, "advance")
    /\ UNCHANGED <<dbVars, podVars, job, snap, kid, opVars, events>>

(* InImageSandbox.prepare with an existing container id. *)
AttachPod(w) ==
    /\ pc[w] = "stage" /\ StageOf(w) \in PodStage /\ HasInputs(w)
    /\ snap[w].container_id \in pods
    /\ Goto(w, "inpod")
    /\ UNCHANGED <<dbVars, podVars, job, snap, res, kid, opVars, events>>

(* The container is gone: PodLost, which every stage turns into a failure. *)
PodLost(w) ==
    /\ pc[w] = "stage" /\ StageOf(w) \in PodStage /\ HasInputs(w)
    /\ snap[w].container_id \in Pod \ pods
    /\ res' = [res EXCEPT ![w] = "fail"]
    /\ Goto(w, "advance")
    /\ UNCHANGED <<dbVars, podVars, job, snap, kid, opVars, events>>

(* Mutant: a pod that is gone is silently replaced. *)
NeedsPodOrLostIt(w) == snap[w].container_id \notin pods

NeedsPod(w) == snap[w].container_id = NoPod

(* prepare without one: `podman run -d`.  The patch stage does it once per *)
(* sandbox it opens; only the pinning stages keep the id.                  *)
CreatePod(w, p) ==
    /\ pc[w] = "stage" \/ (pc[w] = "inpod" /\ StageOf(w) = "patch")
    /\ StageOf(w) \in PodStage /\ HasInputs(w) /\ job[w] \notin HostTarget
    /\ NeedsPod(w)
    /\ p \notin made
    /\ made' = made \cup {p} /\ pods' = pods \cup {p}
    /\ owner' = [owner EXCEPT ![p] = job[w]]
    /\ IF StageOf(w) \in PinningStage
       THEN /\ snap' = [snap EXCEPT ![w].container_id = p]
            /\ Goto(w, "pin")
       ELSE /\ UNCHANGED snap
            /\ Goto(w, "inpod")
    /\ UNCHANGED <<dbVars, job, res, kid, opVars, events>>

(* A write of the container_id column that fails, in a place that swallows *)
(* the exception.                                                          *)
Unwritten(f) ==
    /\ Happens("dbfail")
    /\ unwritten' = unwritten \cup {f}
    /\ UNCHANGED row

(* _pin_container: when the UPDATE fails, the row and the worker's Finding *)
(* stay without a pod, and the stage goes on in the one it has.            *)
PinPod(w) ==
    /\ pc[w] = "pin"
    /\ \/ /\ Update(job[w], [row[job[w]] EXCEPT
                               !.container_id = snap[w].container_id])
          /\ UNCHANGED <<snap, unwritten, events>>
       \/ /\ Unwritten(job[w])
          /\ snap' = [snap EXCEPT ![w].container_id = NoPod]
    /\ Goto(w, "inpod")
    /\ UNCHANGED <<art, now, podVars, job, res, kid, opPc, opJob, signed>>

(* The artifacts a handler that ran in its pod leaves.  A reproduce whose   *)
(* build failed has no reproducer, a verify that could not build, or was   *)
(* stopped, no verdict; a verdict with an outcome other than different_bug,*)
(* did_not_resolve or suite_broken is closed.                              *)
ArtifactsAfter(a, stage, s) ==
    CASE stage = "reproduce" /\ s # "fail" -> {[a EXCEPT !.reproducer = TRUE]}
      [] stage = "reproduce" /\ s = "fail" ->
             {a, [a EXCEPT !.reproducer = TRUE]}
      [] stage = "patch" /\ s = "ok" -> {[a EXCEPT !.patches = @ + 1]}
      [] stage = "verify" /\ s = "ok" -> {[a EXCEPT !.verdict = "closed"]}
      [] stage = "verify" /\ s = "reject" -> {a, [a EXCEPT !.verdict = "open"]}
      [] stage = "verify" /\ s \in {"fail", "retry"} ->
             {a, [a EXCEPT !.verdict = "closed"]}
      [] OTHER -> {a}

StageReturn(w, s) ==
    /\ pc[w] = "inpod" /\ s \in PodStatus[StageOf(w)]
    /\ \E a \in ArtifactsAfter(art[job[w]], StageOf(w), s) :
          art' = [art EXCEPT ![job[w]] = a]
    /\ res' = [res EXCEPT ![w] = s]
    /\ Goto(w, "advance")
    /\ UNCHANGED <<row, now, podVars, job, snap, kid, opVars, events>>

-----------------------------------------------------------------------------
(* A patch that exposes a different bug: the investigation inserts a child *)
(* finding and works on it inside the parent's stage and pod.              *)

(* _spawn_child_finding commits the INSERT ... *)
SpawnChild(w, c) ==
    /\ "spawn" \in Environment
    /\ pc[w] = "inpod" /\ StageOf(w) = "patch"
    /\ Insert(c, "patch") /\ c \notin HostTarget
    /\ kid' = [kid EXCEPT ![w] = c]
    /\ Goto(w, "spawn")
    /\ UNCHANGED <<art, podVars, job, snap, res, opVars, events>>

(* ... before the UPDATE that hands it the parent's pod. *)
LinkChild(w) ==
    /\ pc[w] = "spawn"
    /\ Update(kid[w], [row[kid[w]] EXCEPT
                          !.container_id = snap[w].container_id])
    /\ Goto(w, "child")
    /\ UNCHANGED <<art, now, podVars, job, snap, res, kid, opVars, events>>

(* The child's fix is composed into the parent's; its row stays as it is,  *)
(* and so it does when a ceiling, or the failure of a child of its own,    *)
(* ends its loop: nothing but giving up is caught there.                   *)
ChildProved(w) ==
    /\ pc[w] = "child"
    /\ kid' = [kid EXCEPT ![w] = NoFinding]
    /\ Goto(w, "inpod")
    /\ UNCHANGED <<dbVars, podVars, job, snap, res, opVars, events>>

(* The child's row is failed, and the parent's patch rejected. *)
ChildFails(w) ==
    /\ pc[w] = "child"
    /\ Update(kid[w], [row[kid[w]] EXCEPT !.state = "failed",
                                          !.error = "message"])
    /\ kid' = [kid EXCEPT ![w] = NoFinding]
    /\ res' = [res EXCEPT ![w] = "reject"]
    /\ Goto(w, "advance")
    /\ UNCHANGED <<art, now, podVars, job, snap, opVars, events>>

-----------------------------------------------------------------------------
(* Runner._advance: what the row becomes. *)

Returned(w, s) == pc[w] = "advance" /\ res[w] = s

(* _teardown_pod, when the worker's Finding names a pod. *)
TearDown(w) ==
    IF NeedsPod(w) THEN Release(w, "poll")
    ELSE Goto(w, "teardown") /\ UNCHANGED <<job, snap, res, kid>>

Close(w, s, e) ==
    /\ Update(job[w], [row[job[w]] EXCEPT !.state = s, !.error = e])
    /\ TearDown(w)

(* Mutant: next_stage is off by one. *)
AtLastButOneStage(w) == Position[StageOf(w)] >= 6

(* Finding.next_stage is None. *)
AtLastStage(w) == StageOf(w) = "review"

AdvanceOk(w) ==
    /\ Returned(w, "ok")
    /\ IF AtLastStage(w)
       THEN Close(w, "done", "")
       ELSE /\ Update(job[w], [row[job[w]] EXCEPT
                        !.stage = NextStage[StageOf(w)],
                        !.state = "pending", !.attempts = 0, !.error = ""])
            /\ Release(w, "poll")
    /\ UNCHANGED <<art, now, podVars, opVars, events>>

(* Mutant: one attempt too many is queued. *)
TriesLeftOrLast(n) == n <= MaxAttempts

TriesLeft(n) == n < MaxAttempts

(* Mutants: the attempt is not counted; attempts are counted down. *)
SameAttempt(w) == snap[w].attempts
AttemptsDown(w) == snap[w].attempts - 1

(* Another attempt, counted from the attempts the worker read. *)
NextAttempt(w) == snap[w].attempts + 1

AdvanceRetry(w) ==
    LET n == NextAttempt(w) IN
    /\ Returned(w, "retry")
    /\ Update(job[w], [row[job[w]] EXCEPT
                !.state = IF TriesLeft(n) THEN "pending" ELSE "failed",
                !.attempts = n, !.error = "message"])
    /\ IF TriesLeft(n) THEN Release(w, "poll") ELSE TearDown(w)
    /\ UNCHANGED <<art, now, podVars, opVars, events>>

(* Mutant: a blocked finding's pod is removed, its row not told. *)
AdvanceBlockedRemoves(w) ==
    /\ Returned(w, "blocked")
    /\ Update(job[w], [row[job[w]] EXCEPT !.state = "blocked",
                                          !.error = "message"])
    /\ pods' = pods \ {snap[w].container_id}
    /\ Release(w, "poll")
    /\ UNCHANGED <<art, now, made, owner, opVars, events>>

AdvanceBlocked(w) ==
    /\ Returned(w, "blocked")
    /\ Update(job[w], [row[job[w]] EXCEPT !.state = "blocked",
                                          !.error = "message"])
    /\ Release(w, "poll")
    /\ UNCHANGED <<art, now, podVars, opVars, events>>

(* Mutant: a rejected finding keeps its pod. *)
AdvanceRejectOnly(w) ==
    /\ Returned(w, "reject")
    /\ Update(job[w], [row[job[w]] EXCEPT !.state = "rejected",
                                          !.error = "message"])
    /\ Release(w, "poll")
    /\ UNCHANGED <<art, now, podVars, opVars, events>>

AdvanceReject(w) ==
    /\ Returned(w, "reject")
    /\ Close(w, "rejected", "message")
    /\ UNCHANGED <<art, now, podVars, opVars, events>>

(* The final else: FAIL, and every status the dispatch does not name,      *)
(* which is pending_signoff.                                               *)
AdvanceFail(w) ==
    /\ Returned(w, "fail") \/ Returned(w, "pending_signoff")
    /\ Close(w, "failed", "message")
    /\ UNCHANGED <<art, now, podVars, opVars, events>>

(* `podman rm -f`, whose failure is swallowed ... *)
RemovePod(w) ==
    /\ pc[w] = "teardown"
    /\ Goto(w, "clear")
    /\ \/ pods' = pods \ {snap[w].container_id} /\ UNCHANGED events
       \/ Happens("rmfail") /\ UNCHANGED pods
    /\ UNCHANGED <<dbVars, made, owner, job, snap, res, kid, opVars>>

(* ... and the column cleared in any case, unless that write fails too.    *)
ClearPod(w) ==
    /\ pc[w] = "clear"
    /\ \/ /\ Update(job[w], [row[job[w]] EXCEPT !.container_id = NoPod])
          /\ UNCHANGED <<unwritten, events>>
       \/ Unwritten(job[w])
    /\ Release(w, "poll")
    /\ UNCHANGED <<art, now, podVars, opPc, opJob, signed>>

(* Mutant: as many as there are attempts, if the failure is a new one. *)
GrantEachTime(w, sig, transient) ==
    transient /\ snap[w].error # sig /\ TriesLeft(NextAttempt(w))

(* At most one retry for an exception, and only for a transient class. *)
Grant(w, sig, transient) ==
    transient /\ snap[w].attempts = 0 /\ snap[w].error # sig

(* reproduce on a target that is not in-image: it reads the cid attribute, *)
(* which only the in-image sandbox has.                                    *)
NoContainerId(w) ==
    pc[w] = "stage" /\ StageOf(w) = "reproduce" /\ job[w] \in HostTarget

(* _record_harness_failure: the handler raised.  The pod is left alone.    *)
Raise(w, sig, transient) ==
    /\ \/ "raise" \in Environment /\ pc[w] \in {"stage", "inpod"}
       \/ NoContainerId(w) /\ ~transient
    /\ Update(job[w], [row[job[w]] EXCEPT
                !.state = IF Grant(w, sig, transient) THEN "pending"
                                                      ELSE "failed",
                !.attempts = NextAttempt(w), !.error = sig])
    /\ Release(w, "poll")
    /\ UNCHANGED <<art, now, podVars, opVars, events>>

-----------------------------------------------------------------------------
(* Human calls: each reads the row, decides, and writes by id. *)

Call(o, what, f) ==
    /\ opPc[o] = "idle" /\ Present(f)
    /\ Happens(what)
    /\ opPc' = [opPc EXCEPT ![o] = what]
    /\ opJob' = [opJob EXCEPT ![o] = f]
    /\ UNCHANGED <<dbVars, podVars, workerVars, signed, unwritten>>

Answer(o, what) ==
    /\ opPc[o] = what
    /\ opPc' = [opPc EXCEPT ![o] = "idle"]
    /\ opJob' = [opJob EXCEPT ![o] = NoFinding]
    /\ UNCHANGED <<now, podVars, workerVars, unwritten, events>>

(* Runner.unblock *)
UnblockRead(o, f) == row[f].state = "blocked" /\ Call(o, "unblock", f)

UnblockWrite(o) ==
    /\ Answer(o, "unblock")
    /\ Update(opJob[o], [row[opJob[o]] EXCEPT !.state = "pending",
                                              !.attempts = 0, !.error = ""])
    /\ UNCHANGED <<art, signed>>

(* App.signoff checks the stage and not the state. *)
SignoffRead(o, f) == row[f].stage = "review" /\ Call(o, "signoff", f)

SignoffWrite(o) ==
    /\ Answer(o, "signoff")
    /\ Update(opJob[o], [row[opJob[o]] EXCEPT !.state = "done", !.error = ""])
    /\ signed' = signed \cup {opJob[o]}
    /\ UNCHANGED art

(* App.iterate_once_more: the cap, the verdict and the reproducer, whose   *)
(* token may still be missing; a finding that has no verdict passes.       *)
MayIterate(f) ==
    /\ MaxIterations = 0 \/ art[f].patches < MaxIterations
    /\ art[f].verdict # "closed"
    /\ art[f].reproducer

IterateRead(o, f) == MayIterate(f) /\ Call(o, "iterate", f)

(* The deletion of the artifacts and the reset commit together. *)
IterateWrite(o) ==
    /\ Answer(o, "iterate")
    /\ Update(opJob[o], [row[opJob[o]] EXCEPT !.state = "pending",
                            !.stage = "patch", !.attempts = 0, !.error = ""])
    /\ art' = [art EXCEPT ![opJob[o]].patches = 0,
                          ![opJob[o]].verdict = "none"]
    /\ UNCHANGED signed

-----------------------------------------------------------------------------
(* Faults. *)

(* The process dies, or is stopped between two findings (--limit). *)
Crash(w) ==
    /\ pc[w] # "stopped"
    /\ Happens("crash")
    /\ Release(w, "stopped")
    /\ UNCHANGED <<dbVars, podVars, opVars>>

(* A container disappears under its finding: `--rm`, a reboot, a human. *)
PodDies(p) ==
    /\ p \in pods
    /\ Happens("podloss")
    /\ pods' = pods \ {p}
    /\ UNCHANGED <<dbVars, made, owner, workerVars, opVars>>

-----------------------------------------------------------------------------
(* What a started worker does by itself. *)
Handler(w) ==
    \/ \E s \in Status : EarlyReturn(w, s)
    \/ AttachPod(w)
    \/ PodLost(w)
    \/ \E p \in Pod : CreatePod(w, p)
    \/ PinPod(w)
    \/ \E s \in Status : StageReturn(w, s)
    \/ \E c \in Finding : SpawnChild(w, c)
    \/ LinkChild(w)
    \/ ChildProved(w)
    \/ ChildFails(w)
    \/ \E sig \in Signature, transient \in BOOLEAN : Raise(w, sig, transient)

Dispatch(w) ==
    \/ AdvanceOk(w)
    \/ AdvanceRetry(w)
    \/ AdvanceBlocked(w)
    \/ AdvanceReject(w)
    \/ AdvanceFail(w)
    \/ RemovePod(w)
    \/ ClearPod(w)

WorkerStep(w) ==
    \/ RequeueWrite(w)
    \/ ClaimSelect(w)
    \/ QueueEmpty(w)
    \/ ClaimUpdate(w)
    \/ ClaimLost(w)
    \/ Fetch(w)
    \/ Handler(w)
    \/ Dispatch(w)

OperatorStep(o) ==
    \/ \E f \in Finding : UnblockRead(o, f)
    \/ UnblockWrite(o)
    \/ \E f \in Finding : SignoffRead(o, f)
    \/ SignoffWrite(o)
    \/ \E f \in Finding : IterateRead(o, f)
    \/ IterateWrite(o)

Next ==
    \/ \E f \in Finding : AddFinding(f)
    \/ \E w \in Worker : StartRun(w)
    \/ \E w \in Worker, f \in Finding : RequeueRead(w, f)
    \/ \E w \in Worker : WorkerStep(w)
    \/ \E o \in Operator : OperatorStep(o)
    \/ \E w \in Worker : Crash(w)
    \/ \E p \in Pod : PodDies(p)

Spec == Init /\ [][Next]_vars

(* A thread that runs keeps running; nothing starts a run, adds a finding  *)
(* or makes a human act.                                                   *)
FairSpec == Spec /\ \A w \in Worker : WF_vars(WorkerStep(w))

-----------------------------------------------------------------------------
(* Properties. *)

(* Between its claim and the write of its result, a worker holds its       *)
(* finding.                                                                *)
Holds(w) == pc[w] \in {"claimed", "stage", "pin", "inpod", "spawn", "child",
                       "advance"}

(* What a worker works on: its finding, and the child its investigation    *)
(* is busy with.                                                           *)
WorkedOn(w) == {job[w], kid[w]} \ {NoFinding}

(* No finding is worked on by two workers at once, neither as the one they *)
(* claimed nor as the child of one: the UPDATE ... WHERE state = 'pending' *)
(* of claim_next "is what makes it safe to add a second worker"            *)
(* (store.py).  Holds as long as no human call rewrites a row to pending   *)
(* behind a worker's back and no investigation leaves a child pending      *)
(* while it works on it.                                                   *)
OneHolder == \A v, w \in Worker :
    v # w /\ Holds(v) /\ Holds(w) => WorkedOn(v) \cap WorkedOn(w) = {}

(* "Pipeline stages, in order. A finding advances through these."          *)
(* (store.py): a row that changes stage goes to the next one, whoever      *)
(* writes it, except for the reset that an iteration is.                   *)
Iterated(f) == \E o \in Operator :
    opPc[o] = "iterate" /\ opJob[o] = f /\ opPc'[o] = "idle"

StageFollows(f) ==
    row'[f].stage # row[f].stage /\ Present(f) /\ ~Iterated(f)
        => Position[row'[f].stage] = Position[row[f].stage] + 1

StagesInOrder == [][\A f \in Finding : StageFollows(f)]_vars

(* A container that exists is in some row, or about to be written there by *)
(* the worker that started it: no stage of an undisturbed pipeline leaves  *)
(* a pod running that no finding names (_pin_container, _teardown_pod) --  *)
(* and a write of the column that fails costs only the pods of its own     *)
(* finding.                                                                *)
PodAccounted == \A p \in pods :
    \/ owner[p] \in unwritten
    \/ \E f \in Finding : row[f].container_id = p
    \/ \E w \in Worker : pc[w] = "pin" /\ snap[w].container_id = p

(* A finding that is over has no pod any more, once the worker that closed *)
(* it has torn it down ("Runs on DONE / REJECTED / FAILED", runner.py) --  *)
(* unless a stage raised, the path that tears nothing down, or the column  *)
(* could not be written.                                                   *)
TearingDown(f) == \E w \in Worker :
    pc[w] \in {"teardown", "clear"} /\ job[w] = f

ClosedPodRemoved == \A f \in Finding \ unwritten :
    row[f].state \in Closed /\ row[f].error \notin Signature /\ ~TearingDown(f)
        => row[f].container_id = NoPod

(* A pending finding can still be claimed: the attempts a retry or a       *)
(* granted failure writes never put a row that is queued out of reach of   *)
(* claim_next's attempts < max_attempts.                                   *)
NoStrandedPending == \A f \in Finding :
    row[f].state = "pending" => row[f].attempts < MaxAttempts

(* "AT MOST ONE. Not fewer than max_attempts -- one." (runner.py): a row   *)
(* queued again after an exception is on its first retry, whatever mix of  *)
(* ordinary retries and exceptions came before.                            *)
OneHarnessRetry == \A f \in Finding :
    row[f].state = "pending" /\ row[f].error \in Signature
        => row[f].attempts = 1

(* "A machine never signs off its own patch" (README.md): only a finding   *)
(* some human signed off is ever done.                                     *)
NeverSelfSigned == \A f \in Finding :
    row[f].state = "done" => f \in signed

(* Pod per finding: the container a row names is never exchanged for       *)
(* another one; a finding whose pod is lost fails instead of going on in a *)
(* fresh pod ("do NOT create a fresh pod under the same pristine",         *)
(* sandbox.py).                                                            *)
PodNeverSwapped == [][\A f \in Finding :
    row[f].container_id \in Pod
        => row'[f].container_id \in {row[f].container_id, NoPod}]_vars

(* When nobody removes containers from outside, a worker that is about to  *)
(* attach to the pod its finding names finds it alive: requeueing,         *)
(* unblocking and iterating never hand a stage a torn-down pod.  Only a    *)
(* row that a failed write left naming its removed pod can.                *)
AttachFindsPod == \A w \in Worker :
    pc[w] = "stage" /\ StageOf(w) \in PodStage /\ job[w] \notin unwritten
        => snap[w].container_id \in pods \cup {NoPod}

(* Runner.run returns: retries are bounded and stages end, so a run that   *)
(* no human disturbs stops by itself.                                      *)
RunTerminates == \A w \in Worker : pc[w] # "stopped" ~> pc[w] = "stopped"

(* While some run is going on, a finding that waits gets its turn: a       *)
(* worker that lost the race for a row gives up on the queue, but then the *)
(* one that won it comes back for the rest.  (Between its SELECT and its   *)
(* UPDATE a worker may be about to give up after the winner already has,   *)
(* so a finding added exactly then can be left for the next run.)          *)
RunDrains == \A f \in Finding :
    Ready(f) /\ (\E w \in Worker : pc[w] \notin {"stopped", "selected"})
        ~> row[f].state \in Closed \cup {"blocked"}

=============================================================================
