---------------------------- MODULE PipelineSafety ----------------------------
(***************************************************************************)
(* Safety of the pipeline, for every number of findings, workers,          *)
(* operators and pods: the order of the stages, what becomes of the pods,  *)
(* and that the store and the runner implement the work queue.             *)
(***************************************************************************)
EXTENDS PipelineProofs, PipelineQueue

-----------------------------------------------------------------------------
(* Who writes what.  A step belongs to one worker, or to none, and of the  *)
(* rows that others keep it leaves alone what they rely on.                *)

(* The worker's own variables do not change. *)
Stays(v) ==
    /\ pc'[v] = pc[v] /\ job'[v] = job[v] /\ snap'[v] = snap[v]
    /\ res'[v] = res[v] /\ kid'[v] = kid[v]

(* A step of one worker: started, crashed or anything between. *)
Starts(w) == StartRun(w) \/ \E f \in Finding : RequeueRead(w, f)

StepOf(w) == Starts(w) \/ WorkerStep(w) \/ Crash(w)

(* A step of no worker. *)
StepOfNone ==
    \/ \E f \in Finding : AddFinding(f)
    \/ \E o \in Operator : OperatorStep(o)
    \/ \E p \in Pod : PodDies(p)
    \/ UNCHANGED vars

(* The two kinds are all there is. *)
LEMMA StepCases ==
    ASSUME [Next]_vars
    PROVE  StepOfNone \/ \E w \in Worker : StepOf(w)
BY DEF Next, StepOfNone, StepOf, Starts

(* A worker that is not the one who acts stays. *)
LEMMA OthersStay ==
    ASSUME TypeInv, NEW w \in Worker, StepOf(w), NEW v \in Worker, v # w
    PROVE  Stays(v)
<1> USE DEF TypeInv, WorkersTyped, Stays
<1>1. CASE Starts(w)
  BY <1>1 DEF Starts, StartRun, RequeueRead, Goto
<1>2. CASE Crash(w)
  BY <1>2 DEF Crash, Release, Goto
<1>3. CASE \/ RequeueWrite(w) \/ ClaimSelect(w) \/ QueueEmpty(w)
           \/ ClaimUpdate(w) \/ ClaimLost(w) \/ Fetch(w)
  BY <1>3 DEF RequeueWrite, ClaimSelect, QueueEmpty, ClaimUpdate, ClaimLost,
     Fetch, Release, Goto
<1>4. CASE Handler(w)
  BY <1>4 DEF Handler, EarlyReturn, AttachPod, PodLost, CreatePod, PinPod,
     StageReturn, SpawnChild, LinkChild, ChildProved, ChildFails, Raise,
     NoContainerId, Release, Goto
<1>5. CASE Dispatch(w)
  BY <1>5 DEF Dispatch, AdvanceOk, AdvanceRetry, AdvanceBlocked,
     AdvanceReject, AdvanceFail, RemovePod, ClearPod, Close, TearDown,
     Release, Goto
<1> QED BY <1>1, <1>2, <1>3, <1>4, <1>5 DEF StepOf, WorkerStep

(* When nobody acts, everybody stays. *)
LEMMA NobodyMoves ==
    ASSUME StepOfNone, NEW v \in Worker
    PROVE  Stays(v)
BY DEF StepOfNone, Stays, AddFinding, OperatorStep, UnblockRead, UnblockWrite,
   SignoffRead, SignoffWrite, IterateRead, IterateWrite, Call, Answer, PodDies,
   vars, workerVars

(* The column container_id is written alone. *)
LEMMA PinParts ==
    ASSUME NEW r \in Row, NEW c
    PROVE  /\ [r EXCEPT !.container_id = c].stage = r.stage
           /\ [r EXCEPT !.container_id = c].attempts = r.attempts
           /\ [r EXCEPT !.container_id = c].state = r.state
           /\ [r EXCEPT !.container_id = c].error = r.error
           /\ [r EXCEPT !.container_id = c].container_id = c
BY DEF Row

(* And so is a failure. *)
LEMMA FailParts ==
    ASSUME NEW r \in Row, NEW e
    PROVE  /\ [r EXCEPT !.state = "failed", !.error = e].stage = r.stage
           /\ [r EXCEPT !.state = "failed", !.error = e].attempts = r.attempts
           /\ [r EXCEPT !.state = "failed", !.error = e].state = "failed"
           /\ [r EXCEPT !.state = "failed", !.error = e].error = e
           /\ [r EXCEPT !.state = "failed", !.error = e].container_id
                  = r.container_id
BY DEF Row

(* An UPDATE changes one row. *)
LEMMA UpdateOne ==
    ASSUME TypeInv, NEW f, NEW r, Update(f, r)
    PROVE  /\ \A g \in Finding : g # f => row'[g] = row[g]
           /\ f \in Finding => row'[f] = r
BY DEF Update, TypeInv, RowsTyped

(* Pinning: the row names the pod, or the write failed and the worker has   *)
(* forgotten the pod too.                                                  *)
LEMMA PinCases ==
    ASSUME TypeInv, NEW w \in Worker, PinPod(w)
    PROVE  /\ pc[w] = "pin" /\ pc'[w] = "inpod" /\ UNCHANGED <<job, podVars>>
           /\ job[w] \in Finding /\ row[job[w]] \in Row
           /\ snap[w].container_id \in Pod \cup {NoPod}
           /\ snap'[w].stage = snap[w].stage
           /\ snap'[w].attempts = snap[w].attempts
           /\ \/ /\ UNCHANGED <<snap, unwritten>>
                 /\ Update(job[w], [row[job[w]] EXCEPT
                                       !.container_id = snap[w].container_id])
                 /\ row'[job[w]] = [row[job[w]] EXCEPT
                                       !.container_id = snap[w].container_id]
                 /\ row'[job[w]].container_id = snap[w].container_id
              \/ /\ UNCHANGED row /\ unwritten' = unwritten \cup {job[w]}
                 /\ snap'[w].container_id = NoPod
<1>1. /\ pc[w] = "pin" /\ pc'[w] = "inpod" /\ UNCHANGED <<job, podVars>>
      /\ job[w] \in Finding /\ row[job[w]] \in Row /\ snap[w] \in Row
  BY DEF PinPod, Goto, TypeInv, WorkersTyped, RowsTyped
<1>2. CASE /\ UNCHANGED <<snap, unwritten>>
           /\ Update(job[w], [row[job[w]] EXCEPT
                                 !.container_id = snap[w].container_id])
  <2>1. row'[job[w]] = [row[job[w]] EXCEPT
                           !.container_id = snap[w].container_id]
    BY <1>1, <1>2, UpdateOne
  <2>2. row'[job[w]].container_id = snap[w].container_id
    BY <1>1, <2>1, PinParts
  <2> QED BY <1>1, <1>2, <2>1, <2>2 DEF Row
<1>3. CASE /\ Unwritten(job[w])
           /\ snap' = [snap EXCEPT ![w].container_id = NoPod]
  <2>1. snap'[w] = [snap[w] EXCEPT !.container_id = NoPod]
    BY <1>3 DEF TypeInv, WorkersTyped
  <2>2. /\ snap'[w].container_id = NoPod /\ snap'[w].stage = snap[w].stage
        /\ snap'[w].attempts = snap[w].attempts
    BY <1>1, <2>1, PinParts
  <2> QED BY <1>1, <1>3, <2>2 DEF Unwritten, Row
<1> QED BY <1>2, <1>3 DEF PinPod

(* Clearing: the row names no pod any more, or the write failed.           *)
LEMMA ClearCases ==
    ASSUME TypeInv, NEW w \in Worker, ClearPod(w)
    PROVE  /\ pc[w] = "clear" /\ job[w] \in Finding /\ row[job[w]] \in Row
           /\ \/ /\ UNCHANGED unwritten
                 /\ row'[job[w]] = [row[job[w]] EXCEPT !.container_id = NoPod]
                 /\ row'[job[w]].container_id = NoPod
                 /\ row'[job[w]].state = row[job[w]].state
              \/ UNCHANGED row /\ unwritten' = unwritten \cup {job[w]}
<1>1. pc[w] = "clear" /\ job[w] \in Finding /\ row[job[w]] \in Row
  BY DEF ClearPod, TypeInv, WorkersTyped, RowsTyped
<1>2. CASE /\ UNCHANGED unwritten
           /\ Update(job[w], [row[job[w]] EXCEPT !.container_id = NoPod])
  <2>1. row'[job[w]] = [row[job[w]] EXCEPT !.container_id = NoPod]
    BY <1>1, <1>2, UpdateOne
  <2> QED BY <1>1, <1>2, <2>1, PinParts
<1>3. CASE Unwritten(job[w])
  BY <1>1, <1>3 DEF Unwritten
<1> QED BY <1>2, <1>3 DEF ClearPod

(* What never was written is not forgotten. *)
LEMMA UnwrittenGrows ==
    ASSUME [Next]_vars
    PROVE  unwritten \subseteq unwritten'
<1>1. ASSUME NEW w \in Worker, WorkerStep(w)
      PROVE  unwritten \subseteq unwritten'
  BY <1>1 DEF WorkerStep, RequeueWrite, ClaimSelect, QueueEmpty, ClaimUpdate,
     ClaimLost, Fetch, Handler, EarlyReturn, AttachPod, PodLost, CreatePod,
     PinPod, Unwritten, StageReturn, SpawnChild, LinkChild, ChildProved,
     ChildFails, Raise, NoContainerId, Dispatch, AdvanceOk, AdvanceRetry,
     AdvanceBlocked, AdvanceReject, AdvanceFail, RemovePod, ClearPod, opVars
<1> QED BY <1>1 DEF Next, AddFinding, StartRun, RequeueRead, OperatorStep,
        UnblockRead, UnblockWrite, SignoffRead, SignoffWrite, IterateRead,
        IterateWrite, Call, Answer, Crash, PodDies, vars, opVars

(* What a worker writes: its own row, which it keeps or claims, the row of *)
(* a child that was absent, or the row of the child it works on.           *)
LEMMA WorkerWrites ==
    ASSUME TypeInv, NoRewriter, NEW w \in Worker, StepOf(w)
    PROVE  \/ UNCHANGED row
           \/ /\ Keeps(w) /\ job[w] \in Finding
              /\ \E r : Update(job[w], r)
           \/ /\ ClaimUpdate(w) /\ row[job[w]].state = "pending"
              /\ \E r : Update(job[w], r)
           \/ /\ "spawn" \in Environment
              /\ \E c \in Finding : ~Present(c) /\ \E r : Update(c, r)
           \/ /\ pc[w] \in {"spawn", "child"} /\ kid[w] \in Finding
              /\ \E r : /\ Update(kid[w], r)
                        /\ r.stage = row[kid[w]].stage
                        /\ r.attempts = row[kid[w]].attempts
                        /\ r.state \in {row[kid[w]].state, "failed"}
<1> USE DEF TypeInv, WorkersTyped, RowsTyped
<1>1. CASE \/ Starts(w) \/ Crash(w) \/ ClaimSelect(w) \/ QueueEmpty(w)
           \/ ClaimLost(w) \/ Fetch(w)
           \/ (\E s \in Status : EarlyReturn(w, s))
           \/ AttachPod(w) \/ PodLost(w)
           \/ (\E p \in Pod : CreatePod(w, p))
           \/ (\E s \in Status : StageReturn(w, s))
           \/ ChildProved(w) \/ RemovePod(w)
  BY <1>1 DEF Starts, StartRun, RequeueRead, Crash, ClaimSelect, QueueEmpty, ClaimLost, Fetch,
     EarlyReturn, AttachPod, PodLost, CreatePod, StageReturn, ChildProved,
     RemovePod, dbVars
<1>2. CASE ClaimUpdate(w)
  BY <1>2 DEF ClaimUpdate, ClaimGuard
<1>3. CASE \/ PinPod(w) \/ ClearPod(w)
           \/ \E sig \in Signature, transient \in BOOLEAN :
                 Raise(w, sig, transient)
  <2>1. Keeps(w) /\ job[w] \in Finding
    BY <1>3 DEF PinPod, ClearPod, Raise, NoContainerId, Keeps, Holds
  <2>2. UNCHANGED row \/ \E r : Update(job[w], r)
    BY <1>3 DEF PinPod, ClearPod, Unwritten, Raise, NoContainerId
  <2> QED BY <2>1, <2>2
<1>4. CASE \/ AdvanceOk(w) \/ AdvanceRetry(w) \/ AdvanceBlocked(w)
           \/ AdvanceReject(w) \/ AdvanceFail(w)
  BY <1>4, AdvanceWrites DEF Keeps, Holds
<1>5. CASE \E c \in Finding : SpawnChild(w, c)
  BY <1>5 DEF SpawnChild, Insert
<1>6. CASE LinkChild(w) \/ ChildFails(w)
  <2>1. /\ pc[w] \in {"spawn", "child"} /\ kid[w] \in Finding
        /\ row[kid[w]] \in Row
    BY <1>6 DEF LinkChild, ChildFails
  <2>2. \/ Update(kid[w], [row[kid[w]] EXCEPT
                              !.container_id = snap[w].container_id])
        \/ Update(kid[w], [row[kid[w]] EXCEPT !.state = "failed",
                                              !.error = "message"])
    BY <1>6 DEF LinkChild, ChildFails
  <2> DEFINE l == [row[kid[w]] EXCEPT !.container_id = snap[w].container_id]
             e == [row[kid[w]] EXCEPT !.state = "failed", !.error = "message"]
  <2>3. /\ l.stage = row[kid[w]].stage /\ l.attempts = row[kid[w]].attempts
        /\ l.state = row[kid[w]].state
        /\ e.stage = row[kid[w]].stage /\ e.attempts = row[kid[w]].attempts
        /\ e.state = "failed"
    BY <2>1, PinParts, FailParts
  <2>4. Update(kid[w], l) \/ Update(kid[w], e)
    BY <2>2
  <2> HIDE DEF l, e
  <2> QED BY <2>1, <2>3, <2>4
<1> QED BY <1>1, <1>2, <1>3, <1>4, <1>5, <1>6 DEF StepOf, WorkerStep,
        NoRewriter, RequeueWrite, Handler, Dispatch

(* What is written when no worker acts: a finding added, or one signed off. *)
LEMMA NoneWrites ==
    ASSUME TypeInv, NoRewriter, StepOfNone
    PROVE  \/ UNCHANGED row
           \/ \E f \in Finding : AddFinding(f)
           \/ \E o \in Operator :
                 /\ opPc[o] = "signoff" /\ opJob[o] \in Finding
                 /\ \E r : /\ Update(opJob[o], r)
                           /\ r.stage = row[opJob[o]].stage
                           /\ r.attempts = row[opJob[o]].attempts
                           /\ r.container_id = row[opJob[o]].container_id
                           /\ r.state = "done" /\ r.error = ""
<1>1. CASE \E p \in Pod : PodDies(p)
  BY <1>1 DEF PodDies, dbVars
<1>2. CASE \E o \in Operator : OperatorStep(o)
  <2> PICK o \in Operator : OperatorStep(o)
    BY <1>2
  <2>1. UNCHANGED row \/ SignoffWrite(o)
    BY DEF OperatorStep, UnblockRead, UnblockWrite, SignoffRead,
       IterateRead, IterateWrite, Call, Answer, dbVars, NoRewriter
  <2>2. CASE SignoffWrite(o)
    <3> DEFINE r == [row[opJob[o]] EXCEPT !.state = "done", !.error = ""]
    <3>1. /\ opPc[o] = "signoff" /\ opJob[o] \in Finding
          /\ row[opJob[o]] \in Row
      BY <2>2 DEF SignoffWrite, Answer, TypeInv, OperatorsTyped, RowsTyped
    <3>2. /\ r.stage = row[opJob[o]].stage
          /\ r.attempts = row[opJob[o]].attempts
          /\ r.container_id = row[opJob[o]].container_id
          /\ r.state = "done" /\ r.error = ""
      BY <3>1 DEF Row
    <3>3. Update(opJob[o], r)
      BY <2>2 DEF SignoffWrite
    <3> HIDE DEF r
    <3> QED BY <3>1, <3>2, <3>3
  <2> QED BY <2>1, <2>2
<1> QED BY <1>1, <1>2 DEF StepOfNone, vars, dbVars

(* The stage and the attempts of a row that somebody keeps change only by  *)
(* the keeper's own write, and without children nothing in it does.        *)
LEMMA KeptByOthers ==
    ASSUME ExclusiveInv, NEW w \in Worker, StepOf(w),
           NEW v \in Worker, v # w, Keeps(v)
    PROVE  /\ row'[job[v]].stage = row[job[v]].stage
           /\ row'[job[v]].attempts = row[job[v]].attempts
           /\ pc[w] \notin {"spawn", "child"} => row'[job[v]] = row[job[v]]
<1> USE DEF ExclusiveInv
<1>1. job[v] \in Finding /\ Held(row[job[v]])
  BY DEF Exclusive, Keeps, Holds, TypeInv, WorkersTyped
<1>2. Keeps(w) => job[v] # job[w]
  BY DEF Exclusive, KeepersApart
<1>3. CASE UNCHANGED row
  BY <1>3
<1>4. CASE \E f \in Finding : f # job[v] /\ \E r : Update(f, r)
  BY <1>1, <1>4, UpdateOne
<1>5. CASE pc[w] \in {"spawn", "child"} /\ kid[w] \in Finding
           /\ \E r : /\ Update(kid[w], r)
                     /\ r.stage = row[kid[w]].stage
                     /\ r.attempts = row[kid[w]].attempts
  BY <1>1, <1>5, UpdateOne
<1>6. ClaimUpdate(w) => job[w] \in Finding
  BY DEF ClaimUpdate, TypeInv, WorkersTyped
<1> QED BY <1>1, <1>2, <1>3, <1>4, <1>5, <1>6, WorkerWrites
        DEF Held, Present

(* When no worker acts, a row that somebody keeps at most becomes done.    *)
LEMMA KeptByNone ==
    ASSUME ExclusiveInv, StepOfNone, NEW v \in Worker, Keeps(v)
    PROVE  /\ row'[job[v]].stage = row[job[v]].stage
           /\ row'[job[v]].attempts = row[job[v]].attempts
           /\ row'[job[v]].container_id = row[job[v]].container_id
           /\ row'[job[v]].state \in {row[job[v]].state, "done"}
           /\ "signoff" \notin Environment /\ (\A o \in Operator : opPc[o] # "signoff")
                => row'[job[v]] = row[job[v]]
<1> USE DEF ExclusiveInv
<1>1. job[v] \in Finding /\ Held(row[job[v]])
  BY DEF Exclusive, Keeps, Holds, TypeInv, WorkersTyped
<1>2. CASE UNCHANGED row
  BY <1>2
<1>3. CASE \E f \in Finding : AddFinding(f)
  <2> PICK f \in Finding : ~Present(f) /\ \E r : Update(f, r)
    BY <1>3 DEF AddFinding, Insert
  <2>1. f # job[v]
    BY <1>1 DEF Held, Present
  <2> QED BY <1>1, <2>1, UpdateOne
<1>4. CASE \E o \in Operator : opPc[o] = "signoff" /\ opJob[o] \in Finding
           /\ \E r : /\ Update(opJob[o], r)
                     /\ r.stage = row[opJob[o]].stage
                     /\ r.attempts = row[opJob[o]].attempts
                     /\ r.container_id = row[opJob[o]].container_id
                     /\ r.state = "done"
  BY <1>1, <1>4, UpdateOne
<1> QED BY <1>2, <1>3, <1>4, NoneWrites

-----------------------------------------------------------------------------
(* The stages in order.  A worker writes the stage after the one it read:  *)
(* the inductive invariant says that the row still is at that stage, and   *)
(* at that attempt, and that a finding in work has attempts left.          *)

Working(w) ==
    pc[w] \in {"stage", "pin", "inpod", "spawn", "child", "advance"}

SnapshotOf(w) ==
    /\ Working(w) => /\ snap[w].stage = row[job[w]].stage
                     /\ snap[w].attempts = row[job[w]].attempts
    /\ Holds(w) => row[job[w]].attempts < MaxAttempts

Snapped == \A w \in Worker : SnapshotOf(w)

SnappedInv == ExclusiveInv /\ QueuedInv /\ Snapped

(* What the worker that acts knows after its step. *)
LEMMA SnappedOwn ==
    ASSUME SnappedInv, NEW w \in Worker, StepOf(w)
    PROVE  SnapshotOf(w)'
<1> USE DEF SnappedInv, ExclusiveInv, Snapped, SnapshotOf, TypeInv,
            WorkersTyped, RowsTyped
<1>1. CASE \E p : Release(w, p) /\ p \in {"poll", "stopped"}
  BY <1>1 DEF Release, Goto, Holds, Working
<1>2. CASE Starts(w) \/ ClaimSelect(w)
  BY <1>2 DEF Starts, StartRun, RequeueRead, ClaimSelect, Goto, Holds, Working
<1>3. CASE ClaimUpdate(w)
  <2>1. job[w] \in Finding /\ row[job[w]] \in Row
    BY <1>3 DEF ClaimUpdate
  <2>2. row[job[w]].attempts < MaxAttempts
    BY <1>3, <2>1 DEF ClaimUpdate, ClaimGuard, QueuedInv, QueuedOk
  <2>3. [row[job[w]] EXCEPT !.state = "running"].attempts
            = row[job[w]].attempts
    BY <2>1 DEF Row
  <2>4. row'[job[w]].attempts = row[job[w]].attempts
    BY <1>3, <2>1, <2>3, UpdateOne DEF ClaimUpdate
  <2> QED BY <1>3, <2>2, <2>4 DEF ClaimUpdate, Goto, Working
<1>4. CASE Fetch(w)
  BY <1>4 DEF Fetch, Goto, Holds, Working, dbVars
<1>5. CASE /\ Working(w) /\ Holds(w) /\ job'[w] = job[w]
           /\ snap'[w].stage = snap[w].stage
           /\ snap'[w].attempts = snap[w].attempts
           /\ row'[job[w]].stage = row[job[w]].stage
           /\ row'[job[w]].attempts = row[job[w]].attempts
  BY <1>5
<1>6. CASE \/ (\E s \in Status : EarlyReturn(w, s)) \/ AttachPod(w)
           \/ PodLost(w) \/ (\E s \in Status : StageReturn(w, s))
           \/ ChildProved(w)
  <2>1. UNCHANGED <<row, job, snap>> /\ Working(w) /\ Holds(w)
    BY <1>6 DEF EarlyReturn, AttachPod, PodLost, StageReturn, ChildProved,
       dbVars, Working, Holds
  <2> QED BY <1>5, <2>1
<1>7. ASSUME NEW p \in Pod, CreatePod(w, p)
      PROVE  SnapshotOf(w)'
  <2>1. UNCHANGED <<row, job>> /\ Working(w) /\ Holds(w) /\ snap[w] \in Row
    BY <1>7 DEF CreatePod, dbVars, Working, Holds
  <2>2. /\ [snap[w] EXCEPT !.container_id = p].stage = snap[w].stage
        /\ [snap[w] EXCEPT !.container_id = p].attempts = snap[w].attempts
    BY <2>1 DEF Row
  <2>3. snap'[w] \in {snap[w], [snap[w] EXCEPT !.container_id = p]}
    BY <1>7 DEF CreatePod
  <2> QED BY <1>5, <2>1, <2>2, <2>3
<1>8. CASE PinPod(w)
  <2>1. /\ UNCHANGED job /\ Working(w) /\ Holds(w)
        /\ job[w] \in Finding /\ row[job[w]] \in Row
        /\ snap'[w].stage = snap[w].stage
        /\ snap'[w].attempts = snap[w].attempts
    BY <1>8, PinCases DEF Working, Holds
  <2>2. row'[job[w]] \in {row[job[w]], [row[job[w]] EXCEPT
                                          !.container_id = snap[w].container_id]}
    BY <1>8, PinCases
  <2>3. CASE row'[job[w]] = row[job[w]]
    BY <1>5, <2>1, <2>3
  <2>4. CASE row'[job[w]] = [row[job[w]] EXCEPT
                               !.container_id = snap[w].container_id]
    <3>1. /\ row'[job[w]].stage = row[job[w]].stage
          /\ row'[job[w]].attempts = row[job[w]].attempts
      BY <2>1, <2>4 DEF Row
    <3> QED BY <1>5, <2>1, <3>1
  <2> QED BY <2>2, <2>3, <2>4
<1>9. CASE (\E c \in Finding : SpawnChild(w, c)) \/ LinkChild(w)
           \/ ChildFails(w)
  <2>1. UNCHANGED <<job, snap>> /\ Working(w) /\ Holds(w) /\ job[w] \in Finding
    BY <1>9 DEF SpawnChild, LinkChild, ChildFails, Working, Holds
  <2>2. Held(row[job[w]])
    BY <2>1 DEF Exclusive, Keeps
  <2>3. CASE \E c \in Finding : SpawnChild(w, c)
    <3> PICK c \in Finding : ~Present(c) /\ \E r : Update(c, r)
      BY <2>3 DEF SpawnChild, Insert
    <3>1. c # job[w]
      BY <2>2 DEF Held, Present
    <3> QED BY <1>5, <2>1, <3>1, UpdateOne
  <2>4. CASE LinkChild(w) \/ ChildFails(w)
    <3>1. kid[w] \in Finding /\ row[kid[w]] \in Row
      BY <2>4 DEF LinkChild, ChildFails
    <3>2. CASE LinkChild(w)
      <4> DEFINE r == [row[kid[w]] EXCEPT
                          !.container_id = snap[w].container_id]
      <4>1. /\ Update(kid[w], r) /\ r.stage = row[kid[w]].stage
            /\ r.attempts = row[kid[w]].attempts
        BY <3>1, <3>2, PinParts DEF LinkChild
      <4> HIDE DEF r
      <4> QED BY <1>5, <2>1, <3>1, <4>1, UpdateOne
    <3>3. CASE ChildFails(w)
      <4> DEFINE r == [row[kid[w]] EXCEPT !.state = "failed",
                                          !.error = "message"]
      <4>1. /\ Update(kid[w], r) /\ r.stage = row[kid[w]].stage
            /\ r.attempts = row[kid[w]].attempts
        BY <3>1, <3>3, FailParts DEF ChildFails
      <4> HIDE DEF r
      <4> QED BY <1>5, <2>1, <3>1, <4>1, UpdateOne
    <3> QED BY <2>4, <3>2, <3>3
  <2> QED BY <1>9, <2>3, <2>4
<1>10. CASE \/ AdvanceOk(w) \/ AdvanceRetry(w) \/ AdvanceBlocked(w)
            \/ AdvanceReject(w) \/ AdvanceFail(w)
  <2>1. Release(w, "poll") \/ Goto(w, "teardown")
    BY <1>10, AdvanceWrites DEF TearDown
  <2> QED BY <1>1, <2>1 DEF Goto, Holds, Working
<1>11. CASE RemovePod(w)
  BY <1>11 DEF RemovePod, Goto, Holds, Working
<1>12. CASE \/ ClearPod(w) \/ QueueEmpty(w) \/ ClaimLost(w) \/ Crash(w)
            \/ \E sig \in Signature, transient \in BOOLEAN :
                  Raise(w, sig, transient)
  BY <1>1, <1>12 DEF ClearPod, QueueEmpty, ClaimLost, Crash, Raise,
     NoContainerId
<1> QED BY <1>2, <1>3, <1>4, <1>6, <1>7, <1>8, <1>9, <1>10, <1>11, <1>12
        DEF StepOf, WorkerStep, NoRewriter, RequeueWrite, Handler, Dispatch

(* Nobody else's step changes what a worker knows. *)
LEMMA SnappedStep ==
    ASSUME Unrewritten, SnappedInv, [Next]_vars
    PROVE  SnappedInv'
<1> USE DEF SnappedInv
<1>1. ExclusiveInv' /\ QueuedInv'
  BY ExclusiveStep, QueuedStep
<1>2. ASSUME NEW v \in Worker, Stays(v),
             Keeps(v) => /\ row'[job[v]].stage = row[job[v]].stage
                         /\ row'[job[v]].attempts = row[job[v]].attempts
      PROVE  SnapshotOf(v)'
  <2>1. Working(v) \/ Holds(v) => Keeps(v)
    BY DEF Working, Holds, Keeps
  <2>2. (Working(v)' <=> Working(v)) /\ (Holds(v)' <=> Holds(v))
    BY <1>2 DEF Working, Holds, Stays
  <2> QED BY <1>2, <2>1, <2>2 DEF Snapped, SnapshotOf, Stays
<1>3. CASE StepOfNone
  BY <1>1, <1>2, <1>3, NobodyMoves, KeptByNone DEF Snapped
<1>4. ASSUME NEW w \in Worker, StepOf(w)
      PROVE  Snapped'
  BY <1>2, <1>4, SnappedOwn, OthersStay, KeptByOthers DEF Snapped, ExclusiveInv
<1> QED BY <1>1, <1>3, <1>4, StepCases

LEMMA SnappedAlways == ASSUME Unrewritten PROVE Spec => []SnappedInv
<1>1. Init => Snapped
  BY DEF Init, Snapped, SnapshotOf, Working, Holds
<1>2. Snapped /\ ExclusiveInv /\ QueuedInv <=> SnappedInv
  BY DEF SnappedInv
<1>3. SnappedInv /\ [Next]_vars => SnappedInv'
  BY SnappedStep
<1> QED BY <1>1, <1>2, <1>3, ExclusiveAlways, QueuedAlways, PTL DEF Spec

(* A stage that answered ok is followed by the next one. *)
LEMMA NextPosition ==
    \A g \in Stage : g # "review" =>
        Position[NextStage[g]] = Position[g] + 1
BY DEF Stage, NextStage, Position

(* What a worker writes moves no finding but its own, and that one by one. *)
LEMMA OrderStep ==
    ASSUME Unrewritten, SnappedInv, [Next]_vars, NEW f \in Finding
    PROVE  StageFollows(f)
<1> USE DEF SnappedInv, ExclusiveInv, TypeInv, WorkersTyped, RowsTyped
<1>1. SUFFICES ASSUME Present(f), row'[f].stage # row[f].stage
               PROVE  Position[row'[f].stage] = Position[row[f].stage] + 1
  BY DEF StageFollows
<1>2. ~StepOfNone
  <2> SUFFICES ASSUME StepOfNone PROVE FALSE
    OBVIOUS
  <2>1. CASE \E g \in Finding : AddFinding(g)
    <3> PICK g \in Finding : ~Present(g) /\ \E r : Update(g, r)
      BY <2>1 DEF AddFinding, Insert
    <3> QED BY <1>1, UpdateOne
  <2>2. CASE \E o \in Operator : \E r :
                /\ opJob[o] \in Finding /\ Update(opJob[o], r)
                /\ r.stage = row[opJob[o]].stage
    BY <1>1, <2>2, UpdateOne
  <2> QED BY <1>1, <2>1, <2>2, NoneWrites
<1>3. PICK w \in Worker : StepOf(w)
  BY <1>2, StepCases
<1>4. f = job[w] /\ Keeps(w)
  <2>1. ~ClaimUpdate(w)
    <3> SUFFICES ASSUME ClaimUpdate(w) PROVE FALSE
      OBVIOUS
    <3>1. job[w] \in Finding /\ row[job[w]] \in Row
      BY DEF ClaimUpdate
    <3>2. [row[job[w]] EXCEPT !.state = "running"].stage = row[job[w]].stage
      BY <3>1 DEF Row
    <3> QED BY <1>1, <3>1, <3>2, UpdateOne DEF ClaimUpdate
  <2>2. \A c \in Finding : \A r : ~Present(c) /\ Update(c, r) => FALSE
    BY <1>1, UpdateOne
  <2>3. \A r : kid[w] \in Finding /\ Update(kid[w], r)
                  /\ r.stage = row[kid[w]].stage => FALSE
    BY <1>1, UpdateOne
  <2> QED BY <1>1, <1>3, <2>1, <2>2, <2>3, WorkerWrites, UpdateOne
<1>5. row[f] \in Row /\ snap[w] \in Row
  OBVIOUS
<1>6. CASE PinPod(w) \/ ClearPod(w)
  <2>0. \/ UNCHANGED row
        \/ \E c \in Pod \cup {NoPod} :
              Update(f, [row[f] EXCEPT !.container_id = c])
    BY <1>4, <1>6, ColumnWrites
  <2>1. PICK c \in Pod \cup {NoPod} :
           Update(f, [row[f] EXCEPT !.container_id = c])
    BY <1>1, <2>0
  <2> DEFINE r == [row[f] EXCEPT !.container_id = c]
  <2>2. r.stage = row[f].stage
    BY <1>5, PinParts
  <2> HIDE DEF r
  <2> QED BY <1>1, <2>1, <2>2, UpdateOne DEF r
<1>7. CASE \E sig \in Signature, transient \in BOOLEAN :
             Raise(w, sig, transient)
  <2>1. PICK s, n, e : Update(f, [row[f] EXCEPT !.state = s, !.attempts = n,
                                                !.error = e])
    BY <1>4, <1>7 DEF Raise, NoContainerId
  <2>2. [row[f] EXCEPT !.state = s, !.attempts = n, !.error = e].stage
            = row[f].stage
    BY <1>5 DEF Row
  <2> QED BY <1>1, <2>1, <2>2, UpdateOne
<1>8. CASE \/ AdvanceOk(w) \/ AdvanceRetry(w) \/ AdvanceBlocked(w)
           \/ AdvanceReject(w) \/ AdvanceFail(w)
  <2>1. PICK r \in Row : /\ pc[w] = "advance" /\ Update(f, r)
                         /\ \/ r.stage = row[f].stage
                            \/ /\ StageOf(w) # "review"
                               /\ r.stage = NextStage[StageOf(w)]
    BY <1>4, <1>8, AdvanceWrites
  <2>2. StageOf(w) = row[f].stage
    BY <1>4, <2>1 DEF Snapped, SnapshotOf, Working, StageOf
  <2>3. row'[f] = r /\ row[f].stage \in Stage
    BY <1>5, <2>1, UpdateOne DEF Row
  <2> QED BY <1>1, <2>1, <2>2, <2>3, NextPosition
<1>9. CASE \/ (\E c \in Finding : SpawnChild(w, c)) \/ LinkChild(w)
           \/ ChildFails(w)
  <2>1. CASE \E c \in Finding : ~Present(c) /\ \E r : Update(c, r)
    BY <1>1, <2>1, UpdateOne
  <2>2. CASE LinkChild(w) \/ ChildFails(w)
    <3> DEFINE l == [row[kid[w]] EXCEPT
                        !.container_id = snap[w].container_id]
               e == [row[kid[w]] EXCEPT !.state = "failed",
                                        !.error = "message"]
    <3>1. kid[w] \in Finding /\ row[kid[w]] \in Row
      BY <2>2 DEF LinkChild, ChildFails
    <3>2. l.stage = row[kid[w]].stage /\ e.stage = row[kid[w]].stage
      BY <3>1, PinParts, FailParts
    <3>3. Update(kid[w], l) \/ Update(kid[w], e)
      BY <2>2 DEF LinkChild, ChildFails
    <3> HIDE DEF l, e
    <3> QED BY <1>1, <3>1, <3>2, <3>3, UpdateOne
  <2> QED BY <1>9, <2>1, <2>2 DEF SpawnChild, Insert
<1>10. CASE UNCHANGED row
  BY <1>1, <1>10
<1>11. CASE ClaimUpdate(w)
  BY <1>4, <1>11 DEF ClaimUpdate, Keeps, Holds
<1>12. CASE \/ Starts(w) \/ Crash(w) \/ ClaimSelect(w) \/ QueueEmpty(w)
            \/ ClaimLost(w) \/ Fetch(w)
            \/ (\E s \in Status : EarlyReturn(w, s))
            \/ AttachPod(w) \/ PodLost(w)
            \/ (\E p \in Pod : CreatePod(w, p))
            \/ (\E s \in Status : StageReturn(w, s))
            \/ ChildProved(w) \/ RemovePod(w)
  BY <1>10, <1>12 DEF Starts, StartRun, RequeueRead, Crash, ClaimSelect, QueueEmpty, ClaimLost,
     Fetch, EarlyReturn, AttachPod, PodLost, CreatePod, StageReturn,
     ChildProved, RemovePod, dbVars
<1> QED BY <1>3, <1>6, <1>7, <1>8, <1>9, <1>11, <1>12
        DEF StepOf, WorkerStep, NoRewriter, RequeueWrite, Handler, Dispatch

(* "A finding advances through these", in order (store.py): whatever       *)
(* workers share the database, crash, raise, spawn children or lose pods,  *)
(* no write of a stage ever skips a stage or falls back -- provided that   *)
(* no human call rewrites a row behind a worker's back.                    *)
THEOREM StagesFollow == ASSUME Unrewritten PROVE Spec => StagesInOrder
<1>1. SnappedInv /\ [Next]_vars => [\A f \in Finding : StageFollows(f)]_vars
  BY OrderStep
<1> QED BY <1>1, SnappedAlways, PTL DEF Spec, StagesInOrder

-----------------------------------------------------------------------------
(* The column container_id.  Four writes touch it: an insert and a         *)
(* tear-down empty it, _pin_container and the linking of a child fill it.  *)

LEMMA InsertedRow ==
    ASSUME NEW f \in Finding, NEW g \in Stage, row \in [Finding -> Row],
           Insert(f, g)
    PROVE  /\ ~Present(f) /\ Present(f)' /\ row'[f].container_id = NoPod
           /\ row'[f].stage = g /\ row'[f].state = "pending"
           /\ row'[f].attempts = 0 /\ row'[f].error = ""
           /\ \A h \in Finding : h # f => row'[h] = row[h]
<1> DEFINE r == [NoRow EXCEPT !.state = "pending", !.stage = g,
                              !.created_at = now + 1]
<1>1. /\ r.state = "pending" /\ r.container_id = NoPod /\ r.stage = g
      /\ r.attempts = 0 /\ r.error = ""
  BY DEF NoRow
<1>2. row'[f] = r /\ \A h \in Finding : h # f => row'[h] = row[h]
  BY DEF Insert, Update
<1>3. ~Present(f)
  BY DEF Insert
<1> HIDE DEF r
<1> QED BY <1>1, <1>2, <1>3 DEF Present

(* A row reset, by a requeue, an unblock or an iteration, keeps its pod.   *)
LEMMA RequeuedRow ==
    ASSUME TypeInv, NEW g \in Worker, pc[g] = "requeue", NEW f \in Finding,
           Update(job[g], [row[job[g]] EXCEPT !.state = "pending",
                                              !.attempts = 0, !.error = ""])
    PROVE  /\ Present(f) => Present(f)'
           /\ row'[f].container_id = row[f].container_id
<1> DEFINE r == [row[job[g]] EXCEPT !.state = "pending", !.attempts = 0,
                                    !.error = ""]
<1>1. job[g] \in Finding /\ row[job[g]] \in Row
  BY DEF TypeInv, WorkersTyped, RowsTyped
<1>2. r.state = "pending" /\ r.container_id = row[job[g]].container_id
  BY <1>1 DEF Row
<1>3. Update(job[g], r)
  OBVIOUS
<1> HIDE DEF r
<1> QED BY <1>1, <1>2, <1>3, UpdateOne DEF Present

(* And so does every row an operator writes. *)
LEMMA OperatorRow ==
    ASSUME TypeInv, NEW o \in Operator, OperatorStep(o), NEW f \in Finding
    PROVE  /\ Present(f) => Present(f)'
           /\ row'[f].container_id = row[f].container_id
<1>1. CASE UnblockRead(o, f) \/ UNCHANGED row
  BY <1>1 DEF UnblockRead, Call, dbVars, Present
<1>2. CASE UnblockWrite(o) \/ SignoffWrite(o) \/ IterateWrite(o)
  <2> DEFINE g == opJob[o]
             u == [row[g] EXCEPT !.state = "pending", !.attempts = 0,
                                 !.error = ""]
             s == [row[g] EXCEPT !.state = "done", !.error = ""]
             i == [row[g] EXCEPT !.state = "pending", !.stage = "patch",
                                 !.attempts = 0, !.error = ""]
  <2>1. g \in Finding /\ row[g] \in Row
    BY <1>2 DEF UnblockWrite, SignoffWrite, IterateWrite, Answer, TypeInv,
       OperatorsTyped, RowsTyped
  <2>2. u.state = "pending" /\ u.container_id = row[g].container_id
    BY <2>1 DEF Row
  <2>3. s.state = "done" /\ s.container_id = row[g].container_id
    BY <2>1 DEF Row
  <2>4. i.state = "pending" /\ i.container_id = row[g].container_id
    BY <2>1 DEF Row
  <2>5. Update(g, u) \/ Update(g, s) \/ Update(g, i)
    BY <1>2 DEF UnblockWrite, SignoffWrite, IterateWrite
  <2> HIDE DEF g, u, s, i
  <2> QED BY <2>1, <2>2, <2>3, <2>4, <2>5, UpdateOne DEF Present
<1> QED BY <1>1, <1>2 DEF OperatorStep, UnblockRead, SignoffRead, IterateRead,
        Call, dbVars

(* What a step of a worker does to the column, and that no row goes away.  *)
LEMMA PodColumn ==
    ASSUME TypeInv, NEW w \in Worker, StepOf(w), NEW f \in Finding
    PROVE  /\ Present(f) => Present(f)'
           /\ \/ row'[f].container_id = row[f].container_id
              \/ ~Present(f) /\ row'[f].container_id = NoPod
              \/ /\ ClearPod(w) /\ f = job[w]
                 /\ row'[f].container_id = NoPod
              \/ /\ PinPod(w) /\ f = job[w]
                 /\ row'[f].container_id = snap[w].container_id
              \/ /\ LinkChild(w) /\ f = kid[w]
                 /\ row'[f].container_id = snap[w].container_id
<1> USE DEF TypeInv, RowsTyped, WorkersTyped
<1>1. CASE UNCHANGED row
  BY <1>1 DEF Present
<1>2. ASSUME NEW g \in Finding, NEW r, Update(g, r), r.state # "absent",
             r.container_id = row[g].container_id
      PROVE  /\ Present(f) => Present(f)'
             /\ row'[f].container_id = row[f].container_id
  BY <1>2, UpdateOne DEF Present
<1>3. CASE ClaimUpdate(w)
  <2> DEFINE r == [row[job[w]] EXCEPT !.state = "running"]
  <2>1. job[w] \in Finding /\ row[job[w]] \in Row
    BY <1>3 DEF ClaimUpdate
  <2>2. r.state = "running" /\ r.container_id = row[job[w]].container_id
    BY <2>1 DEF Row
  <2>3. Update(job[w], r)
    BY <1>3 DEF ClaimUpdate
  <2> HIDE DEF r
  <2> QED BY <1>2, <2>1, <2>2, <2>3
<1>4. ASSUME NEW g \in Finding, NEW c,
             Update(g, [row[g] EXCEPT !.container_id = c])
      PROVE  /\ Present(f) => Present(f)'
             /\ g # f => row'[f].container_id = row[f].container_id
             /\ g = f => row'[f].container_id = c
  <2> DEFINE r == [row[g] EXCEPT !.container_id = c]
  <2>1. r.state = row[g].state /\ r.container_id = c
    BY PinParts
  <2>2. Update(g, r)
    BY <1>4
  <2> HIDE DEF r
  <2> QED BY <2>1, <2>2, UpdateOne DEF Present
<1>5. CASE PinPod(w) \/ ClearPod(w)
  BY <1>1, <1>4, <1>5 DEF PinPod, ClearPod, Unwritten
<1>6. CASE LinkChild(w)
  BY <1>4, <1>6 DEF LinkChild
<1>7. CASE ChildFails(w)
  <2> DEFINE r == [row[kid[w]] EXCEPT !.state = "failed", !.error = "message"]
  <2>1. kid[w] \in Finding /\ row[kid[w]] \in Row
    BY <1>7 DEF ChildFails
  <2>2. r.state = "failed" /\ r.container_id = row[kid[w]].container_id
    BY <2>1, FailParts
  <2>3. Update(kid[w], r)
    BY <1>7 DEF ChildFails
  <2> HIDE DEF r
  <2> QED BY <1>2, <2>1, <2>2, <2>3
<1>8. CASE \E c \in Finding : SpawnChild(w, c)
  <2> PICK c \in Finding : Insert(c, "patch")
    BY <1>8 DEF SpawnChild
  <2>1. /\ ~Present(c) /\ Present(c)' /\ row'[c].container_id = NoPod
        /\ c # f => row'[f] = row[f]
    BY InsertedRow DEF Stage
  <2> QED BY <2>1 DEF Present
<1>9. CASE \/ AdvanceOk(w) \/ AdvanceRetry(w) \/ AdvanceBlocked(w)
           \/ AdvanceReject(w) \/ AdvanceFail(w)
  BY <1>2, <1>9, AdvanceWrites DEF Closed
<1>10. ASSUME NEW sig \in Signature, NEW transient \in BOOLEAN,
              Raise(w, sig, transient)
       PROVE  /\ Present(f) => Present(f)'
              /\ row'[f].container_id = row[f].container_id
  <2> DEFINE s == IF Grant(w, sig, transient) THEN "pending" ELSE "failed"
             r == [row[job[w]] EXCEPT !.state = s,
                       !.attempts = NextAttempt(w), !.error = sig]
  <2>1. job[w] \in Finding /\ row[job[w]] \in Row
    BY <1>10 DEF Raise, NoContainerId
  <2>2. r.state = s /\ r.container_id = row[job[w]].container_id
    BY <2>1 DEF Row
  <2>3. Update(job[w], r)
    BY <1>10 DEF Raise, NoContainerId
  <2> HIDE DEF r
  <2> QED BY <1>2, <2>1, <2>2, <2>3
<1>11. CASE \/ Starts(w) \/ Crash(w) \/ ClaimSelect(w) \/ QueueEmpty(w)
            \/ ClaimLost(w) \/ Fetch(w)
            \/ (\E s \in Status : EarlyReturn(w, s))
            \/ AttachPod(w) \/ PodLost(w)
            \/ (\E p \in Pod : CreatePod(w, p))
            \/ (\E s \in Status : StageReturn(w, s))
            \/ ChildProved(w) \/ RemovePod(w)
  BY <1>1, <1>11 DEF Starts, StartRun, RequeueRead, Crash, ClaimSelect, QueueEmpty, ClaimLost,
     Fetch, EarlyReturn, AttachPod, PodLost, CreatePod, StageReturn,
     ChildProved, RemovePod, dbVars
<1>12. CASE RequeueWrite(w)
  BY <1>12, RequeuedRow DEF RequeueWrite
<1> QED BY <1>3, <1>5, <1>6, <1>7, <1>8, <1>9, <1>10, <1>11, <1>12
        DEF StepOf, WorkerStep, Handler, Dispatch

(* And what happens to it when no worker acts: nothing.                    *)
LEMMA PodColumnNone ==
    ASSUME TypeInv, StepOfNone, NEW f \in Finding
    PROVE  /\ Present(f) => Present(f)'
           /\ \/ row'[f].container_id = row[f].container_id
              \/ ~Present(f) /\ row'[f].container_id = NoPod
<1>1. CASE \E g \in Finding : AddFinding(g)
  <2> PICK c \in Finding : Insert(c, "ingest")
    BY <1>1 DEF AddFinding
  <2>1. /\ ~Present(c) /\ Present(c)' /\ row'[c].container_id = NoPod
        /\ c # f => row'[f] = row[f]
    BY InsertedRow DEF Stage, TypeInv, RowsTyped
  <2> QED BY <2>1 DEF Present
<1>2. CASE \E o \in Operator : OperatorStep(o)
  BY <1>2, OperatorRow
<1>3. CASE (\E p \in Pod : PodDies(p)) \/ UNCHANGED vars
  BY <1>3 DEF PodDies, vars, dbVars, Present
<1> QED BY <1>1, <1>2, <1>3 DEF StepOfNone

-----------------------------------------------------------------------------
(* A pod is never exchanged.  A worker pins a pod only where it knew of    *)
(* none, and a child gets its parent's only once: the inductive invariant  *)
(* follows the row of a pinning stage from the read to the write, and the  *)
(* row of a new child, which is past the stages that pin, to its link.     *)

LateStage == {"patch", "verify", "package", "review"}

PinnerKnows(w) ==
    /\ pc[w] = "pin" => /\ StageOf(w) \in PinningStage
                        /\ row[job[w]].container_id = NoPod
    /\ pc[w] = "stage" /\ StageOf(w) \in PinningStage
           => snap[w].container_id = row[job[w]].container_id

NewKid(w) == pc[w] = "spawn" =>
    /\ Present(kid[w])
    /\ row[kid[w]].container_id = NoPod
    /\ row[kid[w]].stage \in LateStage

KidsApart == \A v, w \in Worker :
    v # w /\ pc[v] = "spawn" /\ pc[w] = "spawn" => kid[v] # kid[w]

PinInv ==
    /\ SnappedInv
    /\ \A w \in Worker : PinnerKnows(w) /\ NewKid(w)
    /\ KidsApart

(* Past the pinning stages there is no way back. *)
LEMMA LateStays ==
    ASSUME Unrewritten, SnappedInv, [Next]_vars, NEW f \in Finding,
           Present(f), row[f].stage \in LateStage
    PROVE  row'[f].stage \in LateStage
<1>1. row'[f] \in Row
  BY TypeStep DEF SnappedInv, ExclusiveInv, TypeInv, RowsTyped
<1>2. \/ row'[f].stage = row[f].stage
      \/ Position[row'[f].stage] = Position[row[f].stage] + 1
  <2>1. ~Iterated(f)
    BY DEF Iterated, SnappedInv, ExclusiveInv, NoRewriter
  <2> QED BY <2>1, OrderStep DEF StageFollows
<1>3. row'[f].stage \in Stage
  BY <1>1 DEF Row
<1> QED BY <1>2, <1>3 DEF LateStage, Stage, Position

(* What the acting worker knows of its own row. *)
LEMMA PinnerOwn ==
    ASSUME PinInv, NEW w \in Worker, StepOf(w)
    PROVE  PinnerKnows(w)'
<1> USE DEF PinInv, SnappedInv, ExclusiveInv, TypeInv, WorkersTyped, RowsTyped
<1>1. CASE pc'[w] \notin {"pin", "stage"}
  BY <1>1 DEF PinnerKnows
<1>2. CASE Fetch(w)
  BY <1>2 DEF Fetch, Goto, PinnerKnows, StageOf, dbVars
<1>3. ASSUME NEW p \in Pod, CreatePod(w, p)
      PROVE  PinnerKnows(w)'
  <2>1. CASE StageOf(w) \in PinningStage
    <3>1. pc[w] = "stage"
      BY <1>3, <2>1 DEF CreatePod, PinningStage
    <3>2. row'[job'[w]].container_id = NoPod
      BY <1>3, <2>1, <3>1 DEF CreatePod, NeedsPod, PinnerKnows, dbVars
    <3>3. /\ snap'[w] = [snap[w] EXCEPT !.container_id = p]
          /\ snap[w] \in Row
      BY <1>3, <2>1 DEF CreatePod
    <3>4. StageOf(w)' = StageOf(w)
      BY <3>3, PinParts DEF StageOf
    <3>5. pc'[w] = "pin"
      BY <1>3, <2>1 DEF CreatePod, Goto
    <3> QED BY <2>1, <3>2, <3>4, <3>5 DEF PinnerKnows
  <2>2. CASE StageOf(w) \notin PinningStage
    BY <1>1, <1>3, <2>2 DEF CreatePod, Goto
  <2> QED BY <2>1, <2>2
<1>4. CASE \/ Starts(w) \/ Crash(w) \/ ClaimSelect(w) \/ QueueEmpty(w)
           \/ ClaimUpdate(w) \/ ClaimLost(w)
  BY <1>1, <1>4 DEF Starts, StartRun, RequeueRead, Crash, ClaimSelect, QueueEmpty, ClaimUpdate,
     ClaimLost, Release, Goto
<1>5. CASE \/ (\E s \in Status : EarlyReturn(w, s)) \/ AttachPod(w)
           \/ PodLost(w) \/ PinPod(w)
           \/ (\E s \in Status : StageReturn(w, s))
           \/ (\E c \in Finding : SpawnChild(w, c)) \/ LinkChild(w)
           \/ ChildProved(w) \/ ChildFails(w)
           \/ (\E sig \in Signature, transient \in BOOLEAN :
                   Raise(w, sig, transient))
  BY <1>1, <1>5 DEF EarlyReturn, AttachPod, PodLost, PinPod, StageReturn,
     SpawnChild, LinkChild, ChildProved, ChildFails, Raise, NoContainerId,
     Release, Goto
<1>6. CASE \/ AdvanceOk(w) \/ AdvanceRetry(w) \/ AdvanceBlocked(w)
           \/ AdvanceReject(w) \/ AdvanceFail(w)
  <2>1. Release(w, "poll") \/ Goto(w, "teardown")
    BY <1>6, AdvanceWrites DEF TearDown
  <2> QED BY <1>1, <2>1 DEF Release, Goto
<1>7. CASE RemovePod(w) \/ ClearPod(w)
  BY <1>1, <1>7 DEF RemovePod, ClearPod, Release, Goto
<1> QED BY <1>2, <1>3, <1>4, <1>5, <1>6, <1>7
        DEF StepOf, WorkerStep, NoRewriter, RequeueWrite, Handler, Dispatch

(* What another worker's step leaves of it. *)
LEMMA PinnerOther ==
    ASSUME PinInv, NEW w \in Worker, StepOf(w), NEW v \in Worker, v # w
    PROVE  PinnerKnows(v)'
<1> USE DEF PinInv, SnappedInv, ExclusiveInv
<1>1. Stays(v)
  BY OthersStay
<1>2. SUFFICES ASSUME pc[v] = "pin" \/ (pc[v] = "stage" /\ StageOf(v) \in PinningStage)
               PROVE  row'[job[v]].container_id = row[job[v]].container_id
  BY <1>1 DEF PinnerKnows, Stays, StageOf
<1>3. Keeps(v) /\ Working(v) /\ job[v] \in Finding /\ StageOf(v) \in PinningStage
  BY <1>2 DEF Keeps, Holds, Working, PinnerKnows, TypeInv, WorkersTyped
<1>4. row[job[v]].stage \in PinningStage
  BY <1>3 DEF Snapped, SnapshotOf, StageOf
<1>5. ~(LinkChild(w) /\ job[v] = kid[w])
  BY <1>4 DEF LinkChild, NewKid, LateStage, PinningStage
<1>6. Keeps(w) => job[v] # job[w]
  BY <1>3 DEF Exclusive, KeepersApart
<1>7. Present(job[v])
  BY <1>3 DEF Exclusive, Held, Present
<1>8. ClearPod(w) \/ PinPod(w) => Keeps(w)
  BY DEF ClearPod, PinPod, Keeps, Holds
<1> QED BY <1>3, <1>5, <1>6, <1>7, <1>8, PodColumn

(* Nothing but a spawn leaves a worker between its two writes. *)
LEMMA OnlySpawnSpawns ==
    ASSUME TypeInv, NoRewriter, NEW w \in Worker, StepOf(w),
           ~\E c \in Finding : SpawnChild(w, c)
    PROVE  pc'[w] # "spawn"
<1> USE DEF TypeInv, WorkersTyped
<1>1. CASE \/ Starts(w) \/ Crash(w) \/ ClaimSelect(w) \/ QueueEmpty(w)
           \/ ClaimUpdate(w) \/ ClaimLost(w) \/ Fetch(w)
  BY <1>1 DEF Starts, StartRun, RequeueRead, Crash, ClaimSelect, QueueEmpty, ClaimUpdate,
     ClaimLost, Fetch, Release, Goto
<1>2. CASE \/ (\E s \in Status : EarlyReturn(w, s)) \/ AttachPod(w)
           \/ PodLost(w) \/ (\E p \in Pod : CreatePod(w, p)) \/ PinPod(w)
           \/ (\E s \in Status : StageReturn(w, s)) \/ LinkChild(w)
           \/ ChildProved(w) \/ ChildFails(w)
           \/ (\E sig \in Signature, transient \in BOOLEAN :
                   Raise(w, sig, transient))
  BY <1>2 DEF EarlyReturn, AttachPod, PodLost, CreatePod, PinPod, StageReturn,
     LinkChild, ChildProved, ChildFails, Raise, NoContainerId, Release, Goto
<1>3. CASE Dispatch(w)
  BY <1>3 DEF Dispatch, AdvanceOk, AdvanceRetry, AdvanceBlocked,
     AdvanceReject, AdvanceFail, RemovePod, ClearPod, Close, TearDown,
     Release, Goto
<1> QED BY <1>1, <1>2, <1>3 DEF StepOf, WorkerStep, NoRewriter, RequeueWrite,
        Handler

(* The children that are not yet linked. *)
LEMMA KidsStep ==
    ASSUME Unrewritten, PinInv, [Next]_vars
    PROVE  (\A w \in Worker : NewKid(w)') /\ KidsApart'
<1> USE DEF PinInv, SnappedInv, ExclusiveInv
<1>1. ASSUME NEW v \in Worker, pc[v] = "spawn", Stays(v),
             row'[kid[v]].container_id = row[kid[v]].container_id
                \/ row'[kid[v]].container_id = NoPod,
             Present(kid[v]) => row'[kid[v]].state # "absent"
      PROVE  NewKid(v)'
  <2>1. kid[v] \in Finding
    BY <1>1 DEF TypeInv, WorkersTyped
  <2>2. row'[kid[v]].stage \in LateStage
    BY <1>1, <2>1, LateStays DEF NewKid
  <2> QED BY <1>1, <2>2 DEF NewKid, Stays, Present
<1>2. CASE StepOfNone
  <2>1. \A v \in Worker : Stays(v)
    BY <1>2, NobodyMoves
  <2>2. ASSUME NEW v \in Worker, pc[v] = "spawn"
        PROVE  NewKid(v)'
    <3> DEFINE c == kid[v]
    <3>1. c \in Finding
      BY <2>2 DEF TypeInv, WorkersTyped
    <3>2. /\ Present(c) => row'[c].state # "absent"
          /\ row'[c].container_id \in {row[c].container_id, NoPod}
      <4> HIDE DEF c
      <4> QED BY <1>2, <3>1, PodColumnNone DEF Present
    <3> QED BY <1>1, <2>1, <2>2, <3>2
  <2> QED BY <2>1, <2>2 DEF NewKid, KidsApart, Stays
<1>3. ASSUME NEW w \in Worker, StepOf(w)
      PROVE  (\A v \in Worker : NewKid(v)') /\ KidsApart'
  <2>1. ASSUME NEW v \in Worker, v # w
        PROVE  NewKid(v)'
    <3>1. Stays(v)
      BY <1>3, <2>1, OthersStay
    <3>2. CASE pc[v] = "spawn"
      <4>1. kid[v] \in Finding /\ Present(kid[v])
        BY <3>2 DEF TypeInv, WorkersTyped, NewKid
      <4>2. ~(LinkChild(w) /\ kid[v] = kid[w])
        BY <2>1, <3>2 DEF KidsApart, LinkChild
      <4>3. ~(PinPod(w) /\ kid[v] = job[w])
        <5>1. PinPod(w) => /\ pc[w] = "pin" /\ StageOf(w) \in PinningStage
                           /\ StageOf(w) = row[job[w]].stage
          BY DEF PinPod, PinnerKnows, Snapped, SnapshotOf, Working, StageOf
        <5> QED BY <3>2, <5>1 DEF NewKid, LateStage, PinningStage
      <4> DEFINE c == kid[v]
      <4>4. /\ Present(c) => row'[c].state # "absent"
            /\ row'[c].container_id \in {row[c].container_id, NoPod}
        <5>1. c \in Finding /\ ~(LinkChild(w) /\ c = kid[w])
              /\ ~(PinPod(w) /\ c = job[w])
          BY <4>1, <4>2, <4>3
        <5> HIDE DEF c
        <5> QED BY <1>3, <5>1, PodColumn DEF Present
      <4> QED BY <1>1, <3>1, <3>2, <4>4
    <3> QED BY <3>1, <3>2 DEF NewKid, Stays
  <2>2. CASE \E c \in Finding : SpawnChild(w, c)
    <3> PICK c \in Finding : SpawnChild(w, c)
      BY <2>2
    <3>1. /\ ~Present(c) /\ Present(c)' /\ row'[c].container_id = NoPod
          /\ row'[c].stage = "patch"
      BY InsertedRow DEF SpawnChild, Stage, TypeInv, RowsTyped
    <3>2. kid'[w] = c
      BY DEF SpawnChild, TypeInv, WorkersTyped
    <3>3. NewKid(w)'
      BY <3>1, <3>2 DEF NewKid, Present, LateStage
    <3>4. \A v \in Worker : v # w /\ pc'[v] = "spawn" => kid'[v] # c
      BY <1>3, <3>1, OthersStay DEF Stays, NewKid
    <3>5. \A v \in Worker : v # w => pc'[v] = pc[v] /\ kid'[v] = kid[v]
      BY <1>3, OthersStay DEF Stays
    <3> QED BY <2>1, <3>2, <3>3, <3>4, <3>5 DEF KidsApart
  <2>3. CASE ~\E c \in Finding : SpawnChild(w, c)
    <3>1. pc'[w] # "spawn"
      BY <1>3, <2>3, OnlySpawnSpawns
    <3>2. \A v \in Worker : v # w => pc'[v] = pc[v] /\ kid'[v] = kid[v]
      BY <1>3, OthersStay DEF Stays
    <3> QED BY <2>1, <3>1, <3>2 DEF KidsApart, NewKid
  <2> QED BY <2>2, <2>3
<1> QED BY <1>2, <1>3, StepCases

LEMMA PinStep ==
    ASSUME Unrewritten, PinInv, [Next]_vars
    PROVE  PinInv'
<1> USE DEF PinInv
<1>1. SnappedInv'
  BY SnappedStep
<1>2. (\A w \in Worker : NewKid(w)') /\ KidsApart'
  BY KidsStep
<1>3. \A v \in Worker : PinnerKnows(v)'
  <2>1. CASE StepOfNone
    <3> TAKE v \in Worker
    <3>1. Stays(v)
      BY <2>1, NobodyMoves
    <3>2. Keeps(v) => row'[job[v]].container_id = row[job[v]].container_id
      BY <2>1, KeptByNone DEF SnappedInv
    <3> QED BY <3>1, <3>2 DEF PinnerKnows, Stays, StageOf, Keeps, Holds
  <2>2. CASE \E w \in Worker : StepOf(w)
    BY <2>2, PinnerOwn, PinnerOther
  <2> QED BY <2>1, <2>2, StepCases
<1> QED BY <1>1, <1>2, <1>3

(* No write exchanges one pod for another. *)
LEMMA SwapStep ==
    ASSUME Unrewritten, PinInv, [Next]_vars, NEW f \in Finding,
           row[f].container_id \in Pod
    PROVE  row'[f].container_id \in {row[f].container_id, NoPod}
<1> USE DEF PinInv, SnappedInv, ExclusiveInv
<1>1. CASE StepOfNone
  BY <1>1, PodColumnNone
<1>2. ASSUME NEW w \in Worker, StepOf(w)
      PROVE  row'[f].container_id \in {row[f].container_id, NoPod}
  <2>1. NoPod \notin Pod
    BY PipelineAssumption
  <2>2. PinPod(w) => row[job[w]].container_id = NoPod
    BY DEF PinPod, PinnerKnows
  <2>3. LinkChild(w) => row[kid[w]].container_id = NoPod
    BY DEF LinkChild, NewKid
  <2> QED BY <1>2, <2>1, <2>2, <2>3, PodColumn
<1> QED BY <1>1, <1>2, StepCases

(* Pod per finding: whatever crashes, raises, loses its pod or spawns      *)
(* children, a row that names a container names that one until it names    *)
(* none ("do NOT create a fresh pod under the same pristine", sandbox.py)  *)
(* -- provided that no human call rewrites a row behind a worker's back.   *)
THEOREM PodStays == ASSUME Unrewritten PROVE Spec => PodNeverSwapped
<1>1. Init => (\A w \in Worker : PinnerKnows(w) /\ NewKid(w)) /\ KidsApart
  BY DEF Init, PinnerKnows, NewKid, KidsApart
<1>2. (\A w \in Worker : PinnerKnows(w) /\ NewKid(w)) /\ KidsApart /\ SnappedInv
         => PinInv
  BY DEF PinInv
<1>3. PinInv /\ [Next]_vars => PinInv'
  BY PinStep
<1>4. PinInv /\ [Next]_vars =>
         [\A f \in Finding : row[f].container_id \in Pod
             => row'[f].container_id \in {row[f].container_id, NoPod}]_vars
  BY SwapStep
<1> QED BY <1>1, <1>2, <1>3, <1>4, SnappedAlways, PTL DEF Spec, PodNeverSwapped

-----------------------------------------------------------------------------
(* Pods of a pipeline without children, as long as no two workers keep one *)
(* finding: what a worker knows of its pod is what the row says, every pod *)
(* that is named was started, and no two rows name the same one.           *)

SyncedPod(w) ==
    /\ pc[w] \in {"stage", "inpod", "advance", "teardown", "clear"}
          => snap[w].container_id = row[job[w]].container_id
    /\ pc[w] = "pin" => /\ row[job[w]].container_id = NoPod
                        /\ snap[w].container_id \in made
    /\ pc[w] \in {"teardown", "clear"} => snap[w].container_id # NoPod

KnownPod(f) ==
    /\ row[f].container_id \in made \cup {NoPod}
    /\ ~Present(f) => row[f].container_id = NoPod

PodsApart ==
    /\ \A f, g \in Finding : f # g /\ row[f].container_id # NoPod
          => row[f].container_id # row[g].container_id
    /\ \A w \in Worker, f \in Finding :
          pc[w] = "pin" => snap[w].container_id # row[f].container_id
    /\ \A v, w \in Worker : v # w /\ pc[v] = "pin" /\ pc[w] = "pin"
          => snap[v].container_id # snap[w].container_id

KeptPresent == \A w \in Worker : Keeps(w) => Present(job[w])

NoSpawner == \A w \in Worker : pc[w] \notin {"spawn", "child"}

PodsInv ==
    /\ TypeInv /\ NoSpawner /\ KeptPresent
    /\ \A w \in Worker : SyncedPod(w)
    /\ \A f \in Finding : KnownPod(f)
    /\ PodsApart

(* Without the read there is no spawn. *)
LEMMA NoSpawnerStep ==
    ASSUME "spawn" \notin Environment, TypeInv, NoSpawner, [Next]_vars
    PROVE  NoSpawner'
<1> USE DEF TypeInv, WorkersTyped, NoSpawner
<1>1. ASSUME NEW w \in Worker, StepOf(w)
      PROVE  pc'[w] \notin {"spawn", "child"}
  <2>1. CASE \/ Starts(w) \/ Crash(w) \/ ClaimSelect(w) \/ QueueEmpty(w)
             \/ ClaimUpdate(w) \/ ClaimLost(w) \/ Fetch(w) \/ RequeueWrite(w)
    BY <2>1 DEF Starts, StartRun, RequeueRead, Crash, ClaimSelect, QueueEmpty,
       ClaimUpdate, ClaimLost, Fetch, RequeueWrite, Release, Goto
  <2>2. CASE Handler(w)
    BY <2>2 DEF Handler, EarlyReturn, AttachPod, PodLost, CreatePod, PinPod,
       StageReturn, SpawnChild, LinkChild, ChildProved, ChildFails, Raise,
       NoContainerId, Release, Goto
  <2>3. CASE Dispatch(w)
    BY <2>3 DEF Dispatch, AdvanceOk, AdvanceRetry, AdvanceBlocked,
       AdvanceReject, AdvanceFail, RemovePod, ClearPod, Close, TearDown,
       Release, Goto
  <2> QED BY <1>1, <2>1, <2>2, <2>3 DEF StepOf, WorkerStep
<1> QED BY <1>1, OthersStay, NobodyMoves, StepCases DEF Stays

(* A finding is kept from its claim on. *)
LEMMA KeptBefore ==
    ASSUME TypeInv, NEW w \in Worker, StepOf(w), Keeps(w)'
    PROVE  job'[w] = job[w] /\ (Keeps(w) \/ ClaimUpdate(w))
<1> USE DEF TypeInv, WorkersTyped, Keeps, Holds
<1>1. CASE \/ Starts(w) \/ Crash(w) \/ ClaimSelect(w) \/ QueueEmpty(w)
           \/ ClaimLost(w) \/ RequeueWrite(w) \/ ClearPod(w)
  BY <1>1 DEF Starts, StartRun, RequeueRead, Crash, ClaimSelect, QueueEmpty,
     ClaimLost, RequeueWrite, ClearPod, Release, Goto
<1>2. CASE ClaimUpdate(w)
  BY <1>2 DEF ClaimUpdate
<1>3. CASE Fetch(w) \/ RemovePod(w)
  BY <1>3 DEF Fetch, RemovePod
<1>4. CASE Handler(w)
  BY <1>4 DEF Handler, EarlyReturn, AttachPod, PodLost, CreatePod, PinPod,
     StageReturn, SpawnChild, LinkChild, ChildProved, ChildFails, Raise,
     NoContainerId, Release, Goto
<1>5. CASE \/ AdvanceOk(w) \/ AdvanceRetry(w) \/ AdvanceBlocked(w)
           \/ AdvanceReject(w) \/ AdvanceFail(w)
  <2>1. pc[w] = "advance" /\ (Release(w, "poll") \/ UNCHANGED job)
    BY <1>5, AdvanceWrites DEF TearDown
  <2> QED BY <2>1 DEF Release, Goto
<1> QED BY <1>1, <1>2, <1>3, <1>4, <1>5 DEF StepOf, WorkerStep, Dispatch

(* No row goes away under whoever keeps it. *)
LEMMA KeptPresentStep ==
    ASSUME TypeInv, KeptPresent, [Next]_vars
    PROVE  KeptPresent'
<1> USE DEF KeptPresent
<1>1. ASSUME NEW f \in Finding, Present(f)
      PROVE  Present(f)'
  BY <1>1, PodColumn, PodColumnNone, StepCases
<1>2. ASSUME NEW v \in Worker, Keeps(v), job'[v] = job[v]
      PROVE  Present(job[v])'
  <2> DEFINE f == job[v]
  <2>1. f \in Finding /\ Present(f)
    BY <1>2 DEF Keeps, Holds, TypeInv, WorkersTyped
  <2>2. row'[f].state # "absent"
    <3> HIDE DEF f
    <3> QED BY <1>1, <2>1 DEF Present
  <2> QED BY <1>2, <2>2 DEF Present
<1>3. ASSUME NEW v \in Worker, Stays(v), Keeps(v)'
      PROVE  Present(job[v])'
  BY <1>2, <1>3 DEF Stays, Keeps, Holds
<1>4. ASSUME NEW w \in Worker, StepOf(w), Keeps(w)'
      PROVE  Present(job[w])'
  <2>1. CASE Keeps(w)
    BY <1>2, <1>4, <2>1, KeptBefore
  <2>2. CASE ClaimUpdate(w)
    <3>1. job[w] \in Finding /\ row[job[w]] \in Row /\ job' = job
      BY <2>2 DEF ClaimUpdate, TypeInv, WorkersTyped, RowsTyped
    <3>2. row'[job[w]] = [row[job[w]] EXCEPT !.state = "running"]
      BY <2>2, <3>1, UpdateOne DEF ClaimUpdate
    <3>3. [row[job[w]] EXCEPT !.state = "running"].state = "running"
      BY <3>1 DEF Row
    <3> QED BY <3>1, <3>2, <3>3 DEF Present
  <2> QED BY <1>4, <2>1, <2>2, KeptBefore
<1>5. CASE StepOfNone
  BY <1>3, <1>5, NobodyMoves
<1>6. ASSUME NEW w \in Worker, StepOf(w)
      PROVE  KeptPresent'
  BY <1>3, <1>4, <1>6, OthersStay
<1> QED BY <1>5, <1>6, StepCases

(* Container ids are handed out once and for all. *)
LEMMA MadeGrows ==
    ASSUME TypeInv, [Next]_vars
    PROVE  made \subseteq made'
<1>1. CASE UNCHANGED made
  BY <1>1
<1>2. ASSUME NEW w \in Worker, WorkerStep(w)
      PROVE  made \subseteq made'
  BY <1>2 DEF WorkerStep, RequeueWrite, ClaimSelect, QueueEmpty, ClaimUpdate,
     ClaimLost, Fetch, Handler, EarlyReturn, AttachPod, PodLost, CreatePod,
     PinPod, StageReturn, SpawnChild, LinkChild, ChildProved, ChildFails,
     Raise, NoContainerId, Dispatch, AdvanceOk, AdvanceRetry, AdvanceBlocked,
     AdvanceReject, AdvanceFail, RemovePod, ClearPod, podVars
<1> QED BY <1>1, <1>2 DEF Next, AddFinding, StartRun, RequeueRead, OperatorStep,
        UnblockRead, UnblockWrite, SignoffRead, SignoffWrite, IterateRead,
        IterateWrite, Call, Answer, Crash, PodDies, vars, podVars

(* The column again, now that no child is linked. *)
LEMMA PodColumnAlone ==
    ASSUME PodsInv, NEW w \in Worker, StepOf(w), NEW f \in Finding
    PROVE  /\ Present(f) => Present(f)'
           /\ \/ row'[f].container_id = row[f].container_id
              \/ /\ ClearPod(w) /\ f = job[w]
                 /\ row'[f].container_id = NoPod
              \/ /\ PinPod(w) /\ f = job[w]
                 /\ row'[f].container_id = snap[w].container_id
BY PodColumn DEF PodsInv, KnownPod, NoSpawner, LinkChild

(* How the acting worker moves, as far as its pod is concerned. *)
LEMMA PodMoves ==
    ASSUME "spawn" \notin Environment, PodsInv, NEW w \in Worker, StepOf(w)
    PROVE  \/ /\ pc'[w] \in {"stopped", "poll", "requeue", "selected", "claimed"}
              /\ UNCHANGED made
           \/ /\ Fetch(w) /\ pc'[w] = "stage" /\ job'[w] = job[w]
              /\ snap'[w] = row[job[w]] /\ UNCHANGED <<row, made>>
           \/ /\ pc[w] \in {"stage", "inpod", "advance"}
              /\ pc'[w] \in {"inpod", "advance", "teardown"}
              /\ pc'[w] = "teardown" => snap[w].container_id # NoPod
              /\ job'[w] = job[w] /\ snap'[w] = snap[w]
              /\ made \subseteq made'
           \/ /\ \E p \in Pod : CreatePod(w, p)
              /\ StageOf(w) \in PinningStage
           \/ PinPod(w)
           \/ RemovePod(w)
<1> USE DEF PodsInv, TypeInv, WorkersTyped
<1>1. CASE \/ Starts(w) \/ Crash(w) \/ ClaimSelect(w) \/ QueueEmpty(w)
           \/ ClaimUpdate(w) \/ ClaimLost(w) \/ RequeueWrite(w)
           \/ ClearPod(w)
  BY <1>1 DEF Starts, StartRun, RequeueRead, Crash, ClaimSelect, QueueEmpty,
     ClaimUpdate, ClaimLost, RequeueWrite, ClearPod, Release, Goto, podVars
<1>2. CASE Fetch(w)
  BY <1>2 DEF Fetch, Goto, dbVars, podVars
<1>3. CASE \/ (\E s \in Status : EarlyReturn(w, s)) \/ AttachPod(w)
           \/ PodLost(w) \/ (\E s \in Status : StageReturn(w, s))
  BY <1>3 DEF EarlyReturn, AttachPod, PodLost, StageReturn, Goto, podVars
<1>4. ASSUME NEW p \in Pod, CreatePod(w, p), StageOf(w) \notin PinningStage
      PROVE  /\ pc[w] \in {"stage", "inpod", "advance"}
             /\ pc'[w] = "inpod" /\ job'[w] = job[w] /\ snap'[w] = snap[w]
             /\ made \subseteq made'
  BY <1>4 DEF CreatePod, Goto
<1>5. CASE \E sig \in Signature, transient \in BOOLEAN :
             Raise(w, sig, transient)
  BY <1>5 DEF Raise, NoContainerId, Release, Goto, podVars
<1>6. CASE \/ AdvanceOk(w) \/ AdvanceRetry(w) \/ AdvanceBlocked(w)
           \/ AdvanceReject(w) \/ AdvanceFail(w)
  <2>1. pc[w] = "advance" /\ (Release(w, "poll") \/ TearDown(w))
    BY <1>6, AdvanceWrites
  <2>2. UNCHANGED made
    BY <1>6 DEF AdvanceOk, AdvanceRetry, AdvanceBlocked, AdvanceReject,
       AdvanceFail, podVars
  <2> QED BY <2>1, <2>2 DEF TearDown, NeedsPod, Release, Goto
<1>7. /\ ~\E c \in Finding : SpawnChild(w, c)
      /\ ~LinkChild(w) /\ ~ChildProved(w) /\ ~ChildFails(w)
  BY DEF NoSpawner, SpawnChild, LinkChild, ChildProved, ChildFails
<1> QED BY <1>1, <1>2, <1>3, <1>4, <1>5, <1>6, <1>7
        DEF StepOf, WorkerStep, Handler, Dispatch

(* What the acting worker knows of its pod afterwards. *)
LEMMA SyncedOwn ==
    ASSUME "spawn" \notin Environment, PodsInv, NEW w \in Worker, StepOf(w)
    PROVE  SyncedPod(w)'
<1> USE DEF PodsInv, TypeInv, WorkersTyped, SyncedPod
<1>1. CASE pc'[w] \in {"stopped", "poll", "requeue", "selected", "claimed"}
  BY <1>1
<1>2. CASE Fetch(w) /\ pc'[w] = "stage" /\ job'[w] = job[w]
           /\ snap'[w] = row[job[w]] /\ UNCHANGED row
  BY <1>2
<1>3. CASE /\ pc[w] \in {"stage", "inpod", "advance"}
           /\ pc'[w] \in {"inpod", "advance", "teardown"}
           /\ pc'[w] = "teardown" => snap[w].container_id # NoPod
           /\ job'[w] = job[w] /\ snap'[w] = snap[w]
  <2>1. job[w] \in Finding
    BY <1>3
  <2>2. row'[job[w]].container_id = row[job[w]].container_id
    BY <1>3, <2>1, PodColumnAlone DEF ClearPod, PinPod
  <2> QED BY <1>3, <2>2
<1>4. ASSUME NEW p \in Pod, CreatePod(w, p), StageOf(w) \in PinningStage
      PROVE  SyncedPod(w)'
  <2>1. /\ pc[w] = "stage" /\ pc'[w] = "pin" /\ p \in made'
        /\ snap[w].container_id = NoPod /\ UNCHANGED <<row, job>>
    BY <1>4 DEF CreatePod, PinningStage, Goto, NeedsPod, dbVars
  <2>2. snap'[w].container_id = p
    <3>1. snap[w] \in Row /\ snap'[w] = [snap[w] EXCEPT !.container_id = p]
      BY <1>4 DEF CreatePod
    <3> QED BY <3>1, PinParts
  <2> QED BY <2>1, <2>2
<1>5. CASE PinPod(w)
  <2>1. pc'[w] = "inpod" /\ UNCHANGED job
    BY <1>5, PinCases
  <2>2. row'[job[w]].container_id = snap'[w].container_id
    BY <1>5, PinCases
  <2> QED BY <2>1, <2>2
<1>6. CASE RemovePod(w)
  BY <1>6 DEF RemovePod, Goto, dbVars
<1> QED BY <1>1, <1>2, <1>3, <1>4, <1>5, <1>6, PodMoves

(* Nobody else's step makes it wrong. *)
LEMMA SyncedOther ==
    ASSUME PodsInv, KeepersApart, NEW w \in Worker, StepOf(w),
           NEW v \in Worker, v # w
    PROVE  SyncedPod(v)'
<1> USE DEF PodsInv
<1>1. Stays(v)
  BY OthersStay
<1>2. made \subseteq made'
  BY MadeGrows DEF StepOf, Starts, Next
<1>3. CASE Keeps(v)
  <2>1. job[v] \in Finding
    BY <1>3 DEF Keeps, Holds, TypeInv, WorkersTyped
  <2>2. ClearPod(w) \/ PinPod(w) => job[v] # job[w]
    BY <1>3 DEF KeepersApart, ClearPod, PinPod, Keeps, Holds
  <2>3. row'[job[v]].container_id = row[job[v]].container_id
    BY <2>1, <2>2, PodColumnAlone
  <2> QED BY <1>1, <1>2, <2>3 DEF SyncedPod, Stays
<1>4. CASE ~Keeps(v)
  BY <1>1, <1>4 DEF SyncedPod, Stays, Keeps, Holds
<1> QED BY <1>3, <1>4

(* A container that was started has an id. *)
LEMMA MadeNotNoPod == PodsTyped => NoPod \notin made
BY PipelineAssumption DEF PodsTyped

(* The ids in the rows and with the workers about to pin one stay apart.   *)
LEMMA PodsApartStep ==
    ASSUME "spawn" \notin Environment, PodsInv, KeepersApart,
           NEW w \in Worker, StepOf(w)
    PROVE  (\A f \in Finding : KnownPod(f)') /\ PodsApart'
<1> USE DEF PodsInv, KnownPod
<1>1. made \subseteq made'
  BY MadeGrows DEF StepOf, Starts, Next
<1>2. \A v \in Worker : v # w => pc'[v] = pc[v] /\ snap'[v] = snap[v]
  BY OthersStay DEF Stays
<1>3. CASE PinPod(w)
  <2>1. /\ pc[w] = "pin" /\ job[w] \in Finding /\ pc'[w] = "inpod"
        /\ Present(job[w])
    BY <1>3, PinCases DEF KeptPresent, Keeps, Holds
  <2>2. snap[w].container_id \in made
    BY <2>1 DEF SyncedPod
  <2>3. CASE \A f \in Finding :
           row'[f].container_id = IF f = job[w] THEN snap[w].container_id
                                                ELSE row[f].container_id
    <3>1. \A f \in Finding : KnownPod(f)'
      BY <1>1, <2>1, <2>2, <2>3, PodColumnAlone DEF Present
    <3>2. PodsApart'
      BY <1>2, <2>1, <2>3 DEF PodsApart
    <3> QED BY <3>1, <3>2
  <2>4. CASE UNCHANGED row
    <3>1. \A f \in Finding : KnownPod(f)'
      BY <1>1, <2>4 DEF Present
    <3>2. PodsApart'
      BY <1>2, <2>1, <2>4 DEF PodsApart
    <3> QED BY <3>1, <3>2
  <2>5. \A c : Update(job[w], c) => \A f \in Finding :
                   f # job[w] => row'[f] = row[f]
    BY UpdateOne
  <2>6. CASE /\ Update(job[w], [row[job[w]] EXCEPT
                                  !.container_id = snap[w].container_id])
             /\ row'[job[w]].container_id = snap[w].container_id
    <3>1. \A f \in Finding : f # job[w] => row'[f] = row[f]
      BY <2>5, <2>6
    <3> QED BY <2>3, <2>6, <3>1
  <2> QED BY <1>3, <2>4, <2>6, PinCases
<1>4. ASSUME ~PinPod(w)
      PROVE  \A f \in Finding :
                row'[f].container_id \in {row[f].container_id, NoPod}
  BY <1>4, PodColumnAlone
<1>5. ASSUME ~PinPod(w)
      PROVE  \A f \in Finding : KnownPod(f)'
  BY <1>1, <1>4, <1>5, PodColumnAlone DEF Present
<1>6. CASE ~PinPod(w) /\ pc'[w] # "pin"
  <2>1. PodsApart'
    <3>1. ASSUME NEW f \in Finding, NEW g \in Finding, f # g,
                 row'[f].container_id # NoPod
          PROVE  row'[f].container_id # row'[g].container_id
      BY <1>4, <1>6, <3>1 DEF PodsApart
    <3>2. ASSUME NEW v \in Worker, NEW f \in Finding, pc'[v] = "pin"
          PROVE  snap'[v].container_id # row'[f].container_id
      <4>1. v # w /\ pc[v] = "pin" /\ snap'[v] = snap[v]
        BY <1>2, <1>6, <3>2
      <4>2. snap[v].container_id # NoPod
        BY <4>1, MadeNotNoPod DEF SyncedPod, TypeInv
      <4> QED BY <1>4, <1>6, <4>1, <4>2 DEF PodsApart
    <3>3. ASSUME NEW v \in Worker, NEW u \in Worker, v # u, pc'[v] = "pin",
                 pc'[u] = "pin"
          PROVE  snap'[v].container_id # snap'[u].container_id
      BY <1>2, <1>6, <3>3 DEF PodsApart
    <3> QED BY <3>1, <3>2, <3>3 DEF PodsApart
  <2> QED BY <1>5, <1>6, <2>1
<1>7. CASE ~PinPod(w) /\ pc'[w] = "pin"
  <2>1. PICK p \in Pod : CreatePod(w, p) /\ StageOf(w) \in PinningStage
    BY <1>7, PodMoves DEF RemovePod, Goto, TypeInv, WorkersTyped
  <2>2. p \notin made /\ UNCHANGED row
    BY <2>1 DEF CreatePod, dbVars
  <2>3. snap'[w].container_id = p
    <3>1. snap[w] \in Row /\ snap'[w] = [snap[w] EXCEPT !.container_id = p]
      BY <2>1 DEF CreatePod, TypeInv, WorkersTyped
    <3> QED BY <3>1, PinParts
  <2>4. \A v \in Worker : v # w /\ pc'[v] = "pin" =>
           pc[v] = "pin" /\ snap'[v] = snap[v] /\ snap[v].container_id \in made
    BY <1>2 DEF SyncedPod
  <2>5. p # NoPod
    BY PipelineAssumption
  <2>6. PodsApart'
    BY <2>2, <2>3, <2>4, <2>5 DEF PodsApart
  <2> QED BY <1>5, <1>7, <2>6
<1> QED BY <1>3, <1>6, <1>7

(* When no worker acts, the column does not change. *)
LEMMA PodsNone ==
    ASSUME PodsInv, StepOfNone
    PROVE  /\ \A f \in Finding : row'[f].container_id = row[f].container_id
           /\ \A w \in Worker : SyncedPod(w)'
           /\ \A f \in Finding : KnownPod(f)'
           /\ PodsApart'
<1> USE DEF PodsInv
<1>1. \A f \in Finding : /\ row'[f].container_id = row[f].container_id
                         /\ Present(f) => Present(f)'
  BY PodColumnNone DEF KnownPod
<1>2. made \subseteq made'
  BY MadeGrows DEF StepOfNone, Next
<1>3. \A w \in Worker : Stays(w)
  BY NobodyMoves
<1>4. ASSUME NEW w \in Worker
      PROVE  SyncedPod(w)'
  <2>1. CASE Keeps(w)
    <3>1. job[w] \in Finding
      BY <2>1 DEF Keeps, Holds, TypeInv, WorkersTyped
    <3> QED BY <1>1, <1>2, <1>3, <3>1 DEF SyncedPod, Stays
  <2>2. CASE ~Keeps(w)
    BY <1>3, <2>2 DEF SyncedPod, Stays, Keeps, Holds
  <2> QED BY <2>1, <2>2
<1>5. \A f \in Finding : KnownPod(f)'
  BY <1>1, <1>2 DEF KnownPod
<1>6. PodsApart'
  BY <1>1, <1>3 DEF PodsApart, Stays
<1> QED BY <1>1, <1>4, <1>5, <1>6

LEMMA PodsStep ==
    ASSUME "spawn" \notin Environment, PodsInv, KeepersApart, [Next]_vars
    PROVE  PodsInv'
<1> USE DEF PodsInv
<1>1. TypeInv' /\ NoSpawner' /\ KeptPresent'
  BY TypeStep, NoSpawnerStep, KeptPresentStep
<1>2. CASE StepOfNone
  BY <1>1, <1>2, PodsNone
<1>3. ASSUME NEW w \in Worker, StepOf(w)
      PROVE  PodsInv'
  BY <1>1, <1>3, SyncedOwn, SyncedOther, PodsApartStep
<1> QED BY <1>2, <1>3, StepCases

(* No two workers keep one finding: because nobody rewrites a row behind   *)
(* their backs, or because there is one worker only.                       *)
KeepersAssured == Unrewritten \/ \A v, w \in Worker : v = w

LEMMA ApartAlways == ASSUME KeepersAssured PROVE Spec => []KeepersApart
<1>1. CASE Unrewritten
  <2>1. ExclusiveInv => KeepersApart
    BY DEF ExclusiveInv, Exclusive
  <2> QED BY <1>1, <2>1, ExclusiveAlways, PTL
<1>2. CASE \A v, w \in Worker : v = w
  <2>1. KeepersApart
    BY <1>2 DEF KeepersApart
  <2> QED BY <2>1, PTL
<1> QED BY <1>1, <1>2 DEF KeepersAssured

LEMMA PodsAlways ==
    ASSUME KeepersAssured, "spawn" \notin Environment
    PROVE  Spec => [](PodsInv /\ KeepersApart)
<1>1. Init => PodsInv
  <2> SUFFICES ASSUME Init PROVE PodsInv
    OBVIOUS
  <2>1. TypeInv
    BY TypeInit
  <2> QED BY <2>1 DEF PodsInv, Init, NoSpawner, KeptPresent, Keeps, Holds,
          SyncedPod, KnownPod, PodsApart, NoRow
<1>2. PodsInv /\ KeepersApart /\ [Next]_vars => PodsInv'
  BY PodsStep
<1> QED BY <1>1, <1>2, ApartAlways, PTL DEF Spec

-----------------------------------------------------------------------------
(* A worker finds the pod its finding names: one that exists, unless a     *)
(* worker has just removed it and is about to say so in the row, or could  *)
(* not say so.                                                             *)

PodAlive(f) ==
    \/ row[f].container_id \in pods \cup {NoPod}
    \/ f \in unwritten
    \/ \E w \in Worker : pc[w] = "clear" /\ job[w] = f

AliveInv ==
    /\ PodsInv /\ KeepersApart
    /\ \A f \in Finding : PodAlive(f)
    /\ \A w \in Worker : pc[w] = "pin" => snap[w].container_id \in pods

(* Only a tear-down removes a container. *)
LEMMA PodsKept ==
    ASSUME "podloss" \notin Environment, [Next]_vars
    PROVE  \/ pods \subseteq pods'
           \/ \E w \in Worker : /\ RemovePod(w)
                               /\ pods' = pods \ {snap[w].container_id}
<1>1. CASE UNCHANGED pods
  BY <1>1
<1>2. ASSUME NEW w \in Worker, WorkerStep(w), ~RemovePod(w)
      PROVE  pods \subseteq pods'
  BY <1>2 DEF WorkerStep, RequeueWrite, ClaimSelect, QueueEmpty, ClaimUpdate,
     ClaimLost, Fetch, Handler, EarlyReturn, AttachPod, PodLost, CreatePod,
     PinPod, StageReturn, SpawnChild, LinkChild, ChildProved, ChildFails,
     Raise, NoContainerId, Dispatch, AdvanceOk, AdvanceRetry, AdvanceBlocked,
     AdvanceReject, AdvanceFail, ClearPod, podVars
<1>3. ASSUME NEW w \in Worker, RemovePod(w)
      PROVE  pods \subseteq pods' \/ pods' = pods \ {snap[w].container_id}
  BY <1>3 DEF RemovePod
<1> QED BY <1>1, <1>2, <1>3 DEF Next, AddFinding, StartRun, RequeueRead,
        OperatorStep, UnblockRead, UnblockWrite, SignoffRead, SignoffWrite,
        IterateRead, IterateWrite, Call, Answer, Crash, PodDies, Happens, vars,
        podVars

(* Out of a tear-down there is one way, and one crash. *)
LEMMA OutOfClear ==
    ASSUME NEW w \in Worker, pc[w] = "clear", StepOf(w)
    PROVE  ClearPod(w) \/ Crash(w)
BY DEF StepOf, Starts, StartRun, RequeueRead, WorkerStep, RequeueWrite,
   ClaimSelect, QueueEmpty, ClaimUpdate, ClaimLost, Fetch, Handler, EarlyReturn,
   AttachPod, PodLost, CreatePod, PinPod, StageReturn, SpawnChild, LinkChild,
   ChildProved, ChildFails, Raise, NoContainerId, Dispatch, AdvanceOk,
   AdvanceRetry, AdvanceBlocked, AdvanceReject, AdvanceFail, Returned, RemovePod

(* The removed container was the one of the row that is torn down. *)
LEMMA AliveRemove ==
    ASSUME AliveInv, NEW w \in Worker, RemovePod(w), StepOf(w),
           pods \subseteq pods' \/ pods' = pods \ {snap[w].container_id}
    PROVE  /\ \A f \in Finding : PodAlive(f)'
           /\ \A v \in Worker : pc'[v] = "pin" => snap'[v].container_id \in pods'
<1> USE DEF AliveInv, PodsInv
<1>1. /\ pc[w] = "teardown" /\ pc'[w] = "clear"
      /\ UNCHANGED <<row, job, snap, unwritten>>
      /\ job[w] \in Finding
      /\ snap[w].container_id = row[job[w]].container_id
      /\ snap[w].container_id # NoPod
  BY DEF RemovePod, Goto, dbVars, opVars, TypeInv, WorkersTyped, SyncedPod
<1>2. \A v \in Worker : v # w => pc'[v] = pc[v]
  BY OthersStay DEF Stays
<1>3. ASSUME NEW f \in Finding
      PROVE  PodAlive(f)'
  <2>1. CASE \E v \in Worker : pc[v] = "clear" /\ job[v] = f
    BY <1>1, <1>2, <2>1 DEF PodAlive
  <2>2. CASE f = job[w]
    BY <1>1, <2>2 DEF PodAlive
  <2>3. CASE row[f].container_id \in pods \cup {NoPod} /\ f # job[w]
    BY <1>1, <2>3 DEF PodAlive, PodsApart
  <2>4. CASE f \in unwritten
    BY <1>1, <2>4 DEF PodAlive
  <2> QED BY <2>1, <2>2, <2>3, <2>4 DEF PodAlive
<1>4. ASSUME NEW v \in Worker, pc'[v] = "pin"
      PROVE  snap'[v].container_id \in pods'
  <2>1. v # w /\ pc[v] = "pin"
    BY <1>1, <1>2, <1>4
  <2> QED BY <1>1, <2>1 DEF PodsApart
<1> QED BY <1>3, <1>4

(* Every other step of a worker leaves the containers alone. *)
LEMMA AliveWorker ==
    ASSUME Environment \cap {"spawn", "crash", "podloss"} = {}, AliveInv,
           NEW w \in Worker, StepOf(w), ~RemovePod(w), pods \subseteq pods'
    PROVE  /\ \A f \in Finding : PodAlive(f)'
           /\ \A v \in Worker : pc'[v] = "pin" => snap'[v].container_id \in pods'
<1> USE DEF AliveInv, PodsInv
<1>1. \A v \in Worker : v # w =>
         pc'[v] = pc[v] /\ job'[v] = job[v] /\ snap'[v] = snap[v]
  BY OthersStay DEF Stays
<1>2. ~Crash(w)
  BY DEF Crash, Happens
<1>3. ASSUME NEW f \in Finding
      PROVE  PodAlive(f)'
  <2>0. unwritten \subseteq unwritten'
    BY UnwrittenGrows DEF StepOf, Starts, Next
  <2>1. CASE ClearPod(w)
    <3>1. job[w] \in Finding
      BY <2>1, ClearCases
    <3>2. row'[job[w]].container_id = NoPod \/ job[w] \in unwritten'
      BY <2>1, ClearCases
    <3>3. f # job[w] => row'[f].container_id = row[f].container_id
      BY <2>1, <3>1, PodColumnAlone DEF ClearPod, PinPod
    <3> QED BY <1>1, <2>0, <3>2, <3>3 DEF PodAlive
  <2>2. CASE ~ClearPod(w)
    <3>1. pc[w] # "clear"
      BY <1>2, <2>2, OutOfClear
    <3>2. row'[f].container_id \in pods' \/
             row'[f].container_id = row[f].container_id
      BY <2>2, PodColumnAlone DEF PinPod
    <3> QED BY <1>1, <2>0, <3>1, <3>2 DEF PodAlive
  <2> QED BY <2>1, <2>2
<1>4. ASSUME NEW v \in Worker, pc'[v] = "pin"
      PROVE  snap'[v].container_id \in pods'
  <2>1. CASE v # w
    BY <1>1, <1>4, <2>1
  <2>2. CASE v = w
    <3>1. PICK p \in Pod : CreatePod(w, p) /\ StageOf(w) \in PinningStage
      <4>1. ~PinPod(w)
        BY <1>4, <2>2 DEF PinPod, Goto, TypeInv, WorkersTyped
      <4> QED BY <1>4, <2>2, <4>1, PodMoves
    <3>2. snap[w] \in Row /\ snap'[w] = [snap[w] EXCEPT !.container_id = p]
      BY <3>1 DEF CreatePod, TypeInv, WorkersTyped
    <3>3. snap'[w].container_id = p
      BY <3>2, PinParts
    <3> QED BY <2>2, <3>1, <3>3 DEF CreatePod
  <2> QED BY <2>1, <2>2
<1> QED BY <1>3, <1>4

LEMMA AliveStep ==
    ASSUME Environment \cap {"spawn", "crash", "podloss"} = {}, AliveInv,
           (PodsInv /\ KeepersApart)', [Next]_vars
    PROVE  AliveInv'
<1>1. CASE \E w \in Worker : StepOf(w)
  <2> PICK w \in Worker : StepOf(w)
    BY <1>1
  <2>1. ASSUME NEW v \in Worker, RemovePod(v)
        PROVE  v = w
    <3>1. pc'[v] # pc[v]
      BY <2>1 DEF RemovePod, Goto, AliveInv, PodsInv, TypeInv, WorkersTyped
    <3> QED BY <3>1, OthersStay DEF Stays, AliveInv, PodsInv
  <2>2. CASE RemovePod(w)
    BY <2>1, <2>2, PodsKept, AliveRemove DEF AliveInv
  <2>3. CASE ~RemovePod(w)
    <3>1. pods \subseteq pods'
      BY <2>1, <2>3, PodsKept
    <3> QED BY <2>3, <3>1, AliveWorker DEF AliveInv
  <2> QED BY <2>2, <2>3
<1>2. CASE StepOfNone
  <2>1. \A v \in Worker : Stays(v)
    BY <1>2, NobodyMoves
  <2>2. \A v \in Worker : ~RemovePod(v)
    BY <2>1 DEF RemovePod, Goto, Stays, AliveInv, PodsInv, TypeInv, WorkersTyped
  <2>3. pods \subseteq pods'
    BY <2>2, PodsKept
  <2>4. \A f \in Finding : row'[f].container_id = row[f].container_id
    BY <1>2, PodsNone DEF AliveInv
  <2>5. unwritten \subseteq unwritten'
    BY UnwrittenGrows
  <2> QED BY <2>1, <2>3, <2>4, <2>5 DEF AliveInv, PodAlive, Stays
<1> QED BY <1>1, <1>2, StepCases

(* When nobody removes containers from outside, no stage is handed a pod   *)
(* that is gone, unless its own finding's column could not be written --   *)
(* with several workers as long as no human call rewrites a row, and for a *)
(* single one through every requeue, unblock, sign-off and iteration.      *)
THEOREM PodIsThere ==
    ASSUME KeepersAssured,
           Environment \cap {"spawn", "crash", "podloss"} = {}
    PROVE  Spec => []AttachFindsPod
<1>1. Init /\ PodsInv /\ KeepersApart => AliveInv
  <2> SUFFICES ASSUME Init, PodsInv, KeepersApart PROVE AliveInv
    OBVIOUS
  <2>1. \A f \in Finding : row[f].container_id = NoPod
    BY DEF Init, NoRow
  <2>2. \A w \in Worker : pc[w] = "stopped"
    BY DEF Init
  <2> QED BY <2>1, <2>2 DEF AliveInv, PodAlive
<1>2. AliveInv /\ (PodsInv /\ KeepersApart)' /\ [Next]_vars => AliveInv'
  BY AliveStep
<1>3. AliveInv => AttachFindsPod
  <2> SUFFICES ASSUME AliveInv, NEW w \in Worker, pc[w] = "stage",
                      job[w] \notin unwritten
               PROVE  snap[w].container_id \in pods \cup {NoPod}
    BY DEF AttachFindsPod
  <2>1. /\ job[w] \in Finding /\ Keeps(w)
        /\ snap[w].container_id = row[job[w]].container_id
    BY DEF AliveInv, PodsInv, SyncedPod, TypeInv, WorkersTyped, Keeps, Holds
  <2>2. \A v \in Worker : pc[v] = "clear" => job[v] # job[w]
    BY <2>1 DEF AliveInv, KeepersApart, Keeps
  <2> QED BY <2>1, <2>2 DEF AliveInv, PodAlive
<1>4. Spec => [](PodsInv /\ KeepersApart)
  <2>1. "spawn" \notin Environment
    OBVIOUS
  <2> QED BY <2>1, PodsAlways
<1> QED BY <1>1, <1>2, <1>3, <1>4, PTL DEF Spec

-----------------------------------------------------------------------------
(* The state of a row in work.  As long as no child is spawned and no      *)
(* human signs off, it is running until the worker's own write, and closed *)
(* while the worker tears down; a sign-off may close it before.            *)

NoSigner == \A o \in Operator : opPc[o] # "signoff"

RunningRow(w) == Holds(w) => row[job[w]].state = "running"

ClosingRow(w) == pc[w] \in {"teardown", "clear"} => row[job[w]].state \in Closed

ClosingInv == ExclusiveInv /\ NoSpawner /\ \A w \in Worker : ClosingRow(w)

RunningInv == ClosingInv /\ NoSigner /\ \A w \in Worker : RunningRow(w)

(* Without the read there is no sign-off. *)
LEMMA NoSignerStep ==
    ASSUME "signoff" \notin Environment, TypeInv, NoSigner, [Next]_vars
    PROVE  NoSigner'
<1> USE DEF TypeInv, OperatorsTyped, NoSigner
<1>1. CASE UNCHANGED opPc
  BY <1>1
<1>2. CASE \E o \in Operator : OperatorStep(o)
  BY <1>2 DEF OperatorStep, UnblockRead, UnblockWrite, SignoffRead,
     SignoffWrite, IterateRead, IterateWrite, Call, Answer, Happens
<1>3. ASSUME NEW w \in Worker, WorkerStep(w)
      PROVE  UNCHANGED opPc
  BY <1>3 DEF WorkerStep, RequeueWrite, ClaimSelect, QueueEmpty, ClaimUpdate,
     ClaimLost, Fetch, Handler, EarlyReturn, AttachPod, PodLost, CreatePod,
     PinPod, StageReturn, SpawnChild, LinkChild, ChildProved, ChildFails,
     Raise, NoContainerId, Dispatch, AdvanceOk, AdvanceRetry, AdvanceBlocked,
     AdvanceReject, AdvanceFail, RemovePod, ClearPod, opVars
<1> QED BY <1>1, <1>2, <1>3 DEF Next, AddFinding, StartRun, RequeueRead, Crash,
        PodDies, vars, opVars

(* What the acting worker makes of the state of its row. *)
LEMMA OwnState ==
    ASSUME "spawn" \notin Environment, ExclusiveInv, NoSpawner,
           NEW w \in Worker, StepOf(w)
    PROVE  /\ Holds(w)' =>
                \/ row'[job'[w]].state = "running"
                \/ /\ Holds(w) /\ job'[w] = job[w]
                   /\ row'[job[w]].state = row[job[w]].state
           /\ pc'[w] \in {"teardown", "clear"} =>
                \/ row'[job'[w]].state \in Closed
                \/ /\ pc[w] = "teardown" /\ job'[w] = job[w]
                   /\ row'[job[w]].state = row[job[w]].state
<1> USE DEF ExclusiveInv, TypeInv, WorkersTyped, RowsTyped
<1>1. CASE \/ Starts(w) \/ Crash(w) \/ ClaimSelect(w) \/ QueueEmpty(w)
           \/ ClaimLost(w) \/ ClearPod(w)
           \/ \E sig \in Signature, transient \in BOOLEAN :
                  Raise(w, sig, transient)
  BY <1>1 DEF Starts, StartRun, RequeueRead, Crash, ClaimSelect, QueueEmpty,
     ClaimLost, ClearPod, Raise, NoContainerId, Release, Goto, Holds
<1>2. CASE ClaimUpdate(w)
  <2>1. job[w] \in Finding /\ row[job[w]] \in Row
    BY <1>2 DEF ClaimUpdate
  <2>2. row'[job[w]] = [row[job[w]] EXCEPT !.state = "running"]
    BY <1>2, <2>1, UpdateOne DEF ClaimUpdate
  <2>3. [row[job[w]] EXCEPT !.state = "running"].state = "running"
    BY <2>1 DEF Row
  <2> QED BY <1>2, <2>2, <2>3 DEF ClaimUpdate, Goto
<1>3. CASE \/ Fetch(w) \/ (\E s \in Status : EarlyReturn(w, s))
           \/ AttachPod(w) \/ PodLost(w)
           \/ (\E p \in Pod : CreatePod(w, p))
           \/ (\E s \in Status : StageReturn(w, s))
  <2>1. UNCHANGED <<row, job>> /\ Holds(w)
    BY <1>3 DEF Fetch, EarlyReturn, AttachPod, PodLost, CreatePod, StageReturn,
       dbVars, Holds
  <2>2. pc'[w] \notin {"teardown", "clear"}
    BY <1>3 DEF Fetch, EarlyReturn, AttachPod, PodLost, CreatePod, StageReturn,
       Goto
  <2> QED BY <2>1, <2>2
<1>4. CASE PinPod(w)
  <2>1. UNCHANGED job /\ Holds(w) /\ pc'[w] = "inpod"
    BY <1>4, PinCases DEF Holds
  <2>2. row'[job[w]].state = row[job[w]].state
    BY <1>4, ColumnWrites
  <2> QED BY <2>1, <2>2
<1>5. CASE \/ AdvanceOk(w) \/ AdvanceRetry(w) \/ AdvanceBlocked(w)
           \/ AdvanceReject(w) \/ AdvanceFail(w)
  <2>1. PICK r \in Row : /\ job[w] \in Finding /\ Update(job[w], r)
                         /\ \/ Release(w, "poll")
                            \/ r.state \in Closed /\ TearDown(w)
    BY <1>5, AdvanceWrites
  <2>2. row'[job[w]] = r
    BY <2>1, UpdateOne
  <2> QED BY <2>1, <2>2 DEF TearDown, Release, Goto, Holds
<1>6. CASE RemovePod(w)
  BY <1>6 DEF RemovePod, Goto, Holds, dbVars
<1>7. /\ ~\E c \in Finding : SpawnChild(w, c)
      /\ ~LinkChild(w) /\ ~ChildProved(w) /\ ~ChildFails(w)
      /\ ~RequeueWrite(w)
  BY DEF NoSpawner, SpawnChild, LinkChild, ChildProved, ChildFails, NoRewriter,
     RequeueWrite
<1> QED BY <1>1, <1>2, <1>3, <1>4, <1>5, <1>6, <1>7
        DEF StepOf, WorkerStep, Handler, Dispatch

LEMMA ClosingStep ==
    ASSUME Unrewritten, "spawn" \notin Environment, ClosingInv, [Next]_vars
    PROVE  ClosingInv'
<1> USE DEF ClosingInv, ClosingRow
<1>1. ExclusiveInv' /\ NoSpawner'
  BY ExclusiveStep, NoSpawnerStep DEF ExclusiveInv
<1>2. CASE StepOfNone
  <2>1. ASSUME NEW v \in Worker, pc[v] \in {"teardown", "clear"}
        PROVE  row'[job[v]].state \in Closed
    BY <1>2, <2>1, KeptByNone DEF Keeps, Closed
  <2> QED BY <1>1, <1>2, <2>1, NobodyMoves DEF Stays
<1>3. ASSUME NEW w \in Worker, StepOf(w)
      PROVE  ClosingInv'
  <2>1. ASSUME NEW v \in Worker, v # w
        PROVE  ClosingRow(v)'
    BY <1>3, <2>1, OthersStay, KeptByOthers
       DEF Stays, Keeps, ExclusiveInv, NoSpawner
  <2>2. ClosingRow(w)'
    BY <1>3, OwnState
  <2> QED BY <1>1, <2>1, <2>2
<1> QED BY <1>2, <1>3, StepCases

LEMMA RunningStep ==
    ASSUME Unrewritten, Environment \cap {"spawn", "signoff"} = {}, RunningInv,
           [Next]_vars
    PROVE  RunningInv'
<1> USE DEF RunningInv, RunningRow
<1>1. ClosingInv' /\ NoSigner'
  BY ClosingStep, NoSignerStep DEF ClosingInv, ExclusiveInv
<1>2. CASE StepOfNone
  <2>1. ASSUME NEW v \in Worker, Holds(v)
        PROVE  row'[job[v]].state = "running"
    BY <1>2, <2>1, KeptByNone DEF Keeps, NoSigner, ClosingInv
  <2> QED BY <1>1, <1>2, <2>1, NobodyMoves DEF Stays, Holds
<1>3. ASSUME NEW w \in Worker, StepOf(w)
      PROVE  RunningInv'
  <2>1. ASSUME NEW v \in Worker, v # w
        PROVE  RunningRow(v)'
    BY <1>3, <2>1, OthersStay, KeptByOthers
       DEF Stays, Keeps, Holds, ClosingInv, ExclusiveInv, NoSpawner
  <2>2. RunningRow(w)'
    BY <1>3, OwnState DEF ClosingInv
  <2> QED BY <1>1, <2>1, <2>2
<1> QED BY <1>2, <1>3, StepCases

LEMMA ClosingAlways ==
    ASSUME Unrewritten, "spawn" \notin Environment
    PROVE  Spec => []ClosingInv
<1>1. Init /\ ExclusiveInv => ClosingInv
  BY DEF Init, ClosingInv, NoSpawner, ClosingRow
<1>2. ClosingInv /\ [Next]_vars => ClosingInv'
  BY ClosingStep
<1> QED BY <1>1, <1>2, ExclusiveAlways, PTL DEF Spec

LEMMA RunningAlways ==
    ASSUME Unrewritten, Environment \cap {"spawn", "signoff"} = {}
    PROVE  Spec => []RunningInv
<1>1. Init /\ ExclusiveInv => RunningInv
  BY DEF Init, RunningInv, ClosingInv, NoSpawner, NoSigner, RunningRow,
     ClosingRow, Holds
<1>2. RunningInv /\ [Next]_vars => RunningInv'
  BY RunningStep
<1> QED BY <1>1, <1>2, ExclusiveAlways, PTL DEF Spec

-----------------------------------------------------------------------------
(* A closed row is torn down: when a worker closes it, it either knows of  *)
(* no pod, as the row does, or goes on to the tear-down.                   *)

ClosedInv == RunningInv /\ PodsInv /\ ClosedPodRemoved

(* A row that keeps its columns keeps its tear-down, or has had it. *)
LEMMA ClosedOwn ==
    ASSUME Environment \cap {"spawn", "crash"} = {}, ClosedInv,
           NEW w \in Worker, StepOf(w), NEW f \in Finding, f = job[w],
           Keeps(w), ~ClaimUpdate(w),
           row'[f].state \in Closed, row'[f].error \notin Signature,
           ~TearingDown(f)', f \notin unwritten'
    PROVE  row'[f].container_id = NoPod
<1> USE DEF ClosedInv, PodsInv, TypeInv, WorkersTyped, RowsTyped
<1>1. row[f] \in Row
  OBVIOUS
<1>2. CASE ClearPod(w)
  BY <1>2, ClearCases
<1>3. CASE /\ Holds(w) /\ row'[f].state = row[f].state
  <2>1. row[f].state = "running"
    BY <1>3 DEF RunningInv, RunningRow
  <2> QED BY <1>3, <2>1 DEF Closed
<1>4. CASE PinPod(w)
  <2>1. row'[f].state = row[f].state
    BY <1>4, ColumnWrites
  <2> QED BY <1>3, <1>4, <2>1 DEF PinPod, Holds
<1>5. CASE UNCHANGED row /\ Holds(w)
  BY <1>3, <1>5
<1>6. CASE \/ Fetch(w) \/ (\E s \in Status : EarlyReturn(w, s))
           \/ AttachPod(w) \/ PodLost(w)
           \/ (\E p \in Pod : CreatePod(w, p))
           \/ (\E s \in Status : StageReturn(w, s))
  BY <1>5, <1>6 DEF Fetch, EarlyReturn, AttachPod, PodLost, CreatePod,
     StageReturn, dbVars, Holds
<1>7. ASSUME NEW sig \in Signature, NEW transient \in BOOLEAN,
             Raise(w, sig, transient)
      PROVE  FALSE
  <2> DEFINE s == IF Grant(w, sig, transient) THEN "pending" ELSE "failed"
             r == [row[f] EXCEPT !.state = s, !.attempts = NextAttempt(w),
                                 !.error = sig]
  <2>1. r.error = sig
    BY <1>1 DEF Row
  <2>2. Update(f, r)
    BY <1>7 DEF Raise, NoContainerId
  <2> HIDE DEF r
  <2> QED BY <2>1, <2>2, UpdateOne
<1>8. CASE \/ AdvanceOk(w) \/ AdvanceRetry(w) \/ AdvanceBlocked(w)
           \/ AdvanceReject(w) \/ AdvanceFail(w)
  <2>1. PICK r \in Row : /\ pc[w] = "advance" /\ Update(f, r)
                         /\ r.container_id = row[f].container_id
                         /\ \/ r.state \in {"pending", "blocked"}
                            \/ r.state \in Closed /\ TearDown(w)
    BY <1>8, AdvanceWrites
  <2>2. row'[f] = r /\ TearDown(w)
    BY <2>1, UpdateOne DEF Closed
  <2>3. snap[w].container_id = row[f].container_id
    BY <2>1 DEF SyncedPod
  <2>4. ~(Goto(w, "teardown") /\ UNCHANGED job)
    BY DEF TearingDown, Goto
  <2> QED BY <2>1, <2>2, <2>3, <2>4 DEF TearDown, NeedsPod
<1>9. ~RemovePod(w)
  <2> SUFFICES ASSUME RemovePod(w) PROVE FALSE
    OBVIOUS
  <2>1. pc'[w] = "clear" /\ job'[w] = f
    BY DEF RemovePod, Goto
  <2> QED BY <2>1 DEF TearingDown
<1>10. /\ ~Starts(w) /\ ~ClaimSelect(w) /\ ~QueueEmpty(w) /\ ~ClaimLost(w)
       /\ ~Crash(w) /\ ~RequeueWrite(w)
  BY DEF Keeps, Holds, Starts, StartRun, RequeueRead, ClaimSelect, QueueEmpty,
     ClaimLost, Crash, Happens, RequeueWrite
<1>11. /\ ~\E c \in Finding : SpawnChild(w, c)
       /\ ~LinkChild(w) /\ ~ChildProved(w) /\ ~ChildFails(w)
  BY DEF NoSpawner, SpawnChild, LinkChild, ChildProved, ChildFails
<1> QED BY <1>2, <1>4, <1>6, <1>7, <1>8, <1>9, <1>10, <1>11
        DEF StepOf, WorkerStep, Handler, Dispatch

(* Everybody else leaves a closed row, and its tear-down, alone. *)
LEMMA ClosedStep ==
    ASSUME Environment \cap {"spawn", "crash"} = {}, ClosedInv, [Next]_vars
    PROVE  ClosedPodRemoved'
<1> USE DEF ClosedInv, RunningInv, ClosingInv, ExclusiveInv
<1>1. SUFFICES ASSUME NEW f \in Finding, row'[f].state \in Closed,
                      row'[f].error \notin Signature, ~TearingDown(f)',
                      f \notin unwritten'
               PROVE  row'[f].container_id = NoPod
  BY DEF ClosedPodRemoved, TearingDown
<1>0. f \notin unwritten
  BY <1>1, UnwrittenGrows
<1>2. ASSUME row'[f] = row[f],
             \A v \in Worker : pc[v] \in {"teardown", "clear"} /\ job[v] = f
                => pc'[v] = pc[v] /\ job'[v] = job[v]
      PROVE  row'[f].container_id = NoPod
  BY <1>0, <1>1, <1>2 DEF ClosedPodRemoved, TearingDown
<1>3. CASE StepOfNone
  <2>1. CASE UNCHANGED row
    BY <1>2, <1>3, <2>1, NobodyMoves DEF Stays
  <2>2. CASE \E g \in Finding : AddFinding(g)
    <3> PICK g \in Finding : Insert(g, "ingest")
      BY <2>2 DEF AddFinding
    <3>1. row'[g].state = "pending" /\ (f # g => row'[f] = row[f])
      BY InsertedRow DEF Stage, TypeInv, RowsTyped
    <3> QED BY <1>1, <1>2, <1>3, <3>1, NobodyMoves DEF Stays, Closed
  <2> QED BY <1>3, <2>1, <2>2, NoneWrites DEF NoSigner
<1>4. ASSUME NEW w \in Worker, StepOf(w)
      PROVE  row'[f].container_id = NoPod
  <2>1. \A v \in Worker : v # w => pc'[v] = pc[v] /\ job'[v] = job[v]
    BY <1>4, OthersStay DEF Stays
  <2>2. CASE f = job[w] /\ Keeps(w)
    <3>1. ~ClaimUpdate(w)
      BY <2>2 DEF ClaimUpdate, Keeps, Holds
    <3> QED BY <1>1, <1>4, <2>2, <3>1, ClosedOwn
  <2>3. CASE ~(f = job[w] /\ Keeps(w))
    <3>1. row'[f] = row[f] \/ (ClaimUpdate(w) /\ f = job[w])
      BY <1>4, <2>3, WorkerWrites, UpdateOne DEF NoSpawner
    <3>2. CASE row'[f] = row[f]
      BY <1>2, <2>1, <2>3, <3>2 DEF Keeps
    <3>3. CASE ClaimUpdate(w) /\ f = job[w]
      <4>1. row[f] \in Row
        BY DEF TypeInv, RowsTyped
      <4>2. row'[f] = [row[f] EXCEPT !.state = "running"]
        BY <3>3, UpdateOne DEF ClaimUpdate
      <4>3. row'[f].state = "running"
        BY <4>1, <4>2 DEF Row
      <4> QED BY <1>1, <4>3 DEF Closed
    <3> QED BY <3>1, <3>2, <3>3
  <2> QED BY <2>2, <2>3
<1> QED BY <1>3, <1>4, StepCases

(* "Runs on DONE / REJECTED / FAILED" (runner.py): a row that a result has *)
(* closed names no pod once its tear-down is over, whether or not podman   *)
(* managed to remove the container, with any number of workers, retries,   *)
(* exceptions and lost pods, and whichever other rows could not be         *)
(* written -- as long as its own column could, no process dies, no child   *)
(* shares a pod, and no human call writes to the row.                      *)
THEOREM ClosedRowsTornDown ==
    ASSUME Environment \subseteq {"raise", "podloss", "rmfail", "dbfail"}
    PROVE  Spec => []ClosedPodRemoved
<1>1. /\ Unrewritten /\ Environment \cap {"spawn", "crash"} = {}
      /\ Environment \cap {"spawn", "signoff"} = {}
      /\ "spawn" \notin Environment
  BY DEF Unrewritten
<1>2. Init => ClosedPodRemoved
  <2> SUFFICES ASSUME Init PROVE ClosedPodRemoved
    OBVIOUS
  <2>1. \A f \in Finding : row[f].container_id = NoPod
    BY DEF Init, NoRow
  <2> QED BY <2>1 DEF ClosedPodRemoved
<1>3. Spec => []RunningInv
  BY <1>1, RunningAlways
<1>4. Spec => [](PodsInv /\ KeepersApart)
  BY <1>1, PodsAlways DEF KeepersAssured
<1>5. RunningInv /\ PodsInv /\ ClosedPodRemoved /\ [Next]_vars
         => ClosedPodRemoved'
  BY <1>1, ClosedStep DEF ClosedInv
<1> QED BY <1>2, <1>3, <1>4, <1>5, PTL DEF Spec

-----------------------------------------------------------------------------
(* Every container is accounted for.  None is started that no row will     *)
(* name, because a finding has a pod by the time it leaves reproduce, and  *)
(* keeps it until it is closed; none is forgotten, because the column is   *)
(* emptied only after the container is gone.  A finding whose column could *)
(* not be written may go on without one, and have containers that no row   *)
(* names: the container still has it as its owner.                         *)

EarnedPod(f) ==
    row[f].stage \in LateStage /\ row[f].container_id = NoPod
        => row[f].state \in Closed \/ f \in unwritten

HasPod(w) ==
    /\ row[job[w]].stage \in LateStage => row[job[w]].container_id # NoPod
    /\ pc[w] = "inpod" => snap[w].container_id # NoPod
    /\ pc[w] = "advance" /\ res[w] = "ok" /\ StageOf(w) = "reproduce"
          => snap[w].container_id # NoPod

WorkerPod(w) ==
    /\ Holds(w) /\ job[w] \notin unwritten => HasPod(w)
    /\ pc[w] = "clear" => snap[w].container_id \notin pods
    /\ pc[w] = "pin" => owner[snap[w].container_id] = job[w]

AccountInv ==
    /\ SnappedInv /\ ClosingInv /\ PodsInv
    /\ \A f \in Finding : EarnedPod(f)
    /\ \A w \in Worker : WorkerPod(w)
    /\ PodAccounted

(* Containers appear under new ids. *)
LEMMA PodsGrow ==
    ASSUME [Next]_vars
    PROVE  /\ StepOfNone => pods' \subseteq pods
           /\ \A w \in Worker : StepOf(w) =>
                 \/ pods' \subseteq pods
                 \/ \E p \in Pod : /\ CreatePod(w, p)
                                  /\ pods' = pods \cup {p}
<1>1. StepOfNone => pods' \subseteq pods
  BY DEF StepOfNone, AddFinding, OperatorStep, UnblockRead, UnblockWrite,
     SignoffRead, SignoffWrite, IterateRead, IterateWrite, Call, Answer,
     PodDies, vars, podVars
<1>2. ASSUME NEW w \in Worker, StepOf(w), ~\E p \in Pod : CreatePod(w, p)
      PROVE  pods' \subseteq pods
  BY <1>2 DEF StepOf, Starts, StartRun, RequeueRead, WorkerStep, RequeueWrite,
     ClaimSelect, QueueEmpty, ClaimUpdate, ClaimLost, Fetch, Handler,
     EarlyReturn, AttachPod, PodLost, PinPod, StageReturn, SpawnChild,
     LinkChild, ChildProved, ChildFails, Raise, NoContainerId, Dispatch,
     AdvanceOk, AdvanceRetry, AdvanceBlocked, AdvanceReject, AdvanceFail,
     RemovePod, ClearPod, Crash, podVars
<1>3. \A w \in Worker, p \in Pod : CreatePod(w, p) => pods' = pods \cup {p}
  BY DEF CreatePod
<1> QED BY <1>1, <1>2, <1>3

(* A container keeps the owner it was started for. *)
LEMMA OwnersStay ==
    ASSUME [Next]_vars, TypeInv, NEW p \in made
    PROVE  owner'[p] = owner[p]
<1>1. CASE UNCHANGED owner
  BY <1>1
<1>2. ASSUME NEW w \in Worker, NEW c \in Pod, CreatePod(w, c)
      PROVE  owner'[p] = owner[p]
  BY <1>2 DEF CreatePod, TypeInv, PodsTyped
<1>3. ASSUME NEW w \in Worker, WorkerStep(w), ~\E c \in Pod : CreatePod(w, c)
      PROVE  UNCHANGED owner
  BY <1>3 DEF WorkerStep, RequeueWrite, ClaimSelect, QueueEmpty, ClaimUpdate,
     ClaimLost, Fetch, Handler, EarlyReturn, AttachPod, PodLost, PinPod,
     StageReturn, SpawnChild, LinkChild, ChildProved, ChildFails, Raise,
     NoContainerId, Dispatch, AdvanceOk, AdvanceRetry, AdvanceBlocked,
     AdvanceReject, AdvanceFail, RemovePod, ClearPod, podVars
<1> QED BY <1>1, <1>2, <1>3 DEF Next, AddFinding, StartRun, RequeueRead,
        OperatorStep, UnblockRead, UnblockWrite, SignoffRead, SignoffWrite,
        IterateRead, IterateWrite, Call, Answer, Crash, PodDies, vars, podVars

(* A pod is created only where it will be pinned, as long as no write of   *)
(* that finding's column has failed.                                       *)
LEMMA CreatedIsPinned ==
    ASSUME AccountInv, NEW w \in Worker, NEW p \in Pod, CreatePod(w, p),
           job[w] \notin unwritten
    PROVE  StageOf(w) \in PinningStage /\ pc[w] = "stage"
<1> USE DEF AccountInv, PodsInv
<1>1. snap[w].container_id = NoPod /\ StageOf(w) \in PodStage
  BY DEF CreatePod, NeedsPod
<1>2. pc[w] = "stage"
  BY <1>1 DEF CreatePod, WorkerPod, HasPod, Holds
<1>3. /\ row[job[w]].stage = StageOf(w)
      /\ row[job[w]].container_id = NoPod
  BY <1>1, <1>2 DEF SyncedPod, SnappedInv, Snapped, SnapshotOf, Working, StageOf
<1>4. StageOf(w) \notin LateStage
  BY <1>2, <1>3 DEF WorkerPod, HasPod, Holds
<1> QED BY <1>1, <1>2, <1>4 DEF PodStage, PinningStage, LateStage

(* What the acting worker has afterwards. *)
LEMMA WorkerPodOwn ==
    ASSUME Environment \cap {"spawn", "rmfail"} = {}, AccountInv,
           [Next]_vars, NEW w \in Worker, StepOf(w)
    PROVE  WorkerPod(w)'
<1> USE DEF AccountInv, PodsInv, TypeInv, WorkersTyped, RowsTyped
<1>a. NoPod \notin made /\ pods \subseteq made
  BY MadeNotNoPod DEF PodsTyped
<1>b. unwritten \subseteq unwritten'
  BY UnwrittenGrows
<1>1. CASE \/ Starts(w) \/ Crash(w) \/ ClaimSelect(w) \/ QueueEmpty(w)
           \/ ClaimLost(w) \/ ClearPod(w)
           \/ \E sig \in Signature, transient \in BOOLEAN :
                  Raise(w, sig, transient)
  BY <1>1 DEF Starts, StartRun, RequeueRead, Crash, ClaimSelect, QueueEmpty,
     ClaimLost, ClearPod, Raise, NoContainerId, Release, Goto, Holds, WorkerPod
<1>2. CASE ClaimUpdate(w)
  <2>1. /\ job[w] \in Finding /\ row[job[w]] \in Row
        /\ row[job[w]].state = "pending" /\ UNCHANGED job
        /\ pc'[w] = "claimed"
    BY <1>2 DEF ClaimUpdate, ClaimGuard, Goto
  <2>2. row'[job[w]] = [row[job[w]] EXCEPT !.state = "running"]
    BY <1>2, <2>1, UpdateOne DEF ClaimUpdate
  <2>3. /\ row'[job[w]].stage = row[job[w]].stage
        /\ row'[job[w]].container_id = row[job[w]].container_id
    BY <2>1, <2>2 DEF Row
  <2> QED BY <1>b, <2>1, <2>3 DEF EarnedPod, WorkerPod, HasPod, Closed
<1>3. CASE Fetch(w)
  BY <1>b, <1>3 DEF Fetch, Goto, Holds, WorkerPod, HasPod, dbVars
<1>4. ASSUME UNCHANGED <<row, job>>, Holds(w), pc'[w] \notin {"clear", "pin"},
             job[w] \notin unwritten'
                => (pc'[w] = "inpod" => snap'[w].container_id # NoPod),
             job[w] \notin unwritten'
                => (pc'[w] = "advance" => (res'[w] = "ok" =>
                      (StageOf(w)' = "reproduce"
                         => snap'[w].container_id # NoPod)))
      PROVE  WorkerPod(w)'
  <2>1. job[w] \notin unwritten' => HasPod(w)'
    BY <1>b, <1>4 DEF WorkerPod, HasPod
  <2> QED BY <1>4, <2>1 DEF WorkerPod
<1>5. ASSUME NEW s \in Status, EarlyReturn(w, s)
      PROVE  WorkerPod(w)'
  <2>1. s = "ok" => StageOf(w) # "reproduce"
    BY <1>5 DEF EarlyReturn, EarlyStatus, ReproduceEarly
  <2> QED BY <1>4, <1>5, <2>1 DEF EarlyReturn, Goto, Holds, StageOf, dbVars
<1>6. CASE AttachPod(w)
  BY <1>a, <1>4, <1>6 DEF AttachPod, Goto, Holds, dbVars
<1>7. CASE PodLost(w)
  BY <1>4, <1>7 DEF PodLost, Goto, Holds, dbVars
<1>8. ASSUME NEW p \in Pod, CreatePod(w, p)
      PROVE  WorkerPod(w)'
  <2>1. UNCHANGED <<row, job>> /\ Holds(w)
    BY <1>8 DEF CreatePod, Holds, dbVars
  <2>2. CASE StageOf(w) \in PinningStage
    <3>1. pc'[w] = "pin" /\ snap'[w] = [snap[w] EXCEPT !.container_id = p]
      BY <1>8, <2>2 DEF CreatePod, Goto
    <3>2. snap'[w].container_id = p
      BY <3>1, PinParts
    <3>3. owner'[p] = job[w]
      BY <1>8 DEF CreatePod, PodsTyped
    <3>4. job[w] \notin unwritten' => HasPod(w)'
      BY <1>b, <2>1, <3>1 DEF WorkerPod, HasPod
    <3> QED BY <2>1, <3>1, <3>2, <3>3, <3>4 DEF WorkerPod
  <2>3. CASE StageOf(w) \notin PinningStage
    <3>1. job[w] \in unwritten' /\ pc'[w] = "inpod"
      BY <1>b, <1>8, <2>3, CreatedIsPinned DEF CreatePod, Goto
    <3> QED BY <1>4, <2>1, <3>1
  <2> QED BY <2>2, <2>3
<1>9. CASE PinPod(w)
  <2>1. /\ pc'[w] = "inpod" /\ UNCHANGED job
        /\ snap[w].container_id \in made
    BY <1>9, PinCases DEF SyncedPod
  <2>2. \/ /\ row'[job[w]].container_id = snap[w].container_id
           /\ snap'[w].container_id = snap[w].container_id
        \/ job[w] \in unwritten'
    BY <1>9, PinCases
  <2> QED BY <1>a, <2>1, <2>2 DEF WorkerPod, HasPod
<1>10. CASE \E s \in Status : StageReturn(w, s)
  <2>1. /\ UNCHANGED <<row, job, snap>> /\ Holds(w) /\ pc'[w] = "advance"
        /\ job[w] \notin unwritten => snap[w].container_id # NoPod
    BY <1>10 DEF StageReturn, Goto, Holds, WorkerPod, HasPod
  <2> QED BY <1>b, <1>4, <2>1
<1>11. CASE \/ AdvanceOk(w) \/ AdvanceRetry(w) \/ AdvanceBlocked(w)
            \/ AdvanceReject(w) \/ AdvanceFail(w)
  <2>1. Release(w, "poll") \/ Goto(w, "teardown")
    BY <1>11, AdvanceWrites DEF TearDown
  <2> QED BY <2>1 DEF Release, Goto, Holds, WorkerPod
<1>12. CASE RemovePod(w)
  <2>1. pods' = pods \ {snap[w].container_id}
    BY <1>12 DEF RemovePod, Happens
  <2> QED BY <1>12, <2>1 DEF RemovePod, Goto, Holds, WorkerPod
<1>13. /\ ~\E c \in Finding : SpawnChild(w, c)
       /\ ~LinkChild(w) /\ ~ChildProved(w) /\ ~ChildFails(w)
       /\ ~RequeueWrite(w)
  BY DEF NoSpawner, SpawnChild, LinkChild, ChildProved, ChildFails, NoRewriter,
     RequeueWrite, ClosingInv, ExclusiveInv
<1> QED BY <1>1, <1>2, <1>3, <1>5, <1>6, <1>7, <1>8, <1>9, <1>10, <1>11, <1>12,
        <1>13 DEF StepOf, WorkerStep, Handler, Dispatch

(* What the others have: their rows stand, and a container that is new has *)
(* an id that no tear-down knows.                                          *)
LEMMA WorkerPodOther ==
    ASSUME AccountInv, [Next]_vars, NEW w \in Worker, StepOf(w),
           NEW v \in Worker, v # w
    PROVE  WorkerPod(v)'
<1> USE DEF AccountInv, SnappedInv, PodsInv
<1>1. Stays(v)
  BY OthersStay
<1>2. Keeps(v) => row'[job[v]] = row[job[v]]
  BY KeptByOthers DEF NoSpawner
<1>3. pc[v] = "clear" => snap[v].container_id \notin pods'
  <2> SUFFICES ASSUME pc[v] = "clear" PROVE snap[v].container_id \notin pods'
    OBVIOUS
  <2>1. snap[v].container_id \in made \ pods
    BY DEF SyncedPod, KnownPod, WorkerPod, TypeInv, WorkersTyped
  <2> QED BY <2>1, PodsGrow DEF CreatePod
<1>4. pc[v] = "pin" => owner'[snap[v].container_id] = job[v]
  <2> SUFFICES ASSUME pc[v] = "pin"
               PROVE  owner'[snap[v].container_id] = job[v]
    OBVIOUS
  <2>1. snap[v].container_id \in made /\ owner[snap[v].container_id] = job[v]
    BY DEF SyncedPod, WorkerPod
  <2> QED BY <2>1, OwnersStay
<1>5. WorkerPod(v) /\ unwritten \subseteq unwritten'
  BY UnwrittenGrows
<1>6. Holds(v) /\ job[v] \notin unwritten' => HasPod(v)'
  BY <1>1, <1>2, <1>5 DEF WorkerPod, HasPod, Stays, Holds, Keeps, StageOf
<1> QED BY <1>1, <1>3, <1>4, <1>5, <1>6 DEF WorkerPod, Stays, Holds, Keeps

(* The row of the acting worker. *)
LEMMA EarnedOwn ==
    ASSUME AccountInv, [Next]_vars, NEW w \in Worker, StepOf(w), Keeps(w),
           NEW f \in Finding, f = job[w]
    PROVE  EarnedPod(f)'
<1> USE DEF AccountInv, SnappedInv, PodsInv, TypeInv, WorkersTyped, RowsTyped
<1>a. row[f] \in Row /\ snap[w] \in Row /\ EarnedPod(f)
  OBVIOUS
<1>b. unwritten \subseteq unwritten'
  BY UnwrittenGrows
<1>1. CASE UNCHANGED row
  BY <1>a, <1>b, <1>1 DEF EarnedPod
<1>2. CASE PinPod(w)
  <2>1. snap[w].container_id \in made /\ NoPod \notin made
    BY <1>2, MadeNotNoPod, PinCases DEF SyncedPod
  <2>2. \/ row'[f].container_id = snap[w].container_id
        \/ f \in unwritten'
    BY <1>2, PinCases
  <2> QED BY <2>1, <2>2 DEF EarnedPod
<1>3. CASE ClearPod(w)
  <2>1. row[f].state \in Closed
    BY <1>3, ClearCases DEF ClosingInv, ClosingRow
  <2>2. row'[f].state = row[f].state
    BY <1>3, ColumnWrites
  <2> QED BY <2>1, <2>2 DEF EarnedPod
<1>4. CASE \E sig \in Signature, transient \in BOOLEAN :
              Raise(w, sig, transient)
  <2>1. PICK s, n, e : Update(f, [row[f] EXCEPT !.state = s, !.attempts = n,
                                                !.error = e])
    BY <1>4 DEF Raise, NoContainerId
  <2>2. Holds(w)
    BY <1>4 DEF Raise, NoContainerId, Holds
  <2> DEFINE r == [row[f] EXCEPT !.state = s, !.attempts = n, !.error = e]
  <2>3. r.stage = row[f].stage /\ r.container_id = row[f].container_id
    BY <1>a DEF Row
  <2>4. row'[f] = r
    BY <1>a, <2>1, UpdateOne
  <2> HIDE DEF r
  <2> QED BY <1>b, <2>2, <2>3, <2>4 DEF EarnedPod, WorkerPod, HasPod
<1>5. CASE \/ AdvanceOk(w) \/ AdvanceRetry(w) \/ AdvanceBlocked(w)
           \/ AdvanceReject(w) \/ AdvanceFail(w)
  <2>1. PICK r \in Row :
           /\ pc[w] = "advance" /\ Update(f, r)
           /\ r.container_id = row[f].container_id
           /\ \/ r.stage = row[f].stage
              \/ r.stage = NextStage[StageOf(w)] /\ res[w] = "ok"
                 /\ StageOf(w) # "review"
    BY <1>5, AdvanceWrites
  <2>2. /\ StageOf(w) = row[f].stage
        /\ snap[w].container_id = row[f].container_id
        /\ Holds(w)
    BY <2>1 DEF Snapped, SnapshotOf, Working, StageOf, SyncedPod, Holds
  <2>3. row'[f] = r
    BY <1>a, <2>1, UpdateOne
  <2>4. f \notin unwritten =>
           /\ row[f].stage \in LateStage => row[f].container_id # NoPod
           /\ res[w] = "ok" /\ row[f].stage = "reproduce"
                 => row[f].container_id # NoPod
    BY <2>1, <2>2 DEF WorkerPod, HasPod
  <2>5. row[f].stage \in Stage \ (LateStage \cup {"reproduce"})
           => NextStage[row[f].stage] \notin LateStage
    BY DEF Stage, LateStage, NextStage
  <2>6. row[f].stage \in Stage
    BY <1>a DEF Row
  <2> QED BY <1>b, <2>1, <2>2, <2>3, <2>4, <2>5, <2>6 DEF EarnedPod
<1>6. CASE \/ Starts(w) \/ Crash(w) \/ ClaimSelect(w) \/ QueueEmpty(w)
           \/ ClaimLost(w) \/ Fetch(w)
           \/ (\E s \in Status : EarlyReturn(w, s))
           \/ AttachPod(w) \/ PodLost(w)
           \/ (\E p \in Pod : CreatePod(w, p))
           \/ (\E s \in Status : StageReturn(w, s))
           \/ ChildProved(w) \/ RemovePod(w)
  BY <1>1, <1>6 DEF Starts, StartRun, RequeueRead, Crash, ClaimSelect,
     QueueEmpty, ClaimLost, Fetch, EarlyReturn, AttachPod, PodLost, CreatePod,
     StageReturn, ChildProved, RemovePod, dbVars
<1>7. /\ ~ClaimUpdate(w) /\ ~RequeueWrite(w) /\ ~LinkChild(w)
      /\ ~ChildFails(w)
  BY DEF ClaimUpdate, Keeps, Holds, ExclusiveInv, NoRewriter, RequeueWrite,
     NoSpawner, LinkChild, ChildFails
<1>8. CASE \E c \in Finding : SpawnChild(w, c)
  <2> PICK c \in Finding : ~Present(c) /\ \E r : Update(c, r)
    BY <1>8 DEF SpawnChild, Insert
  <2>1. c # f
    BY DEF KeptPresent
  <2>2. row'[f] = row[f]
    BY <1>a, <2>1, UpdateOne
  <2> QED BY <1>a, <1>b, <2>2 DEF EarnedPod
<1> QED BY <1>2, <1>3, <1>4, <1>5, <1>6, <1>7, <1>8
        DEF StepOf, WorkerStep, Handler, Dispatch

(* Every row past reproduce keeps a pod until it is closed. *)
LEMMA EarnedStep ==
    ASSUME "spawn" \notin Environment, AccountInv, [Next]_vars,
           NEW f \in Finding
    PROVE  EarnedPod(f)'
<1> USE DEF AccountInv, SnappedInv, ExclusiveInv, PodsInv
<1>0. unwritten \subseteq unwritten'
  BY UnwrittenGrows
<1>1. CASE row'[f] = row[f]
  BY <1>0, <1>1 DEF EarnedPod
<1>2. ASSUME NEW r, row'[f] = r, r.stage = row[f].stage,
             r.container_id = row[f].container_id,
             r.state \in {row[f].state, "done"} \/ row[f].state \notin Closed
      PROVE  EarnedPod(f)'
  BY <1>0, <1>2 DEF EarnedPod, Closed
<1>3. CASE StepOfNone
  <2>1. CASE \E g \in Finding : AddFinding(g)
    <3> PICK g \in Finding : Insert(g, "ingest")
      BY <2>1 DEF AddFinding
    <3>1. row'[g].stage = "ingest" /\ (f # g => row'[f] = row[f])
      BY InsertedRow DEF Stage, TypeInv, RowsTyped
    <3> QED BY <1>1, <3>1 DEF EarnedPod, LateStage
  <2>2. CASE \E o \in Operator : opJob[o] \in Finding
           /\ \E r : /\ Update(opJob[o], r)
                     /\ r.stage = row[opJob[o]].stage
                     /\ r.container_id = row[opJob[o]].container_id
                     /\ r.state = "done"
    BY <1>1, <1>2, <2>2, UpdateOne
  <2> QED BY <1>1, <1>3, <2>1, <2>2, NoneWrites
<1>4. ASSUME NEW w \in Worker, StepOf(w)
      PROVE  EarnedPod(f)'
  <2>1. CASE Keeps(w) /\ f = job[w]
    BY <1>4, <2>1, EarnedOwn
  <2>2. CASE ClaimUpdate(w) /\ f = job[w]
    <3>1. row[f] \in Row /\ row[f].state = "pending"
      BY <2>2 DEF ClaimUpdate, ClaimGuard, TypeInv, RowsTyped
    <3> DEFINE r == [row[f] EXCEPT !.state = "running"]
    <3>2. r.stage = row[f].stage /\ r.container_id = row[f].container_id
      BY <3>1 DEF Row
    <3>3. row'[f] = r
      BY <2>2, UpdateOne DEF ClaimUpdate
    <3> HIDE DEF r
    <3> QED BY <1>2, <3>1, <3>2, <3>3 DEF Closed
  <2>3. CASE ~(Keeps(w) /\ f = job[w]) /\ ~(ClaimUpdate(w) /\ f = job[w])
    BY <1>1, <1>4, <2>3, WorkerWrites, UpdateOne DEF NoSpawner
  <2> QED BY <2>1, <2>2, <2>3
<1> QED BY <1>3, <1>4, StepCases

(* Out of the pin there is only one way. *)
LEMMA OutOfPin ==
    ASSUME NEW w \in Worker, pc[w] = "pin", StepOf(w)
    PROVE  PinPod(w) \/ Crash(w)
BY DEF StepOf, Starts, StartRun, RequeueRead, WorkerStep, RequeueWrite,
   ClaimSelect, QueueEmpty, ClaimUpdate, ClaimLost, Fetch, Handler, EarlyReturn,
   AttachPod, PodLost, CreatePod, StageReturn, SpawnChild, LinkChild,
   ChildProved, ChildFails, Raise, NoContainerId, Dispatch, AdvanceOk,
   AdvanceRetry, AdvanceBlocked, AdvanceReject, AdvanceFail, Returned,
   RemovePod, ClearPod

(* No step loses a container, and the one it starts is about to be pinned. *)
LEMMA AccountedWorker ==
    ASSUME Environment \cap {"spawn", "crash", "rmfail"} = {}, AccountInv,
           [Next]_vars, NEW w \in Worker, StepOf(w), NEW p \in pods'
    PROVE  \/ owner'[p] \in unwritten'
           \/ \E f \in Finding : row'[f].container_id = p
           \/ \E v \in Worker : pc'[v] = "pin" /\ snap'[v].container_id = p
<1> USE DEF AccountInv, SnappedInv, PodsInv, TypeInv, WorkersTyped
<1>0. ~Crash(w)
  BY DEF Crash, Happens
<1>1. NoPod \notin pods
  BY MadeNotNoPod DEF PodsTyped
<1>2. CASE p \notin pods
  <2> PICK c \in Pod : CreatePod(w, c) /\ pods' = pods \cup {c}
    BY <1>2, PodsGrow
  <2>0. CASE job[w] \in unwritten
    <3>1. c = p /\ owner'[p] = job[w]
      BY <1>2 DEF CreatePod, PodsTyped
    <3> QED BY <2>0, <3>1, UnwrittenGrows
  <2> SUFFICES ASSUME job[w] \notin unwritten
               PROVE  \E v \in Worker :
                         pc'[v] = "pin" /\ snap'[v].container_id = p
    BY <2>0
  <2>1. c = p /\ StageOf(w) \in PinningStage /\ snap[w] \in Row
    BY <1>2, CreatedIsPinned
  <2>2. /\ snap' = [snap EXCEPT ![w].container_id = p]
        /\ pc' = [pc EXCEPT ![w] = "pin"]
    BY <2>1 DEF CreatePod, Goto
  <2>3. snap'[w].container_id = p
    BY <2>1, <2>2, PinParts
  <2> QED BY <2>2, <2>3
<1>3. ASSUME p \in pods, NEW f \in Finding, row[f].container_id = p
      PROVE  row'[f].container_id = p
  <2>1. ~(ClearPod(w) /\ f = job[w])
    BY <1>3 DEF ClearPod, SyncedPod, WorkerPod
  <2>2. ~(PinPod(w) /\ f = job[w])
    BY <1>1, <1>3 DEF PinPod, SyncedPod
  <2> QED BY <1>3, <2>1, <2>2, PodColumnAlone
<1>4. ASSUME NEW v \in Worker, pc[v] = "pin", snap[v].container_id = p
      PROVE  \/ owner'[p] \in unwritten'
             \/ \E f \in Finding : row'[f].container_id = p
             \/ pc'[v] = "pin" /\ snap'[v].container_id = p
  <2>1. CASE v # w
    BY <1>4, <2>1, OthersStay DEF Stays
  <2>2. CASE v = w
    <3>1. PinPod(w)
      BY <1>0, <1>4, <2>2, OutOfPin
    <3>2. CASE row'[job[w]].container_id = p
      BY <3>1, <3>2, PinCases
    <3>3. CASE unwritten' = unwritten \cup {job[w]}
      <4>1. owner'[p] = owner[p]
        BY <3>1, PinCases DEF podVars
      <4> QED BY <1>4, <2>2, <3>3, <4>1 DEF WorkerPod
    <3> QED BY <1>4, <2>2, <3>1, <3>2, <3>3, PinCases
  <2> QED BY <2>1, <2>2
<1>5. ASSUME p \in pods, owner[p] \in unwritten
      PROVE  owner'[p] \in unwritten'
  BY <1>5, OwnersStay, UnwrittenGrows DEF PodsTyped
<1> QED BY <1>2, <1>3, <1>4, <1>5 DEF PodAccounted

LEMMA AccountStep ==
    ASSUME Unrewritten, Environment \cap {"spawn", "crash", "rmfail"} = {},
           AccountInv, [Next]_vars, (SnappedInv /\ ClosingInv /\ PodsInv)'
    PROVE  AccountInv'
<1> USE DEF AccountInv, SnappedInv, ExclusiveInv, PodsInv
<1>1. \A f \in Finding : EarnedPod(f)'
  BY EarnedStep
<1>2. CASE StepOfNone
  <2>1. pods' \subseteq pods
    BY <1>2, PodsGrow
  <2>2. \A f \in Finding : row'[f].container_id = row[f].container_id
    BY <1>2, PodsNone
  <2>3. ASSUME NEW w \in Worker PROVE WorkerPod(w)'
    <3>1. Stays(w)
      BY <1>2, NobodyMoves
    <3>2. Keeps(w) => /\ row'[job[w]].stage = row[job[w]].stage
                      /\ row'[job[w]].container_id = row[job[w]].container_id
      BY <1>2, KeptByNone
    <3>3. WorkerPod(w) /\ unwritten \subseteq unwritten'
      BY UnwrittenGrows
    <3>4. Holds(w) /\ job[w] \notin unwritten' => HasPod(w)'
      BY <3>1, <3>2, <3>3 DEF WorkerPod, HasPod, Stays, Holds, Keeps, StageOf
    <3>5. pc[w] = "pin" => owner'[snap[w].container_id] = job[w]
      BY OwnersStay DEF SyncedPod, WorkerPod
    <3> QED BY <2>1, <3>1, <3>3, <3>4, <3>5
            DEF WorkerPod, Stays, Holds, Keeps, StageOf
  <2>4. \A p \in pods : owner'[p] = owner[p]
    BY OwnersStay DEF TypeInv, PodsTyped
  <2>5. PodAccounted'
    BY <1>2, <2>1, <2>2, <2>4, NobodyMoves, UnwrittenGrows
       DEF PodAccounted, Stays
  <2> QED BY <1>1, <2>3, <2>5
<1>3. ASSUME NEW w \in Worker, StepOf(w) PROVE AccountInv'
  <2>1. \A v \in Worker : WorkerPod(v)'
    BY <1>3, WorkerPodOwn, WorkerPodOther
  <2>2. PodAccounted'
    BY <1>3, AccountedWorker DEF PodAccounted
  <2> QED BY <1>1, <2>1, <2>2
<1> QED BY <1>2, <1>3, StepCases

(* _pin_container and _teardown_pod leave no container behind: whatever    *)
(* workers share the database, and whatever their stages return or raise,  *)
(* each container that runs is named by a row, or by the worker that is    *)
(* about to pin it, or belongs to a finding whose column could not be      *)
(* written -- as long as no process dies, no removal fails, no child       *)
(* shares a pod, and no human call but a sign-off writes to a row.         *)
THEOREM PodsAreAccounted ==
    ASSUME Environment \subseteq {"raise", "podloss", "signoff", "dbfail"}
    PROVE  Spec => []PodAccounted
<1>1. /\ Unrewritten /\ Environment \cap {"spawn", "crash", "rmfail"} = {}
      /\ "spawn" \notin Environment
  BY DEF Unrewritten
<1>2. Init /\ SnappedInv /\ ClosingInv /\ PodsInv => AccountInv
  <2> SUFFICES ASSUME Init, SnappedInv, ClosingInv, PodsInv PROVE AccountInv
    OBVIOUS
  <2>1. \A f \in Finding : row[f].stage = "ingest"
    BY DEF Init, NoRow
  <2>2. /\ \A w \in Worker : pc[w] = "stopped"
        /\ pods = {}
    BY DEF Init
  <2> QED BY <2>1, <2>2 DEF AccountInv, EarnedPod, LateStage, WorkerPod, Holds,
          PodAccounted
<1>3. AccountInv /\ (SnappedInv /\ ClosingInv /\ PodsInv)' /\ [Next]_vars
         => AccountInv'
  BY <1>1, AccountStep
<1>4. AccountInv => PodAccounted
  BY DEF AccountInv
<1>5. Spec => [](PodsInv /\ KeepersApart)
  BY <1>1, PodsAlways DEF KeepersAssured
<1>6. Spec => []SnappedInv
  BY <1>1, SnappedAlways
<1>7. Spec => []ClosingInv
  BY <1>1, ClosingAlways
<1> QED BY <1>2, <1>3, <1>4, <1>5, <1>6, <1>7, PTL DEF Spec

-----------------------------------------------------------------------------
(* The store and the runner implement the work queue.  The mapping chooses *)
(* the holder of a finding, which is sound because there is at most one;   *)
(* a step of the pipeline then submits, takes, puts back, parks or         *)
(* finishes one finding, or is invisible to the queue.                     *)

Holding(w, f) == Holds(w) /\ job[w] = f

(* What the mapping sees of a row has not changed. *)
SamePlace(f) ==
    /\ row'[f].state = row[f].state
    /\ row'[f].stage = row[f].stage
    /\ row'[f].attempts = row[f].attempts

SameHolders(f) == \A v \in Worker : Holding(v, f)' <=> Holding(v, f)

(* A finding that is not there yet has not come anywhere. *)
Blank(f) == ~Present(f) => row[f].stage = "ingest" /\ row[f].attempts = 0

QueueInv ==
    /\ SnappedInv /\ RunningInv /\ KeptPresent
    /\ \A f \in Finding : Blank(f)

(* The holder is the one that holds, before a step ... *)
LEMMA HolderIs ==
    ASSUME KeepersApart, NEW f \in Finding
    PROVE  /\ HolderOf(f) \in Worker \cup {NoWorker}
           /\ \A w \in Worker : HolderOf(f) = w <=> Holding(w, f)
<1>1. \A v, w \in Worker : Holding(v, f) /\ Holding(w, f) => v = w
  BY DEF KeepersApart, Keeps, Holding
<1>2. CASE \E w \in Worker : Holding(w, f)
  BY <1>1, <1>2 DEF HolderOf, Holding
<1>3. CASE ~\E w \in Worker : Holding(w, f)
  BY <1>3, QueueAssumption DEF HolderOf, Holding
<1> QED BY <1>2, <1>3

(* ... and after it. *)
LEMMA HolderIsNext ==
    ASSUME KeepersApart', NEW f \in Finding
    PROVE  /\ HolderOf(f)' \in Worker \cup {NoWorker}
           /\ \A w \in Worker : HolderOf(f)' = w <=> Holding(w, f)'
<1>1. \A v, w \in Worker : Holding(v, f)' /\ Holding(w, f)' => v = w
  BY DEF KeepersApart, Keeps, Holding
<1>2. CASE \E w \in Worker : Holding(w, f)'
  BY <1>1, <1>2 DEF HolderOf, Holding
<1>3. CASE ~\E w \in Worker : Holding(w, f)'
  BY <1>3, QueueAssumption DEF HolderOf, Holding
<1> QED BY <1>2, <1>3

LEMMA HolderStays ==
    ASSUME KeepersApart, KeepersApart', NEW f \in Finding, SameHolders(f)
    PROVE  HolderOf(f)' = HolderOf(f)
BY HolderIs, HolderIsNext, QueueAssumption DEF SameHolders

LEMMA PlaceSeen ==
    ASSUME NEW f \in Finding, SamePlace(f)
    PROVE  QueuePhase(f)' = QueuePhase(f) /\ Progress(f)' = Progress(f)
BY DEF SamePlace, QueuePhase, Progress

(* What the queue sees of a step that moves nothing: nothing. *)
LEMMA QueueStutters ==
    ASSUME KeepersApart, KeepersApart',
           \A f \in Finding : SamePlace(f) /\ SameHolders(f)
    PROVE  UNCHANGED Queue!vars
BY HolderStays, PlaceSeen DEF Queue!vars

(* The stage after this one is further than every attempt at this one. *)
LEMMA StageOutweighs ==
    ASSUME NEW p \in Nat, NEW m \in Nat, NEW a \in Nat, a < m
    PROVE  (p + 1) * (m + 1) + 0 > p * (m + 1) + a
<1>1. p * (m + 1) \in Nat
  OBVIOUS
<1>2. (p + 1) * (m + 1) = p * (m + 1) + (m + 1)
  OBVIOUS
<1> QED BY <1>1, <1>2

LEMMA PositionTyped == \A g \in Stage : Position[g] \in Nat
BY DEF Position, Stage

(* Letting go of a finding is letting go of the job, whatever becomes of   *)
(* its row.                                                                *)
LEMMA QueueLetsGo ==
    ASSUME KeepersApart, KeepersApart', NEW w \in Worker, NEW f \in Finding,
           Holding(w, f), ~Holds(w)',
           \A v \in Worker : v # w => Stays(v),
           \A g \in Finding : g # f => SamePlace(g),
           NEW p, QueuePhase(f)' = p
    PROVE  Queue!LetGo(w, f, p)
<1>1. HolderOf(f) = w
  BY HolderIs
<1>2. ASSUME NEW v \in Worker, NEW g \in Finding
      PROVE  Holding(v, g)' <=> Holding(v, g) /\ v # w
  <2>1. CASE v = w
    BY <2>1 DEF Holding
  <2>2. CASE v # w
    BY <2>2 DEF Stays, Holding, Holds
  <2> QED BY <2>1, <2>2
<1>3. HolderOf(f)' = NoWorker
  <2>1. ASSUME NEW v \in Worker PROVE ~Holding(v, f)'
    BY <1>2 DEF Holding, KeepersApart, Keeps
  <2> QED BY <2>1, HolderIsNext
<1>4. \A g \in Finding : g # f => HolderOf(g)' = HolderOf(g)
  BY <1>2, HolderStays DEF SameHolders, Holding
<1>5. \A g \in Finding : g # f => /\ QueuePhase(g)' = QueuePhase(g)
                                  /\ Progress(g)' = Progress(g)
  BY PlaceSeen
<1> QED BY <1>1, <1>3, <1>4, <1>5 DEF Queue!LetGo

(* What the rows a worker lets go of look like to the queue: queued with   *)
(* more progress, parked with the same, or closed with no less.            *)
LEMMA ResultSeen ==
    ASSUME QueueInv, NEW w \in Worker, Holds(w), NEW f \in Finding,
           f = job[w], NEW r, row'[f] = r,
           \/ /\ r.state = "pending" /\ r.attempts = 0
              /\ row[f].stage # "review"
              /\ r.stage = NextStage[row[f].stage]
           \/ /\ r.state = "pending" /\ r.attempts = row[f].attempts + 1
              /\ r.stage = row[f].stage
           \/ /\ r.state = "blocked" /\ r.attempts = row[f].attempts
              /\ r.stage = row[f].stage
           \/ /\ r.state \in Closed /\ r.stage = row[f].stage
              /\ r.attempts \in {row[f].attempts, row[f].attempts + 1}
    PROVE  \/ QueuePhase(f)' = "queued" /\ Progress(f)' > Progress(f)
           \/ QueuePhase(f)' = "parked" /\ Progress(f)' = Progress(f)
           \/ QueuePhase(f)' = "closed" /\ Progress(f)' >= Progress(f)
<1> DEFINE p == Position[row[f].stage]
           a == row[f].attempts
<1>1. /\ p \in Nat /\ a \in Nat /\ a < MaxAttempts /\ MaxAttempts \in Nat
      /\ row[f].stage \in Stage
  BY PositionTyped, PipelineAssumption DEF QueueInv, SnappedInv, Snapped,
     SnapshotOf, ExclusiveInv, TypeInv, RowsTyped, Row
<1>2. Progress(f) = p * (MaxAttempts + 1) + a
  BY DEF Progress
<1>3. Progress(f)' = Position[r.stage] * (MaxAttempts + 1) + r.attempts
  BY DEF Progress
<1>4. /\ r.state = "pending" => QueuePhase(f)' = "queued"
      /\ r.state = "blocked" => QueuePhase(f)' = "parked"
      /\ r.state \in Closed => QueuePhase(f)' = "closed"
  BY DEF QueuePhase, Closed
<1> HIDE DEF p, a
<1>5. p * (MaxAttempts + 1) \in Nat
  BY <1>1
<1>6. CASE /\ r.state = "pending" /\ r.attempts = 0
           /\ row[f].stage # "review"
           /\ r.stage = NextStage[row[f].stage]
  <2>1. Position[r.stage] = p + 1
    BY <1>1, <1>6, NextPosition DEF p
  <2>2. (p + 1) * (MaxAttempts + 1) + 0 > p * (MaxAttempts + 1) + a
    BY <1>1, StageOutweighs
  <2>3. Progress(f)' = (p + 1) * (MaxAttempts + 1) + 0
    BY <1>3, <1>6, <2>1
  <2> QED BY <1>2, <1>4, <1>6, <2>2, <2>3
<1>7. CASE r.stage = row[f].stage
  <2>1. Progress(f)' = p * (MaxAttempts + 1) + r.attempts
    BY <1>3, <1>7 DEF p
  <2>2. CASE r.state = "pending" /\ r.attempts = a + 1
    BY <1>1, <1>2, <1>4, <1>5, <2>1, <2>2
  <2>3. CASE r.state = "blocked" /\ r.attempts = a
    BY <1>1, <1>2, <1>4, <1>5, <2>1, <2>3
  <2>4. CASE r.state \in Closed /\ r.attempts \in {a, a + 1}
    BY <1>1, <1>2, <1>4, <1>5, <2>1, <2>4
  <2>5. \/ r.state = "pending" /\ r.attempts = a + 1
        \/ r.state = "blocked" /\ r.attempts = a
        \/ r.state \in Closed /\ r.attempts \in {a, a + 1}
        \/ r.state = "pending" /\ r.attempts = 0
           /\ row[f].stage # "review"
           /\ r.stage = NextStage[row[f].stage]
    BY DEF a
  <2> QED BY <1>6, <2>2, <2>3, <2>4, <2>5
<1> QED BY <1>6, <1>7

(* A stage that raised, and a result, let go of the finding. *)
LEMMA QueueResult ==
    ASSUME QueueInv, QueueInv', NEW w \in Worker, StepOf(w),
           \/ AdvanceOk(w) \/ AdvanceRetry(w) \/ AdvanceBlocked(w)
           \/ AdvanceReject(w) \/ AdvanceFail(w)
           \/ \E sig \in Signature, transient \in BOOLEAN :
                 Raise(w, sig, transient)
    PROVE  \E f \in Finding :
              Queue!PutBack(w, f) \/ Queue!Park(w, f) \/ Queue!Finish(w, f)
<1> USE DEF QueueInv, SnappedInv, ExclusiveInv, Exclusive, TypeInv, RowsTyped,
            WorkersTyped
<1>1. Holds(w) /\ Working(w) /\ job[w] \in Finding
  BY AdvanceWrites DEF Raise, NoContainerId, Holds, Working
<1> PICK f \in Finding : f = job[w]
  BY <1>1
<1>2. /\ row[f] \in Row /\ snap[w] \in Row
      /\ StageOf(w) = row[f].stage
      /\ NextAttempt(w) = row[f].attempts + 1
  BY <1>1 DEF Snapped, SnapshotOf, StageOf, NextAttempt
<1>3. ASSUME NEW r, Update(f, r), ~Holds(w)',
             \/ /\ r.state = "pending" /\ r.attempts = 0
                /\ row[f].stage # "review"
                /\ r.stage = NextStage[row[f].stage]
             \/ /\ r.state = "pending" /\ r.attempts = row[f].attempts + 1
                /\ r.stage = row[f].stage
             \/ /\ r.state = "blocked" /\ r.attempts = row[f].attempts
                /\ r.stage = row[f].stage
             \/ /\ r.state \in Closed /\ r.stage = row[f].stage
                /\ r.attempts \in {row[f].attempts, row[f].attempts + 1}
      PROVE  Queue!PutBack(w, f) \/ Queue!Park(w, f) \/ Queue!Finish(w, f)
  <2>1. row'[f] = r /\ \A g \in Finding : g # f => SamePlace(g)
    BY <1>3, UpdateOne DEF SamePlace
  <2>2. \A v \in Worker : v # w => Stays(v)
    BY OthersStay
  <2>3. \A p : QueuePhase(f)' = p => Queue!LetGo(w, f, p)
    BY <1>1, <1>3, <2>1, <2>2, QueueLetsGo DEF Holding
  <2>4. \/ QueuePhase(f)' = "queued" /\ Progress(f)' > Progress(f)
        \/ QueuePhase(f)' = "parked" /\ Progress(f)' = Progress(f)
        \/ QueuePhase(f)' = "closed" /\ Progress(f)' >= Progress(f)
    BY <1>1, <1>3, <2>1, ResultSeen
  <2> QED BY <2>3, <2>4 DEF Queue!PutBack, Queue!Park, Queue!Finish
<1>4. CASE \/ AdvanceOk(w) \/ AdvanceRetry(w) \/ AdvanceBlocked(w)
           \/ AdvanceReject(w) \/ AdvanceFail(w)
  <2>1. PICK r \in Row :
           /\ Update(f, r)
           /\ Release(w, "poll") \/ TearDown(w)
           /\ \/ /\ r.state = "pending" /\ r.attempts = 0
                 /\ StageOf(w) # "review"
                 /\ r.stage = NextStage[StageOf(w)]
              \/ /\ r.state = "pending" /\ r.attempts = NextAttempt(w)
                 /\ r.stage = row[f].stage
              \/ /\ r.state = "blocked" /\ r.attempts = row[f].attempts
                 /\ r.stage = row[f].stage
              \/ /\ r.state \in Closed /\ r.stage = row[f].stage
                 /\ r.attempts \in {row[f].attempts, NextAttempt(w)}
    BY <1>4, AdvanceWrites
  <2>2. ~Holds(w)'
    BY <2>1 DEF TearDown, Release, Goto, Holds
  <2> QED BY <1>2, <1>3, <2>1, <2>2
<1>5. CASE \E sig \in Signature, transient \in BOOLEAN :
              Raise(w, sig, transient)
  <2> PICK sig \in Signature, transient \in BOOLEAN : Raise(w, sig, transient)
    BY <1>5
  <2> DEFINE s == IF Grant(w, sig, transient) THEN "pending" ELSE "failed"
             r == [row[f] EXCEPT !.state = s, !.attempts = NextAttempt(w),
                                 !.error = sig]
  <2>1. r.state = s /\ r.attempts = NextAttempt(w) /\ r.stage = row[f].stage
    BY <1>2 DEF Row
  <2>2. s = "pending" \/ s \in Closed
    BY DEF Closed
  <2>3. Update(f, r) /\ ~Holds(w)'
    BY DEF Raise, NoContainerId, Release, Goto, Holds
  <2> HIDE DEF r, s
  <2> QED BY <1>2, <1>3, <2>1, <2>2, <2>3
<1> QED BY <1>4, <1>5

(* A claim takes a queued finding, and the worker had none. *)
LEMMA QueueTakes ==
    ASSUME QueueInv, QueueInv', NEW w \in Worker, StepOf(w), ClaimUpdate(w)
    PROVE  \E f \in Finding : Queue!Take(w, f)
<1> USE DEF QueueInv, SnappedInv, ExclusiveInv, Exclusive
<1> PICK f \in Finding : f = job[w]
  BY DEF ClaimUpdate, TypeInv, WorkersTyped
<1> DEFINE r == [row[f] EXCEPT !.state = "running"]
<1>1. row[f] \in Row /\ row[f].state = "pending" /\ Update(f, r)
  BY DEF ClaimUpdate, ClaimGuard, TypeInv, RowsTyped
<1>2. r.state = "running" /\ r.stage = row[f].stage
      /\ r.attempts = row[f].attempts
  BY <1>1 DEF Row
<1> HIDE DEF r
<1>3. row'[f] = r /\ \A g \in Finding : g # f => row'[g] = row[g]
  BY <1>1, UpdateOne
<1>4. ~Holds(w) /\ Holds(w)' /\ job'[w] = f
  BY DEF ClaimUpdate, Holds, Goto, TypeInv, WorkersTyped
<1>5. \A g \in Finding : HolderOf(g) # w
  BY <1>4, HolderIs DEF Holding
<1>6. HolderOf(f)' = w
  BY <1>4, HolderIsNext DEF Holding
<1>7. \A g \in Finding : g # f => HolderOf(g)' = HolderOf(g)
  <2>1. ASSUME NEW g \in Finding, g # f PROVE SameHolders(g)
    <3>1. ASSUME NEW v \in Worker PROVE Holding(v, g)' <=> Holding(v, g)
      <4>1. CASE v = w
        BY <1>4, <2>1, <4>1 DEF Holding
      <4>2. CASE v # w
        BY <4>2, OthersStay DEF Stays, Holding, Holds
      <4> QED BY <4>1, <4>2
    <3> QED BY <3>1 DEF SameHolders
  <2> QED BY <2>1, HolderStays
<1>8. \A g \in Finding : /\ Progress(g)' = Progress(g)
                         /\ g # f => QueuePhase(g)' = QueuePhase(g)
  BY <1>2, <1>3 DEF Progress, QueuePhase
<1>9. QueuePhase(f) = "queued" /\ QueuePhase(f)' = "held"
  BY <1>1, <1>2, <1>3 DEF QueuePhase
<1> QED BY <1>5, <1>6, <1>7, <1>8, <1>9 DEF Queue!Take

(* A finding added is a job submitted. *)
LEMMA QueueSubmits ==
    ASSUME QueueInv, QueueInv', StepOfNone, NEW f \in Finding, AddFinding(f)
    PROVE  Queue!Submit(f)
<1> USE DEF QueueInv, SnappedInv, ExclusiveInv, Exclusive
<1>1. /\ ~Present(f) /\ row'[f].state = "pending"
      /\ row'[f].stage = "ingest" /\ row'[f].attempts = 0
      /\ \A g \in Finding : g # f => row'[g] = row[g]
  BY InsertedRow DEF AddFinding, Stage, TypeInv, RowsTyped
<1>2. row[f].stage = "ingest" /\ row[f].attempts = 0
  BY <1>1 DEF Blank
<1>3. \A g \in Finding : SameHolders(g)
  BY NobodyMoves DEF SameHolders, Holding, Holds, Stays
<1>4. \A g \in Finding : HolderOf(g)' = HolderOf(g)
  BY <1>3, HolderStays
<1>5. \A g \in Finding : /\ Progress(g)' = Progress(g)
                         /\ g # f => QueuePhase(g)' = QueuePhase(g)
  BY <1>1, <1>2 DEF Progress, QueuePhase
<1>6. QueuePhase(f) = "absent" /\ QueuePhase(f)' = "queued"
  BY <1>1 DEF QueuePhase, Present
<1> QED BY <1>4, <1>5, <1>6 DEF Queue!Submit

(* The steps the queue does not see. *)
LEMMA QueueQuiet ==
    ASSUME QueueInv, QueueInv', NEW w \in Worker, StepOf(w),
           \/ Starts(w) \/ ClaimSelect(w) \/ QueueEmpty(w) \/ ClaimLost(w)
           \/ Fetch(w) \/ (\E s \in Status : EarlyReturn(w, s))
           \/ AttachPod(w) \/ PodLost(w)
           \/ (\E p \in Pod : CreatePod(w, p))
           \/ PinPod(w) \/ (\E s \in Status : StageReturn(w, s))
           \/ RemovePod(w) \/ ClearPod(w)
    PROVE  UNCHANGED Queue!vars
<1> USE DEF QueueInv, SnappedInv, ExclusiveInv, Exclusive, TypeInv, RowsTyped,
            WorkersTyped
<1>1. \A f \in Finding : SamePlace(f)
  <2>1. CASE UNCHANGED row
    BY <2>1 DEF SamePlace
  <2>2. CASE PinPod(w) \/ ClearPod(w)
    <3> SUFFICES ASSUME NEW c, Update(job[w], [row[job[w]] EXCEPT
                                                 !.container_id = c])
                 PROVE  \A f \in Finding : SamePlace(f)
      BY <2>1, <2>2 DEF PinPod, ClearPod, Unwritten
    <3> DEFINE r == [row[job[w]] EXCEPT !.container_id = c]
    <3>1. job[w] \in Finding /\ row[job[w]] \in Row
      BY <2>2 DEF PinPod, ClearPod
    <3>2. /\ r.state = row[job[w]].state /\ r.stage = row[job[w]].stage
          /\ r.attempts = row[job[w]].attempts
      BY <3>1, PinParts
    <3>3. Update(job[w], r)
      OBVIOUS
    <3> HIDE DEF r
    <3> QED BY <3>1, <3>2, <3>3, UpdateOne DEF SamePlace
  <2> QED BY <2>1, <2>2 DEF Starts, StartRun, RequeueRead, ClaimSelect,
          QueueEmpty, ClaimLost, Fetch, EarlyReturn, AttachPod, PodLost,
          CreatePod, StageReturn, RemovePod, dbVars
<1>2. \/ ~Holds(w) /\ ~Holds(w)'
      \/ Holds(w) /\ Holds(w)' /\ job'[w] = job[w]
  BY DEF Starts, StartRun, RequeueRead, ClaimSelect, QueueEmpty, ClaimLost,
     Fetch, EarlyReturn, AttachPod, PodLost, CreatePod, PinPod, StageReturn,
     RemovePod, ClearPod, Release, Goto, Holds
<1>3. ASSUME NEW f \in Finding, NEW v \in Worker
      PROVE  Holding(v, f)' <=> Holding(v, f)
  <2>1. CASE v = w
    BY <1>2, <2>1 DEF Holding
  <2>2. CASE v # w
    BY <2>2, OthersStay DEF Stays, Holding, Holds
  <2> QED BY <2>1, <2>2
<1> QED BY <1>1, <1>3, QueueStutters DEF SameHolders

(* Every step of the pipeline is a step of the queue, or none. *)
LEMMA QueueStep ==
    ASSUME Environment \cap {"spawn", "crash"} = {}, QueueInv, QueueInv',
           [Next]_vars
    PROVE  [Queue!Next]_(Queue!vars)
<1> USE DEF QueueInv, SnappedInv, ExclusiveInv, Exclusive
<1>1. CASE StepOfNone
  <2>1. CASE \E f \in Finding : AddFinding(f)
    BY <1>1, <2>1, QueueSubmits DEF Queue!Next
  <2>2. CASE UNCHANGED row
    <3>1. \A f \in Finding : SamePlace(f)
      BY <2>2 DEF SamePlace
    <3>2. \A f \in Finding : SameHolders(f)
      BY <1>1, NobodyMoves DEF SameHolders, Holding, Holds, Stays
    <3> QED BY <3>1, <3>2, QueueStutters
  <2> QED BY <1>1, <2>1, <2>2, NoneWrites DEF RunningInv, NoSigner
<1>2. ASSUME NEW w \in Worker, StepOf(w)
      PROVE  [Queue!Next]_(Queue!vars)
  <2>1. CASE ClaimUpdate(w)
    BY <1>2, <2>1, QueueTakes DEF Queue!Next
  <2>2. CASE \/ AdvanceOk(w) \/ AdvanceRetry(w) \/ AdvanceBlocked(w)
             \/ AdvanceReject(w) \/ AdvanceFail(w)
             \/ \E sig \in Signature, transient \in BOOLEAN :
                   Raise(w, sig, transient)
    BY <1>2, <2>2, QueueResult DEF Queue!Next
  <2>3. /\ ~Crash(w) /\ ~RequeueWrite(w) /\ ~LinkChild(w)
        /\ ~ChildProved(w) /\ ~ChildFails(w)
        /\ ~\E c \in Finding : SpawnChild(w, c)
    BY DEF Crash, Happens, RequeueWrite, NoRewriter, LinkChild, ChildProved,
       ChildFails, SpawnChild, RunningInv, ClosingInv, NoSpawner
  <2> QED BY <1>2, <2>1, <2>2, <2>3, QueueQuiet
          DEF StepOf, WorkerStep, Handler, Dispatch
<1> QED BY <1>1, <1>2, StepCases

(* A row that is not there stays blank. *)
LEMMA BlankStep ==
    ASSUME "spawn" \notin Environment, QueueInv, [Next]_vars,
           NEW f \in Finding
    PROVE  Blank(f)'
<1> USE DEF QueueInv, SnappedInv, ExclusiveInv, RunningInv, ClosingInv
<1>1. CASE row'[f] = row[f]
  BY <1>1 DEF Blank, Present
<1>2. CASE StepOfNone
  <2>1. CASE \E g \in Finding : AddFinding(g)
    <3> PICK g \in Finding : Insert(g, "ingest")
      BY <2>1 DEF AddFinding
    <3>1. Present(g)' /\ (f # g => row'[f] = row[f])
      BY InsertedRow DEF Stage, TypeInv, RowsTyped
    <3> QED BY <1>1, <3>1 DEF Blank
  <2> QED BY <1>1, <1>2, <2>1, NoneWrites DEF NoSigner
<1>3. ASSUME NEW w \in Worker, StepOf(w)
      PROVE  Blank(f)'
  <2>1. Present(f) => Present(f)'
    BY <1>3, PodColumn
  <2>2. CASE ~Present(f)
    <3>1. row'[f] = row[f]
      BY <1>3, <2>2, WorkerWrites, UpdateOne DEF KeptPresent, NoSpawner, Present
    <3> QED BY <1>1, <3>1
  <2> QED BY <2>1, <2>2 DEF Blank
<1> QED BY <1>2, <1>3, StepCases

(* The store and the runner are a work queue: one holder per finding,      *)
(* every result lets go of it, and a finding is only queued again with     *)
(* more progress, however many workers share the database and whatever     *)
(* their stages return, raise or lose.  A process that dies, a child that  *)
(* is closed with its parent, and the human calls are not steps of it.     *)
THEOREM PipelineIsQueue ==
    ASSUME Environment \subseteq {"raise", "podloss", "rmfail", "dbfail"}
    PROVE  Spec => ImplementsQueue
<1>1. /\ Unrewritten /\ "spawn" \notin Environment
      /\ Environment \cap {"spawn", "crash"} = {}
      /\ Environment \cap {"spawn", "signoff"} = {}
  BY DEF Unrewritten
<1>2. Init => Queue!Init
  <2> SUFFICES ASSUME Init PROVE Queue!Init
    OBVIOUS
  <2>1. ASSUME NEW f \in Finding
        PROVE  /\ QueuePhase(f) = "absent" /\ HolderOf(f) = NoWorker
               /\ Progress(f) \in Nat
    <3>1. row[f].state = "absent" /\ row[f].stage = "ingest"
          /\ row[f].attempts = 0
      BY DEF Init, NoRow
    <3>2. Progress(f) = 0 * (MaxAttempts + 1) + 0
      BY <3>1 DEF Progress, Position
    <3>3. \A w \in Worker : ~Holds(w)
      BY DEF Init, Holds
    <3>4. MaxAttempts \in Nat
      BY PipelineAssumption
    <3>5. HolderOf(f) = NoWorker
      BY <3>3 DEF HolderOf
    <3> QED BY <3>1, <3>2, <3>4, <3>5 DEF QueuePhase
  <2> QED BY <2>1 DEF Queue!Init
<1>3. Init => KeptPresent /\ \A f \in Finding : Blank(f)
  <2> SUFFICES ASSUME Init PROVE KeptPresent /\ \A f \in Finding : Blank(f)
    OBVIOUS
  <2>1. \A f \in Finding : row[f].stage = "ingest" /\ row[f].attempts = 0
    BY DEF Init, NoRow
  <2>2. \A w \in Worker : pc[w] = "stopped"
    BY DEF Init
  <2> QED BY <2>1, <2>2 DEF KeptPresent, Keeps, Holds, Blank
<1>4. Spec => []QueueInv
  <2>1. QueueInv <=> /\ KeptPresent /\ (\A f \in Finding : Blank(f))
                     /\ SnappedInv /\ RunningInv
    BY DEF QueueInv
  <2>2. QueueInv /\ [Next]_vars
           => KeptPresent' /\ (\A f \in Finding : Blank(f))'
    BY <1>1, BlankStep, KeptPresentStep DEF QueueInv, SnappedInv, ExclusiveInv
  <2>3. Spec => []SnappedInv
    BY <1>1, SnappedAlways
  <2>4. Spec => []RunningInv
    BY <1>1, RunningAlways
  <2> QED BY <1>3, <2>1, <2>2, <2>3, <2>4, PTL DEF Spec
<1>5. QueueInv /\ QueueInv' /\ [Next]_vars => [Queue!Next]_(Queue!vars)
  BY <1>1, QueueStep
<1>6. Queue!Init /\ [][Queue!Next]_(Queue!vars) => ImplementsQueue
  BY DEF ImplementsQueue, Queue!Spec
<1> QED BY <1>2, <1>4, <1>5, <1>6, PTL DEF Spec

=============================================================================
