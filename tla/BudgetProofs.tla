---------------------------- MODULE BudgetProofs ------------------------------
(***************************************************************************)
(* The ceiling holds for any findings, workers, limits, prices and calls:  *)
(* the types of the books, and the bound on what they can be overspent.    *)
(***************************************************************************)
EXTENDS Budget, Amounts, FiniteSetTheorems

LEMMA Constants ==
  /\ Attempts \in Nat \ {0} /\ MaxReply \in Nat \ {0}
  /\ MinReply \in 0..MaxReply
  /\ MinReply \in Nat /\ MinReply <= MaxReply
  /\ Charge \in Nat
BY BudgetAssumption, Product DEF Charge

-----------------------------------------------------------------------------
(* The types, in parts: the books, the workers, the rest. *)

BooksTyped ==
  /\ live \in [Rows -> Spend]
  /\ prior \in [Rows -> Nat]
  /\ topups \in [Rows -> Ceiling]

WorkersTyped ==
  /\ worker \in [Workers -> WorkerState]
  /\ \A w \in Workers : WorkerOK(worker[w])

RestTyped ==
  /\ fstate \in [Rows -> FState]
  /\ parent \in [Rows -> Rows \cup {NoFinding}]
  /\ human \in Rows \cup {NoFinding}
  /\ panel \in Panels \cup {NoPanel}
  /\ price \in Nat
  /\ events \in Nat
  /\ high \in Nat
  /\ used \in [Rows -> Nat]
  /\ lost \in [Rows -> Nat]
  /\ resets \in [Rows -> Nat]

LEMMA TypeParts ==
  /\ TypeOK <=> BooksTyped /\ WorkersTyped /\ RestTyped
  /\ TypeOK' <=> BooksTyped' /\ WorkersTyped' /\ RestTyped'
BY DEF TypeOK, BooksTyped, WorkersTyped, RestTyped

\* The ceiling of a client is a ceiling.
LEMMA LoadCeilingTyped ==
  ASSUME RestTyped PROVE LoadCeiling \in Ceiling /\ FromConfig \in Ceiling
<1>1. ConfigCeiling \in Ceiling /\ DefaultCeiling \in Ceiling
  BY BudgetAssumption DEF Ceiling
<1>2. /\ ConfigCeiling["tokens"] \in Nat /\ ConfigCeiling["usd"] \in Nat
      /\ DefaultCeiling["tokens"] \in Nat /\ DefaultCeiling["usd"] \in Nat
  BY <1>1 DEF Ceiling
<1>3. FromConfig \in Ceiling
  BY <1>2 DEF FromConfig, Ceiling
<1>4. QED
  BY <1>3, BudgetAssumption DEF LoadCeiling, RestTyped

\* A worker's finding is a row while it is in a stage.
LEMMA OfRow ==
  ASSUME WorkersTyped, NEW w \in Workers, worker[w].st # "idle"
  PROVE  worker[w].f \in Rows /\ StageRow(w) \in Rows
<1>1. worker[w] \in WorkerState /\ WorkerOK(worker[w])
  BY DEF WorkersTyped
<1>2. QED
  BY <1>1, BudgetAssumption DEF WorkerState, WorkerOK, StageRow

LEMMA IdleTyped == Idle \in WorkerState /\ WorkerOK(Idle)
<1>1. 0 \in 0..Attempts /\ 0 \in 0..Charge
  BY Constants
<1>2. [tokens |-> 0, usd |-> 0] \in Ceiling
  BY DEF Ceiling
<1>3. Idle \in WorkerState
  BY <1>1, <1>2 DEF Idle, WorkerState, Kinds
<1>4. QED
  BY <1>3, Constants, 0 * MaxReply = 0 DEF Idle, WorkerOK

\* A new client belongs to a worker that has just entered its stage.
LEMMA ClientTyped ==
  ASSUME RestTyped, NEW w, NEW f \in Rows, NEW k \in Kinds, NEW loop \in Nat
  PROVE  /\ Client(w, f, k, loop) \in WorkerState
         /\ WorkerOK(Client(w, f, k, loop))
         /\ Client(w, f, k, loop).st = "ready"
         /\ Client(w, f, k, loop).f = f
         /\ Client(w, f, k, loop).cap = LoadCeiling
<1>1. LoadCeiling \in Ceiling
  BY LoadCeilingTyped
<1>2. f # NoFinding
  BY BudgetAssumption
<1>3. 0 \in 0..Attempts /\ 0 \in 0..Charge /\ 0 <= 0 * MaxReply
  BY Constants
<1>4. Idle \in WorkerState /\ Idle.tries = 0 /\ Idle.delta = 0
  BY IdleTyped DEF Idle
<1>5. Client(w, f, k, loop) \in WorkerState
  BY <1>1, <1>4 DEF Client, WorkerState
<1>6. /\ Client(w, f, k, loop).st = "ready"
      /\ Client(w, f, k, loop).f = f
      /\ Client(w, f, k, loop).cap = LoadCeiling
      /\ Client(w, f, k, loop).tries = 0
      /\ Client(w, f, k, loop).delta = 0
  BY <1>4 DEF Client, WorkerState
<1>7. QED
  BY <1>2, <1>3, <1>5, <1>6 DEF WorkerOK

-----------------------------------------------------------------------------
(* The writes. *)

\* One worker's record is replaced.
LEMMA SetWorker ==
  ASSUME WorkersTyped, NEW w \in Workers, NEW me \in WorkerState, WorkerOK(me),
         worker' = [worker EXCEPT ![w] = me]
  PROVE  WorkersTyped'
<1>1. worker' \in [Workers -> WorkerState]
  BY DEF WorkersTyped
<1>2. \A v \in Workers : worker'[v] = IF v = w THEN me ELSE worker[v]
  BY DEF WorkersTyped
<1>3. QED
  BY <1>1, <1>2 DEF WorkersTyped

\* The runner writes the row of a stage that is over.
LEMMA LeaveTyped ==
  ASSUME WorkersTyped, fstate \in [Rows -> FState], NEW w \in Workers,
         NEW s \in FState, NEW c \in FState \cup {"asis"}, Leave(w, s, c)
  PROVE  WorkersTyped' /\ fstate' \in [Rows -> FState]
<1>1. WorkersTyped'
  BY SetWorker, IdleTyped DEF Leave
<1>2. \A f \in Rows : fstate[f] \in FState
  OBVIOUS
<1>3. ASSUME NEW f \in Rows
      PROVE (CASE f = StageRow(w) -> s
               [] f = worker[w].f /\ f # StageRow(w) /\ c # "asis" -> c
               [] OTHER -> fstate[f]) \in FState
  BY <1>2
<1>4. QED
  BY <1>1, <1>3 DEF Leave

\* The books of a finding, whatever the price.
LEMMA SpentTyped ==
  ASSUME BooksTyped, price \in Nat, NEW f \in Rows
  PROVE  /\ live[f] \in Spend
         /\ Spent(f).tokens = live[f].tokens
         /\ Spent(f).usd \in Nat
<1>1. live[f] \in Spend
  BY DEF BooksTyped
<1>2. live[f].unpriced * price \in Nat
  BY <1>1, Product DEF Spend
<1>3. QED
  BY <1>1, <1>2 DEF Spent, Spend

\* A call that was made is booked once, with what it cost.
LEMMA RecordTyped ==
  ASSUME BooksTyped, WorkersTyped, price \in Nat,
         NEW w \in Workers, worker[w].f \in Rows
  PROVE  /\ Recorded(w) \in Spend
         /\ Recorded(w).tokens = live[worker[w].f].tokens + worker[w].delta
         /\ worker[w].delta \in Nat /\ worker[w].delta <= Charge
<1>1. live[worker[w].f] \in Spend
  BY DEF BooksTyped
<1>2. worker[w].delta \in Nat /\ worker[w].delta <= Charge
  BY Constants DEF WorkersTyped, WorkerState
<1>3. worker[w].delta * price \in Nat
  BY <1>2, Product
<1>4. (IF price = 0 THEN worker[w].delta ELSE 0) \in Nat
  BY <1>2
<1>. DEFINE b == live[worker[w].f]
              d == worker[w].delta
              m == worker[w].delta * price
              u == IF price = 0 THEN worker[w].delta ELSE 0
<1>5. b.tokens + d \in Nat /\ b.usd + m \in Nat /\ b.unpriced + u \in Nat
  BY <1>1, <1>2, <1>3, <1>4 DEF Spend
<1>6. Recorded(w) = [b EXCEPT !.tokens = b.tokens + d, !.usd = b.usd + m,
                              !.unpriced = b.unpriced + u]
  BY DEF Recorded
<1>. HIDE DEF b, d, m, u
<1>7. b \in Spend
  BY <1>1 DEF b
<1>8. Recorded(w) \in Spend /\ Recorded(w).tokens = b.tokens + d
  BY <1>5, <1>6, <1>7 DEF Spend
<1>9. QED
  BY <1>2, <1>8 DEF b, d

\* One more reply is within what a call may cost.
LEMMA ReplyTyped ==
  ASSUME NEW me \in WorkerState, WorkerOK(me), me.st = "calling",
         NEW n \in MinReply..MaxReply
  PROVE  LET got == [me EXCEPT !.delta = @ + n, !.tries = @ + 1]
         IN  /\ got \in WorkerState /\ got.f = me.f /\ got.st = "calling"
             /\ got.tries = me.tries + 1
             /\ got.delta <= got.tries * MaxReply
<1>. DEFINE got == [me EXCEPT !.delta = @ + n, !.tries = @ + 1]
<1>1. /\ me.tries \in Nat /\ me.tries < Attempts /\ me.delta \in Nat
      /\ n \in Nat /\ n <= MaxReply /\ me.delta <= me.tries * MaxReply
  BY Constants DEF WorkerState, WorkerOK
<1>2. /\ (me.tries + 1) * MaxReply = me.tries * MaxReply + MaxReply
      /\ me.tries * MaxReply \in Nat
  BY <1>1, OneMore, Product, Constants
<1>3. me.delta + n <= (me.tries + 1) * MaxReply
  BY <1>1, <1>2, Constants
<1>4. (me.tries + 1) * MaxReply <= Charge
  BY <1>1, Dearer, Constants DEF Charge
<1>5. me.delta + n \in 0..Charge /\ me.tries + 1 \in 0..Attempts
  BY <1>1, <1>2, <1>3, <1>4, Constants
<1>6. got \in WorkerState
  BY <1>5 DEF WorkerState
<1>7. got.delta = me.delta + n /\ got.tries = me.tries + 1 /\ got.f = me.f
      /\ got.st = "calling"
  BY DEF WorkerState
<1>8. QED
  BY <1>3, <1>6, <1>7

-----------------------------------------------------------------------------
(* Every step keeps the types. *)

LEMMA InitTyped == Init => TypeOK
<1>. SUFFICES ASSUME Init PROVE TypeOK
  OBVIOUS
<1>1. RestTyped
  <2>1. price \in Nat
    BY BudgetAssumption DEF Init
  <2>2. FromConfig.tokens \in Nat
    BY BudgetAssumption DEF FromConfig, Ceiling
  <2>3. QED
    BY <2>1, <2>2 DEF Init, RestTyped, FState
<1>2. BooksTyped
  BY DEF Init, BooksTyped, NoSpend, Spend, Ceiling
<1>3. WorkersTyped
  BY IdleTyped DEF Init, WorkersTyped
<1>4. QED
  BY <1>1, <1>2, <1>3, TypeParts

\* The steps of a worker outside a call.
LEMMA StageTyped ==
  ASSUME TypeOK, NEW w \in Workers, NEW f, NEW child, NEW loop,
         \/ f \in Rows /\ loop \in Nat /\ StartStage(w, f, loop)
         \/ f \in Rows /\ StartProvision(w, f)
         \/ f \in Rows /\ RefuseProvision(w, f)
         \/ StopLoop(w) \/ Finish(w)
         \/ child \in Children /\ Spawn(w, child)
  PROVE  TypeOK'
<1>. USE TypeParts
<1>0. BooksTyped /\ WorkersTyped /\ RestTyped
  OBVIOUS
<1>1. CASE f \in Rows /\ loop \in Nat /\ StartStage(w, f, loop)
  <2>1. WorkersTyped'
    BY <1>0, <1>1, ClientTyped, SetWorker, "patch" \in Kinds
       DEF StartStage, Kinds
  <2>2. BooksTyped'
    BY <1>0, <1>1 DEF StartStage, BooksTyped, books
  <2>3. RestTyped'
    BY <1>0, <1>1 DEF StartStage, RestTyped, books, history, FState
  <2>4. QED
    BY <2>1, <2>2, <2>3
<1>2. CASE f \in Rows /\ StartProvision(w, f)
  <2>1. (IF LoadCeiling.usd > 0 THEN RemainingUsd(f) ELSE 0) \in Nat
    <3>1. LoadCeiling.usd \in Nat
      BY <1>0, LoadCeilingTyped DEF Ceiling
    <3>2. Spent(f).usd \in Nat
      BY <1>0, <1>2, SpentTyped DEF RestTyped
    <3>3. QED
      BY <1>2, <3>1, <3>2 DEF StartProvision, NoBudget, RemainingUsd
  <2>2. WorkersTyped'
    BY <1>0, <1>2, <2>1, ClientTyped, SetWorker DEF StartProvision, Kinds
  <2>3. BooksTyped'
    BY <1>0, <1>2 DEF StartProvision, BooksTyped, books
  <2>4. RestTyped'
    BY <1>0, <1>2 DEF StartProvision, RestTyped, books, history, FState
  <2>5. QED
    BY <2>2, <2>3, <2>4
<1>3. CASE f \in Rows /\ RefuseProvision(w, f)
  <2>1. BooksTyped' /\ WorkersTyped'
    BY <1>0, <1>3 DEF RefuseProvision, BooksTyped, WorkersTyped, books
  <2>2. RestTyped'
    BY <1>0, <1>3 DEF RefuseProvision, RestTyped, books, history, FState
  <2>3. QED
    BY <2>1, <2>2
<1>4. CASE StopLoop(w)
  <2>1. Leave(w, "failed", "failed")
    BY <1>4 DEF StopLoop
  <2>2. fstate \in [Rows -> FState]
    BY <1>0 DEF RestTyped
  <2>3. WorkersTyped' /\ fstate' \in [Rows -> FState]
    BY <1>0, <2>1, <2>2, LeaveTyped DEF FState
  <2>4. BooksTyped' /\ RestTyped'
    BY <1>0, <1>4, <2>3 DEF StopLoop, BooksTyped, RestTyped, books, history
  <2>5. QED
    BY <2>3, <2>4
<1>5. CASE Finish(w)
  <2>1. fstate \in [Rows -> FState]
    BY <1>0 DEF RestTyped
  <2>2. Leave(w, "pending", "asis") \/ Leave(w, "failed", "failed")
    BY <1>5 DEF Finish
  <2>3. WorkersTyped' /\ fstate' \in [Rows -> FState]
    BY <1>0, <2>1, <2>2, LeaveTyped DEF FState
  <2>4. BooksTyped' /\ RestTyped'
    BY <1>0, <1>5, <2>3 DEF Finish, BooksTyped, RestTyped, books, history
  <2>5. QED
    BY <2>3, <2>4
<1>6. CASE child \in Children /\ Spawn(w, child)
  <2>1. child \in Rows /\ worker[w].f \in Rows /\ StageRow(w) \in Rows
    BY <1>0, <1>6, OfRow DEF Spawn, Rows
  <2>2. worker[w].loop \in Nat
    BY <1>0 DEF WorkersTyped, WorkerState
  <2>. DEFINE new == Client(w, child, "patch", worker[w].loop)
              me == [new EXCEPT !.outer = StageRow(w)]
  <2>3. new \in WorkerState /\ WorkerOK(new)
    BY <1>0, <2>1, <2>2, ClientTyped DEF Kinds
  <2>. HIDE DEF new
  <2>4. me \in WorkerState /\ WorkerOK(me)
    BY <2>1, <2>3 DEF WorkerState, WorkerOK
  <2>5. worker' = [worker EXCEPT ![w] = me]
    BY <1>6 DEF Spawn, new
  <2>. HIDE DEF me
  <2>6. WorkersTyped'
    BY <1>0, <2>4, <2>5, SetWorker
  <2>7. BooksTyped'
    BY <1>0, <1>6 DEF Spawn, BooksTyped, books
  <2>8. RestTyped'
    BY <1>0, <1>6, <2>1 DEF Spawn, RestTyped, books, history, FState
  <2>9. QED
    BY <2>6, <2>7, <2>8
<1>7. QED
  BY <1>1, <1>2, <1>3, <1>4, <1>5, <1>6

\* The steps of a metered call.
LEMMA CallTyped ==
  ASSUME TypeOK, NEW w \in Workers,
         \/ Check(w) \/ Reply(w) \/ Unreachable(w) \/ Record(w) \/ Kill(w)
  PROVE  TypeOK'
<1>. USE TypeParts
<1>0. BooksTyped /\ WorkersTyped /\ RestTyped
  OBVIOUS
<1>a. /\ worker[w] \in WorkerState /\ WorkerOK(worker[w])
      /\ fstate \in [Rows -> FState] /\ price \in Nat
  BY <1>0 DEF WorkersTyped, RestTyped
<1>1. CASE Check(w)
  <2>1. WorkersTyped' /\ fstate' \in [Rows -> FState]
    <3>1. CASE Exceeded(worker[w].f, worker[w].cap)
      BY <1>0, <1>1, <1>a, <3>1, LeaveTyped DEF Check, Halt, FState
    <3>2. CASE ~Exceeded(worker[w].f, worker[w].cap)
      <4>. DEFINE me == [worker[w] EXCEPT !.st = "calling"]
      <4>1. 0 < Attempts
        BY Constants
      <4>2. me \in WorkerState /\ WorkerOK(me)
        BY <1>1, <1>a, <4>1 DEF Check, WorkerState, WorkerOK
      <4>3. worker' = [worker EXCEPT ![w] = me] /\ UNCHANGED fstate
        BY <1>1, <3>2 DEF Check
      <4>. HIDE DEF me
      <4>4. QED
        BY <1>0, <1>a, <4>2, <4>3, SetWorker
    <3>3. QED
      BY <3>1, <3>2
  <2>2. BooksTyped' /\ RestTyped'
    BY <1>0, <1>1, <2>1 DEF Check, BooksTyped, RestTyped, books, history
  <2>3. QED
    BY <2>1, <2>2
<1>2. CASE Reply(w)
  <2>0. worker[w].st = "calling" /\ worker[w].f \in Rows
    BY <1>0, <1>2, OfRow DEF Reply
  <2>1. PICK n \in MinReply..MaxReply :
          LET got == [worker[w] EXCEPT !.delta = @ + n, !.tries = @ + 1]
          IN  /\ used' = [used EXCEPT ![worker[w].f] = @ + n]
              /\ \/ worker' = [worker EXCEPT ![w] = [got EXCEPT !.st = "replied"]]
                 \/ /\ MayRetry(w)
                    /\ worker' = [worker EXCEPT ![w] = got]
                 \/ worker' = [worker EXCEPT ![w] =
                       [got EXCEPT !.st = "replied", !.failed = TRUE]]
    BY <1>2 DEF Reply
  <2>. DEFINE got == [worker[w] EXCEPT !.delta = @ + n, !.tries = @ + 1]
  <2>2. /\ got \in WorkerState /\ got.f \in Rows /\ got.st = "calling"
        /\ got.tries = worker[w].tries + 1
        /\ got.delta <= got.tries * MaxReply
    BY <1>a, <2>0, ReplyTyped
  <2>3. MayRetry(w) => got.tries < Attempts
    BY <2>2 DEF MayRetry
  <2>4. \/ worker' = [worker EXCEPT ![w] = [got EXCEPT !.st = "replied"]]
        \/ /\ got.tries < Attempts
           /\ worker' = [worker EXCEPT ![w] = got]
        \/ worker' = [worker EXCEPT ![w] =
              [got EXCEPT !.st = "replied", !.failed = TRUE]]
    BY <2>1, <2>3
  <2>. HIDE DEF got
  <2>5. got.f # NoFinding
    BY <2>2, BudgetAssumption
  <2>6. [got EXCEPT !.st = "replied"] \in WorkerState
        /\ WorkerOK([got EXCEPT !.st = "replied"])
    BY <2>2, <2>5 DEF WorkerState, WorkerOK
  <2>7. [got EXCEPT !.st = "replied", !.failed = TRUE] \in WorkerState
        /\ WorkerOK([got EXCEPT !.st = "replied", !.failed = TRUE])
    BY <2>2, <2>5 DEF WorkerState, WorkerOK
  <2>8. got.tries < Attempts => WorkerOK(got)
    BY <2>2, <2>5 DEF WorkerOK
  <2>9. WorkersTyped'
    BY <1>0, <2>2, <2>4, <2>6, <2>7, <2>8, SetWorker
  <2>10. used' \in [Rows -> Nat]
    BY <1>0, <2>0, <2>1, Constants DEF RestTyped
  <2>11. BooksTyped' /\ RestTyped'
    BY <1>0, <1>2, <2>10 DEF Reply, BooksTyped, RestTyped, books
  <2>12. QED
    BY <2>9, <2>11
<1>3. CASE Unreachable(w)
  <2>. DEFINE me == [worker[w] EXCEPT !.st = "replied", !.failed = TRUE]
  <2>1. me \in WorkerState /\ WorkerOK(me)
    BY <1>3, <1>a DEF Unreachable, WorkerState, WorkerOK
  <2>2. worker' = [worker EXCEPT ![w] = me]
    BY <1>3, <1>0 DEF Unreachable, WorkersTyped, WorkerState
  <2>. HIDE DEF me
  <2>3. WorkersTyped'
    BY <1>0, <2>1, <2>2, SetWorker
  <2>4. BooksTyped' /\ RestTyped'
    BY <1>0, <1>3 DEF Unreachable, BooksTyped, RestTyped, books, history
  <2>5. QED
    BY <2>3, <2>4
<1>4. CASE Record(w)
  <2>0. worker[w].st = "replied" /\ worker[w].f \in Rows
    BY <1>0, <1>4, OfRow DEF Record
  <2>1. BooksTyped'
    BY <1>0, <1>a, <1>4, <2>0, RecordTyped DEF Record, BooksTyped
  <2>2. WorkersTyped' /\ fstate' \in [Rows -> FState]
    <3>1. CASE worker[w].failed
      <4>1. Leave(w, "pending", "asis") \/ Leave(w, "failed", "asis")
        BY <1>4, <3>1 DEF Record
      <4>2. QED
        BY <1>0, <1>a, <4>1, LeaveTyped DEF FState
    <3>2. CASE ~worker[w].failed
      <4>. DEFINE me == [worker[w] EXCEPT !.st = "ready", !.delta = 0,
                                          !.tries = 0]
      <4>1. 0 \in 0..Attempts /\ 0 \in 0..Charge /\ 0 <= 0 * MaxReply
        BY Constants
      <4>2. me \in WorkerState /\ WorkerOK(me)
        BY <1>a, <2>0, <4>1 DEF WorkerState, WorkerOK
      <4>3. worker' = [worker EXCEPT ![w] = me] /\ UNCHANGED fstate
        BY <1>0, <1>4, <3>2 DEF Record, WorkersTyped, WorkerState
      <4>. HIDE DEF me
      <4>4. QED
        BY <1>0, <1>a, <4>2, <4>3, SetWorker
    <3>3. QED
      BY <3>1, <3>2
  <2>3. RestTyped'
    BY <1>0, <1>4, <2>2 DEF Record, RestTyped, history
  <2>4. QED
    BY <2>1, <2>2, <2>3
<1>5. CASE Kill(w)
  <2>1. worker[w].f \in Rows /\ worker[w].delta \in Nat
    BY <1>0, <1>5, <1>a, OfRow DEF Kill, WorkerState
  <2>2. WorkersTyped'
    BY <1>0, <1>5, IdleTyped, SetWorker DEF Kill
  <2>3. lost' \in [Rows -> Nat]
    BY <1>0, <1>5, <2>1 DEF Kill, RestTyped
  <2>4. BooksTyped' /\ RestTyped'
    BY <1>0, <1>5, <2>3 DEF Kill, BooksTyped, RestTyped, books
  <2>5. QED
    BY <2>2, <2>4
<1>6. QED
  BY <1>1, <1>2, <1>3, <1>4, <1>5

\* What humans do.
LEMMA HumanTyped ==
  ASSUME TypeOK, NEW f, NEW g, NEW c, NEW p,
         \/ RequeueWrite
         \/ f \in Rows /\ (RequeueRead(f) \/ Iterate(f))
         \/ f \in Rows /\ g \in Grants /\ Topup(f, g)
         \/ c \in Panels /\ SaveCeiling(c)
         \/ p \in Prices /\ SetPrice(p)
  PROVE  TypeOK'
<1>. USE TypeParts
<1>0. BooksTyped /\ WorkersTyped /\ RestTyped
  OBVIOUS
<1>1. CASE RequeueWrite
  <2>1. human \in Rows
    BY <1>0, <1>1 DEF RequeueWrite, RestTyped
  <2>2. live[human].tokens \in Nat /\ prior[human] \in Nat /\ NoSpend \in Spend
    BY <1>0, <2>1 DEF BooksTyped, Spend, NoSpend
  <2>3. BooksTyped'
    BY <1>0, <1>1, <2>1, <2>2 DEF RequeueWrite, BooksTyped
  <2>4. resets' \in [Rows -> Nat]
    BY <1>0, <1>1, <2>1 DEF RequeueWrite, RestTyped
  <2>5. RestTyped'
    BY <1>0, <1>1, <2>1, <2>4 DEF RequeueWrite, RestTyped, FState
  <2>6. WorkersTyped'
    BY <1>0, <1>1 DEF RequeueWrite, WorkersTyped
  <2>7. QED
    BY <2>3, <2>5, <2>6
<1>2. CASE f \in Rows /\ RequeueRead(f)
  <2>1. BooksTyped' /\ WorkersTyped'
    BY <1>0, <1>2 DEF RequeueRead, BooksTyped, WorkersTyped, books
  <2>2. RestTyped'
    BY <1>0, <1>2 DEF RequeueRead, RestTyped, history
  <2>3. QED
    BY <2>1, <2>2
<1>3. CASE f \in Rows /\ Iterate(f)
  <2>1. BooksTyped' /\ WorkersTyped'
    BY <1>0, <1>3 DEF Iterate, BooksTyped, WorkersTyped, books
  <2>2. RestTyped'
    BY <1>0, <1>3 DEF Iterate, RestTyped, history, FState
  <2>3. QED
    BY <2>1, <2>2
<1>4. CASE f \in Rows /\ g \in Grants /\ Topup(f, g)
  <2>1. g \in Ceiling /\ topups[f] \in Ceiling
    BY <1>0, <1>4, BudgetAssumption DEF BooksTyped
  <2>2. [u \in {"tokens", "usd"} |-> topups[f][u] + g[u]] \in Ceiling
    <3>1. /\ g["tokens"] \in Nat /\ g["usd"] \in Nat
          /\ topups[f]["tokens"] \in Nat /\ topups[f]["usd"] \in Nat
      BY <2>1 DEF Ceiling
    <3>2. QED
      BY <3>1 DEF Ceiling
  <2>3. BooksTyped'
    BY <1>0, <1>4, <2>2 DEF Topup, BooksTyped
  <2>4. WorkersTyped' /\ RestTyped'
    BY <1>0, <1>4 DEF Topup, WorkersTyped, RestTyped, history
  <2>5. QED
    BY <2>3, <2>4
<1>5. CASE c \in Panels /\ SaveCeiling(c)
  <2>1. c.tokens \in Nat
    BY <1>5, BudgetAssumption DEF Ceiling
  <2>2. BooksTyped' /\ WorkersTyped'
    BY <1>0, <1>5 DEF SaveCeiling, BooksTyped, WorkersTyped, books
  <2>3. RestTyped'
    BY <1>0, <1>5, <2>1 DEF SaveCeiling, RestTyped
  <2>4. QED
    BY <2>2, <2>3
<1>6. CASE p \in Prices /\ SetPrice(p)
  <2>1. p \in Nat
    BY <1>6, BudgetAssumption
  <2>2. BooksTyped' /\ WorkersTyped'
    BY <1>0, <1>6 DEF SetPrice, BooksTyped, WorkersTyped, books
  <2>3. RestTyped'
    BY <1>0, <1>6, <2>1 DEF SetPrice, RestTyped, history
  <2>4. QED
    BY <2>2, <2>3
<1>7. QED
  BY <1>1, <1>2, <1>3, <1>4, <1>5, <1>6

\* A step is one of these.
LEMMA NextCases ==
  ASSUME Next
  PROVE  \/ \E w \in Workers :
              \/ StopLoop(w) \/ Finish(w)
              \/ Check(w) \/ Reply(w) \/ Unreachable(w) \/ Record(w) \/ Kill(w)
              \/ \E f \in Rows : \/ \E loop \in Nat : StartStage(w, f, loop)
                                 \/ StartProvision(w, f)
                                 \/ RefuseProvision(w, f)
              \/ \E child \in Children : Spawn(w, child)
         \/ RequeueWrite
         \/ \E f \in Rows : \/ RequeueRead(f) \/ Iterate(f)
                            \/ \E g \in Grants : Topup(f, g)
         \/ \E c \in Panels : SaveCeiling(c)
         \/ \E p \in Prices : SetPrice(p)
<1>1. {0, InvestigationUsd} \subseteq Nat
  BY BudgetAssumption
<1>2. QED
  BY <1>1 DEF Next, Clients, Human

LEMMA NextTyped == TypeOK /\ [Next]_vars => TypeOK'
<1>. SUFFICES ASSUME TypeOK, [Next]_vars PROVE TypeOK'
  OBVIOUS
<1>1. CASE Next
  <2>1. ASSUME NEW w \in Workers,
               \/ StopLoop(w) \/ Finish(w)
               \/ \E f \in Rows : \/ \E loop \in Nat : StartStage(w, f, loop)
                                  \/ StartProvision(w, f)
                                  \/ RefuseProvision(w, f)
               \/ \E child \in Children : Spawn(w, child)
        PROVE  TypeOK'
    BY <2>1, StageTyped
  <2>2. ASSUME NEW w \in Workers,
               \/ Check(w) \/ Reply(w) \/ Unreachable(w) \/ Record(w)
               \/ Kill(w)
        PROVE  TypeOK'
    BY <2>2, CallTyped
  <2>3. ASSUME \/ RequeueWrite
               \/ \E f \in Rows : \/ RequeueRead(f) \/ Iterate(f)
                                  \/ \E g \in Grants : Topup(f, g)
               \/ \E c \in Panels : SaveCeiling(c)
               \/ \E p \in Prices : SetPrice(p)
        PROVE  TypeOK'
    BY <2>3, HumanTyped
  <2>4. QED
    BY <1>1, <2>1, <2>2, <2>3, NextCases
<1>2. CASE UNCHANGED vars
  BY <1>2 DEF TypeOK, vars, books, history
<1>3. QED
  BY <1>1, <1>2

\* The books, the workers and the history have their types in every state.
THEOREM BudgetTyped == Spec => []TypeOK
BY InitTyped, NextTyped, PTL DEF Spec

-----------------------------------------------------------------------------
(* The calls under way on a finding. *)

\* They are made by workers, so there are at most as many.
LEMMA FewCalls ==
  ASSUME NEW f
  PROVE  /\ IsFiniteSet(InCall(f))
         /\ Cardinality(InCall(f)) \in Nat
         /\ Cardinality(Workers) \in Nat \ {0}
         /\ Cardinality(InCall(f)) <= Cardinality(Workers)
<1>1. IsFiniteSet(Workers) /\ Workers # {} /\ InCall(f) \subseteq Workers
  BY BudgetAssumption DEF InCall
<1>2. QED
  BY <1>1, FS_Subset, FS_CardinalityType, FS_EmptySet

LEMMA FewCallsNext ==
  ASSUME NEW f
  PROVE  /\ Cardinality(InCall(f))' \in Nat
         /\ Cardinality(InCall(f))' <= Cardinality(Workers)
<1>1. IsFiniteSet(Workers) /\ InCall(f)' \subseteq Workers
  BY BudgetAssumption DEF InCall
<1>2. QED
  BY <1>1, FS_Subset, FS_CardinalityType

\* A step of one worker that is in no call on the finding before or after.
LEMMA SameCalls ==
  ASSUME NEW f, NEW w \in Workers, WorkersTyped, WorkersTyped',
         \A v \in Workers \ {w} : worker'[v] = worker[v],
         (w \in InCall(f))' = (w \in InCall(f))
  PROVE  InCall(f)' = InCall(f)
BY DEF InCall

\* A call begins.
LEMMA CallBegins ==
  ASSUME NEW f, NEW w \in Workers,
         \A v \in Workers \ {w} : worker'[v] = worker[v],
         w \notin InCall(f), (w \in InCall(f))'
  PROVE  /\ Cardinality(InCall(f))' = Cardinality(InCall(f)) + 1
         /\ Cardinality(InCall(f)) < Cardinality(Workers)
<1>1. InCall(f)' = InCall(f) \cup {w}
  BY DEF InCall
<1>2. Cardinality(InCall(f) \cup {w}) = Cardinality(InCall(f)) + 1
  BY FewCalls, FS_AddElement
<1>3. Cardinality(InCall(f))' = Cardinality(InCall(f)) + 1
  BY <1>1, <1>2
<1>4. QED
  BY <1>3, FewCalls, FewCallsNext

\* A call ends.
LEMMA CallOver ==
  ASSUME NEW f, NEW w \in Workers,
         \A v \in Workers \ {w} : worker'[v] = worker[v],
         w \in InCall(f), ~(w \in InCall(f))'
  PROVE  /\ Cardinality(InCall(f))' = Cardinality(InCall(f)) - 1
         /\ Cardinality(InCall(f)) > 0
<1>1. InCall(f)' = InCall(f) \ {w}
  BY DEF InCall
<1>2. Cardinality(InCall(f) \ {w}) = Cardinality(InCall(f)) - 1
  BY FewCalls, FS_RemoveElement
<1>3. Cardinality(InCall(f))' = Cardinality(InCall(f)) - 1
  BY <1>1, <1>2
<1>4. QED
  BY <1>3, FewCalls, FewCallsNext

-----------------------------------------------------------------------------
(* What a step that does not concern a finding leaves alone. *)
LEMMA MeterRests ==
  ASSUME NEW f, live'[f].tokens = live[f].tokens, topups' = topups,
         high' = high, InCall(f)' = InCall(f)
  PROVE  UNCHANGED Finding(f)!meterVars
<1>1. Cardinality(InCall(f))' = Cardinality(InCall(f))
  BY Zenon
<1>2. Allowance(f)' = Allowance(f)
  BY DEF Allowance
<1>3. QED
  BY <1>1, <1>2 DEF Finding!meterVars

\* The ceiling a client works under is one that was in force, and limits.
CapsLimited ==
  /\ FromConfig.tokens \in 1..high
  /\ panel # NoPanel => panel.tokens \in 1..high
  /\ \A w \in Workers : worker[w].st # "idle" => worker[w].cap.tokens \in 1..high

\* What a step of a worker outside a call does to the workers: it goes idle,
\* or gets a client with the ceiling of the moment.
LEMMA StageMoves ==
  ASSUME TypeOK, NEW w \in Workers, NEW f, NEW child, NEW loop,
         \/ f \in Rows /\ loop \in Nat /\ StartStage(w, f, loop)
         \/ f \in Rows /\ StartProvision(w, f)
         \/ f \in Rows /\ RefuseProvision(w, f)
         \/ StopLoop(w) \/ Finish(w)
         \/ child \in Children /\ Spawn(w, child)
  PROVE  /\ \A v \in Workers \ {w} : worker'[v] = worker[v]
         /\ worker[w].st \in {"idle", "ready"}
         /\ \/ worker'[w].st = "idle"
            \/ worker'[w].st = "ready" /\ worker'[w].cap = LoadCeiling
         /\ UNCHANGED <<live, topups, high, panel>>
<1>0. /\ RestTyped /\ worker \in [Workers -> WorkerState]
      /\ \A v \in Workers : worker[v].loop \in Nat
  BY TypeParts DEF WorkersTyped, WorkerState
<1>a. \A g, k, l : Client(w, g, k, l).st = "ready"
                   /\ Client(w, g, k, l).cap = LoadCeiling
  BY DEF Client, Idle
<1>1. CASE f \in Rows /\ loop \in Nat /\ StartStage(w, f, loop)
  BY <1>0, <1>1, <1>a DEF StartStage, books, history
<1>2. CASE f \in Rows /\ StartProvision(w, f)
  BY <1>0, <1>2, <1>a DEF StartProvision, books, history
<1>3. CASE f \in Rows /\ RefuseProvision(w, f)
  BY <1>0, <1>3 DEF RefuseProvision, books, history
<1>4. CASE StopLoop(w)
  BY <1>0, <1>4 DEF StopLoop, Leave, Idle, books, history
<1>5. CASE Finish(w)
  BY <1>0, <1>5 DEF Finish, Leave, Idle, books, history
<1>6. CASE child \in Children /\ Spawn(w, child)
  <2>. DEFINE new == Client(w, child, "patch", worker[w].loop)
  <2>0. child \in Rows /\ "patch" \in Kinds /\ worker[w].loop \in Nat
    BY <1>0, <1>6 DEF Rows, Kinds
  <2>1. new \in WorkerState /\ new.st = "ready" /\ new.cap = LoadCeiling
    BY <1>0, <2>0, ClientTyped
  <2>2. worker' = [worker EXCEPT ![w] = [new EXCEPT !.outer = StageRow(w)]]
    BY <1>6 DEF Spawn
  <2>. HIDE DEF new
  <2>3. worker'[w] = [new EXCEPT !.outer = StageRow(w)]
        /\ \A v \in Workers \ {w} : worker'[v] = worker[v]
    BY <1>0, <2>2
  <2>4. worker'[w].st = "ready" /\ worker'[w].cap = LoadCeiling
    BY <2>1, <2>3 DEF WorkerState
  <2>5. QED
    BY <1>6, <2>3, <2>4 DEF Spawn, books, history
<1>7. QED
  BY <1>1, <1>2, <1>3, <1>4, <1>5, <1>6

\* A reply leaves the worker in its call.
LEMMA ReplyMoves ==
  ASSUME TypeOK, NEW w \in Workers, Reply(w)
  PROVE  /\ \A v \in Workers \ {w} : worker'[v] = worker[v]
         /\ worker[w].st = "calling"
         /\ worker'[w].st \in {"calling", "replied"}
         /\ worker'[w].f = worker[w].f /\ worker'[w].cap = worker[w].cap
<1>0. worker \in [Workers -> WorkerState] /\ worker[w] \in WorkerState
  BY TypeParts DEF WorkersTyped
<1>1. worker[w].st = "calling" /\ WorkerOK(worker[w])
  BY TypeParts DEF Reply, WorkersTyped
<1>2. PICK n \in MinReply..MaxReply :
        LET got == [worker[w] EXCEPT !.delta = @ + n, !.tries = @ + 1]
        IN  \/ worker' = [worker EXCEPT ![w] = [got EXCEPT !.st = "replied"]]
            \/ worker' = [worker EXCEPT ![w] = got]
            \/ worker' = [worker EXCEPT ![w] =
                  [got EXCEPT !.st = "replied", !.failed = TRUE]]
  BY DEF Reply
<1>. DEFINE got == [worker[w] EXCEPT !.delta = @ + n, !.tries = @ + 1]
<1>3. got \in WorkerState
  BY <1>0, <1>1, ReplyTyped
<1>4. got.f = worker[w].f /\ got.cap = worker[w].cap /\ got.st = "calling"
  BY <1>0, <1>1 DEF WorkerState
<1>5. \/ worker' = [worker EXCEPT ![w] = [got EXCEPT !.st = "replied"]]
      \/ worker' = [worker EXCEPT ![w] = got]
      \/ worker' = [worker EXCEPT ![w] =
            [got EXCEPT !.st = "replied", !.failed = TRUE]]
  BY <1>2
<1>. HIDE DEF got
<1>6. /\ worker'[w].f = got.f /\ worker'[w].cap = got.cap
      /\ worker'[w].st \in {"calling", "replied"}
      /\ \A v \in Workers \ {w} : worker'[v] = worker[v]
  <2>1. \A me \in {[got EXCEPT !.st = "replied"], got,
                   [got EXCEPT !.st = "replied", !.failed = TRUE]} :
          me.f = got.f /\ me.cap = got.cap /\ me.st \in {"calling", "replied"}
    BY <1>3, <1>4 DEF WorkerState
  <2>2. \E me \in {[got EXCEPT !.st = "replied"], got,
                   [got EXCEPT !.st = "replied", !.failed = TRUE]} :
          worker' = [worker EXCEPT ![w] = me]
    BY <1>5
  <2>3. QED
    BY <1>0, <2>1, <2>2
<1>7. QED
  BY <1>1, <1>4, <1>6

\* What a step of a metered call does to the workers: the client keeps its
\* finding and its ceiling until the worker is idle.
LEMMA CallMoves ==
  ASSUME TypeOK, NEW w \in Workers,
         \/ Check(w) \/ Reply(w) \/ Unreachable(w) \/ Record(w) \/ Kill(w)
  PROVE  /\ \A v \in Workers \ {w} : worker'[v] = worker[v]
         /\ worker[w].st # "idle"
         /\ \/ worker'[w].st = "idle"
            \/ worker'[w].f = worker[w].f /\ worker'[w].cap = worker[w].cap
         /\ UNCHANGED <<topups, high, panel>>
<1>0. worker \in [Workers -> WorkerState] /\ worker[w] \in WorkerState
  BY TypeParts DEF WorkersTyped
<1>1. CASE Check(w)
  BY <1>0, <1>1 DEF Check, Halt, Leave, Idle, WorkerState, books, history
<1>2. CASE Reply(w)
  BY <1>2, ReplyMoves DEF Reply, books
<1>3. CASE Unreachable(w)
  BY <1>0, <1>3 DEF Unreachable, WorkerState, books, history
<1>4. CASE Record(w)
  BY <1>0, <1>4 DEF Record, Leave, Idle, WorkerState, history
<1>5. CASE Kill(w)
  BY <1>0, <1>5 DEF Kill, Idle, books
<1>6. QED
  BY <1>1, <1>2, <1>3, <1>4, <1>5

\* The ceiling a new client gets.
LEMMA LoadCeilingLimited ==
  ASSUME CapsLimited PROVE LoadCeiling.tokens \in 1..high
BY DEF CapsLimited, LoadCeiling

LEMMA InitLimited == Init /\ Limited => CapsLimited
<1>. SUFFICES ASSUME Init PROVE CapsLimited
  OBVIOUS
<1>1. FromConfig.tokens \in Nat \ {0}
  <2>1. ConfigCeiling.tokens \in Nat /\ DefaultCeiling.tokens \in Nat \ {0}
    BY BudgetAssumption DEF Ceiling
  <2>2. QED
    BY <2>1 DEF FromConfig
<1>2. QED
  BY <1>1 DEF Init, CapsLimited, Idle

LEMMA NextLimited ==
  ASSUME Limited, TypeOK, CapsLimited, [Next]_vars PROVE CapsLimited'
<1>0. high \in Nat /\ FromConfig' = FromConfig
  BY TypeParts DEF RestTyped, FromConfig
<1>1. ASSUME NEW w \in Workers,
             \A v \in Workers \ {w} : worker'[v] = worker[v],
             \/ worker'[w].st = "idle"
             \/ worker'[w].cap = LoadCeiling
             \/ worker[w].st # "idle" /\ worker'[w].cap = worker[w].cap,
             UNCHANGED <<high, panel>>
      PROVE  CapsLimited'
  BY <1>0, <1>1, LoadCeilingLimited DEF CapsLimited
<1>2. ASSUME NEW w \in Workers,
             \/ StopLoop(w) \/ Finish(w)
             \/ \E f \in Rows : \/ \E loop \in Nat : StartStage(w, f, loop)
                                \/ StartProvision(w, f)
                                \/ RefuseProvision(w, f)
             \/ \E child \in Children : Spawn(w, child)
      PROVE  CapsLimited'
  BY <1>1, <1>2, StageMoves
<1>3. ASSUME NEW w \in Workers,
             Check(w) \/ Reply(w) \/ Unreachable(w) \/ Record(w) \/ Kill(w)
      PROVE  CapsLimited'
  BY <1>1, <1>3, CallMoves
<1>4. ASSUME NEW c \in Panels, SaveCeiling(c) PROVE CapsLimited'
  <2>1. c.tokens \in Nat \ {0}
    BY BudgetAssumption DEF Limited, Ceiling
  <2>2. high' \in Nat /\ high <= high' /\ c.tokens <= high'
    BY <1>0, <1>4, <2>1 DEF SaveCeiling
  <2>3. QED
    BY <1>0, <1>4, <2>1, <2>2 DEF SaveCeiling, CapsLimited
<1>5. ASSUME \/ RequeueWrite
             \/ \E f \in Rows : \/ RequeueRead(f) \/ Iterate(f)
                                \/ \E g \in Grants : Topup(f, g)
             \/ \E p \in Prices : SetPrice(p)
      PROVE  CapsLimited'
  <2>1. UNCHANGED <<worker, high, panel>>
    BY <1>5 DEF RequeueWrite, RequeueRead, Iterate, Topup, SetPrice, history
  <2>2. QED
    BY <1>0, <2>1 DEF CapsLimited
<1>6. CASE UNCHANGED vars
  BY <1>0, <1>6 DEF CapsLimited, vars, history
<1>7. QED
  BY <1>2, <1>3, <1>4, <1>5, <1>6, NextCases

-----------------------------------------------------------------------------
(* The books of a finding are a meter. *)

\* A client that may call has found the finding below its allowance.
LEMMA AdmittedBelow ==
  ASSUME TypeOK, CapsLimited, NEW w \in Workers, worker[w].st # "idle",
         ~Exceeded(worker[w].f, worker[w].cap)
  PROVE  live[worker[w].f].tokens < Allowance(worker[w].f)
<1>. DEFINE f == worker[w].f
            cap == worker[w].cap
<1>1. f \in Rows /\ high \in Nat /\ cap.tokens \in 1..high
  BY TypeParts, OfRow DEF RestTyped, CapsLimited
<1>2. topups[f].tokens \in Nat /\ live[f].tokens \in Nat
      /\ Spent(f).tokens = live[f].tokens
  BY <1>1, TypeParts, SpentTyped DEF BooksTyped, RestTyped, Ceiling, Spend
<1>3. cap \in Ceiling
  BY TypeParts DEF WorkersTyped, WorkerState
<1>4. EffectiveCeiling(f, cap).tokens = cap.tokens + topups[f].tokens
  BY <1>1, <1>3 DEF EffectiveCeiling, Ceiling
<1>5. ~Reached(EffectiveCeiling(f, cap).tokens, Spent(f).tokens)
  BY DEF Exceeded
<1>6. QED
  BY <1>1, <1>2, <1>4, <1>5 DEF Reached, Allowance

LEMMA WorkerMeters ==
  ASSUME TypeOK, TypeOK', CapsLimited, NEW f \in Rows, NEW w \in Workers,
         Check(w) \/ Reply(w) \/ Unreachable(w) \/ Record(w) \/ Kill(w)
  PROVE  Finding(f)!Next \/ UNCHANGED Finding(f)!meterVars
<1>0. /\ \A v \in Workers \ {w} : worker'[v] = worker[v]
      /\ worker[w].st # "idle"
      /\ \/ worker'[w].st = "idle"
         \/ worker'[w].f = worker[w].f /\ worker'[w].cap = worker[w].cap
      /\ UNCHANGED <<topups, high, panel>>
  BY CallMoves
<1>a. /\ WorkersTyped /\ WorkersTyped' /\ BooksTyped /\ price \in Nat
      /\ worker \in [Workers -> WorkerState] /\ worker[w] \in WorkerState
      /\ live \in [Rows -> Spend]
  BY TypeParts DEF WorkersTyped, RestTyped, BooksTyped
<1>b. Allowance(f)' = Allowance(f)
  BY <1>0 DEF Allowance
<1>c. ASSUME (w \in InCall(f))' = (w \in InCall(f)),
             live'[f].tokens = live[f].tokens
      PROVE  UNCHANGED Finding(f)!meterVars
  BY <1>0, <1>a, <1>c, SameCalls, MeterRests
<1>1. CASE Check(w)
  <2>1. worker[w].st = "ready" /\ live' = live
    BY <1>1 DEF Check, books
  <2>2. CASE worker'[w].st = "calling" /\ worker[w].f = f
    <3>1. ~Exceeded(worker[w].f, worker[w].cap)
      BY <1>1, <1>a, <2>2 DEF Check, Halt, Leave, Idle
    <3>2. live[f].tokens < Allowance(f)
      BY <1>0, <2>2, <3>1, AdmittedBelow
    <3>3. w \notin InCall(f) /\ (w \in InCall(f))'
      BY <1>0, <2>1, <2>2 DEF InCall
    <3>4. QED
      BY <1>0, <1>b, <2>1, <3>2, <3>3, CallBegins
         DEF Finding!Next, Finding!Admit
  <2>3. CASE ~(worker'[w].st = "calling" /\ worker[w].f = f)
    <3>1. worker'[w].st \in {"idle", "calling"}
      BY <1>1, <1>a DEF Check, Halt, Leave, Idle, WorkerState
    <3>2. w \notin InCall(f) /\ ~(w \in InCall(f))'
      BY <1>0, <2>1, <2>3, <3>1 DEF InCall
    <3>3. QED
      BY <1>c, <2>1, <3>2
  <2>4. QED
    BY <2>2, <2>3
<1>2. CASE Reply(w) \/ Unreachable(w)
  <2>1. /\ worker[w].st = "calling"
        /\ worker'[w].st \in {"calling", "replied"}
        /\ worker'[w].f = worker[w].f /\ live' = live
    <3>1. CASE Reply(w)
      BY <3>1, ReplyMoves DEF Reply, books
    <3>2. CASE Unreachable(w)
      BY <1>a, <3>2 DEF Unreachable, WorkerState, books
    <3>3. QED
      BY <1>2, <3>1, <3>2
  <2>2. (w \in InCall(f))' = (w \in InCall(f))
    BY <2>1 DEF InCall
  <2>3. QED
    BY <1>c, <2>1, <2>2
<1>3. CASE Record(w)
  <2>1. /\ worker[w].st = "replied" /\ worker[w].f \in Rows
        /\ live' = [live EXCEPT ![worker[w].f] = Recorded(w)]
    BY <1>0, <1>3, <1>a, OfRow DEF Record
  <2>2. worker'[w].st \in {"idle", "ready"}
    BY <1>3, <1>a DEF Record, Leave, Idle, WorkerState
  <2>3. CASE worker[w].f = f
    <3>1. /\ live'[f].tokens = live[f].tokens + worker[w].delta
          /\ worker[w].delta \in 0..Charge
      BY <1>a, <2>1, <2>3, RecordTyped, Constants
    <3>2. w \in InCall(f) /\ ~(w \in InCall(f))'
      BY <2>1, <2>2, <2>3 DEF InCall
    <3>3. QED
      BY <1>0, <1>b, <3>1, <3>2, CallOver DEF Finding!Next, Finding!Settle
  <2>4. CASE worker[w].f # f
    <3>1. live'[f] = live[f]
      BY <1>a, <2>1, <2>4
    <3>2. w \notin InCall(f) /\ ~(w \in InCall(f))'
      BY <2>2, <2>4 DEF InCall
    <3>3. QED
      BY <1>c, <3>1, <3>2
  <2>5. QED
    BY <2>3, <2>4
<1>4. CASE Kill(w)
  <2>1. live' = live /\ worker'[w].st = "idle"
    BY <1>4, <1>a DEF Kill, Idle, books
  <2>2. ~(w \in InCall(f))'
    BY <2>1 DEF InCall
  <2>3. CASE w \in InCall(f)
    <3>1. live[f].tokens \in Nat /\ 0 \in 0..Charge
      BY <1>a, Constants DEF Spend
    <3>2. live'[f].tokens = live[f].tokens + 0
      BY <2>1, <3>1
    <3>3. QED
      BY <1>0, <1>b, <2>2, <2>3, <3>1, <3>2, CallOver
         DEF Finding!Next, Finding!Settle
  <2>4. CASE w \notin InCall(f)
    BY <1>c, <2>1, <2>2, <2>4
  <2>5. QED
    BY <2>3, <2>4
<1>5. QED
  BY <1>1, <1>2, <1>3, <1>4

LEMMA HumanMeters ==
  ASSUME TypeOK, TypeOK', CapsLimited, NEW f \in Rows,
         \/ RequeueWrite
         \/ \E g \in Rows : RequeueRead(g) \/ Iterate(g)
         \/ \E g \in Rows, grant \in Grants : Topup(g, grant)
         \/ \E c \in Panels : SaveCeiling(c)
         \/ \E p \in Prices : SetPrice(p)
  PROVE  Finding(f)!Next \/ UNCHANGED Finding(f)!meterVars
<1>0. /\ live \in [Rows -> Spend] /\ topups \in [Rows -> Ceiling]
      /\ topups' \in [Rows -> Ceiling]
      /\ high \in Nat /\ high' \in Nat /\ human \in Rows \cup {NoFinding}
  BY TypeParts DEF BooksTyped, RestTyped
<1>a. worker' = worker => InCall(f)' = InCall(f)
  BY DEF InCall
<1>b. InCall(f)' = InCall(f) =>
        Cardinality(InCall(f))' = Cardinality(InCall(f))
  OBVIOUS
<1>1. CASE RequeueWrite
  <2>1. CASE human = f
    <3>1. live'[f].tokens = 0 /\ UNCHANGED <<topups, high, worker>>
      BY <1>0, <1>1, <2>1 DEF RequeueWrite, NoSpend
    <3>2. Allowance(f)' = Allowance(f)
      BY <3>1 DEF Allowance
    <3>3. QED
      BY <1>a, <1>b, <3>1, <3>2 DEF Finding!Next, Finding!Reset
  <2>2. CASE human # f
    <3>1. live'[f].tokens = live[f].tokens /\ UNCHANGED <<topups, high, worker>>
      BY <1>0, <1>1, <2>2 DEF RequeueWrite
    <3>2. QED
      BY <1>a, <3>1, MeterRests
  <2>3. QED
    BY <2>1, <2>2
<1>2. CASE \/ \E g \in Rows : RequeueRead(g) \/ Iterate(g)
           \/ \E p \in Prices : SetPrice(p)
  <2>1. UNCHANGED <<live, topups, high, worker>>
    BY <1>2 DEF RequeueRead, Iterate, SetPrice, books, history
  <2>2. QED
    BY <1>a, <2>1, MeterRests
<1>3. CASE \E g \in Rows, grant \in Grants : Topup(g, grant)
  <2>1. PICK g \in Rows, grant \in Grants : Topup(g, grant)
    BY <1>3
  <2>2. UNCHANGED <<live, high, worker>>
    BY <2>1 DEF Topup, history
  <2>3. /\ topups[f].tokens \in Nat /\ topups'[f].tokens \in Nat
        /\ topups[f].tokens <= topups'[f].tokens
    <3>1. grant.tokens \in Nat /\ topups[f].tokens \in Nat
      BY <1>0, BudgetAssumption DEF Ceiling
    <3>2. topups'[f].tokens = IF f = g THEN topups[f].tokens + grant.tokens
                              ELSE topups[f].tokens
      BY <1>0, <2>1 DEF Topup
    <3>3. QED
      BY <3>1, <3>2
  <2>4. /\ Allowance(f)' \in Nat /\ Allowance(f) <= Allowance(f)'
    BY <1>0, <2>2, <2>3 DEF Allowance
  <2>5. QED
    BY <1>a, <1>b, <2>2, <2>4 DEF Finding!Next, Finding!Raise
<1>4. CASE \E c \in Panels : SaveCeiling(c)
  <2>1. PICK c \in Panels : SaveCeiling(c)
    BY <1>4
  <2>2. UNCHANGED <<live, topups, worker>>
    BY <2>1 DEF SaveCeiling, books
  <2>3. high <= high'
    <3>1. c.tokens \in Nat
      BY BudgetAssumption DEF Ceiling
    <3>2. QED
      BY <1>0, <2>1, <3>1 DEF SaveCeiling
  <2>4. topups[f].tokens \in Nat
    BY <1>0 DEF Ceiling
  <2>5. Allowance(f)' \in Nat /\ Allowance(f) <= Allowance(f)'
    BY <1>0, <2>2, <2>3, <2>4 DEF Allowance
  <2>6. QED
    BY <1>a, <1>b, <2>2, <2>5 DEF Finding!Next, Finding!Raise
<1>5. QED
  BY <1>1, <1>2, <1>3, <1>4

\* Every step of the program is a step of each finding's meter, or does not
\* touch it.
LEMMA StepMeters ==
  ASSUME TypeOK, TypeOK', CapsLimited, [Next]_vars, NEW f \in Rows
  PROVE  Finding(f)!Next \/ UNCHANGED Finding(f)!meterVars
<1>1. ASSUME NEW w \in Workers,
             \/ StopLoop(w) \/ Finish(w)
             \/ \E g \in Rows : \/ \E loop \in Nat : StartStage(w, g, loop)
                                \/ StartProvision(w, g)
                                \/ RefuseProvision(w, g)
             \/ \E child \in Children : Spawn(w, child)
      PROVE  UNCHANGED Finding(f)!meterVars
  <2>1. /\ \A v \in Workers \ {w} : worker'[v] = worker[v]
        /\ worker[w].st \in {"idle", "ready"}
        /\ worker'[w].st \in {"idle", "ready"}
        /\ UNCHANGED <<live, topups, high, panel>>
    BY <1>1, StageMoves
  <2>2. (w \in InCall(f))' = (w \in InCall(f))
    BY <2>1 DEF InCall
  <2>3. InCall(f)' = InCall(f)
    BY <2>1, <2>2, TypeParts, SameCalls
  <2>4. QED
    BY <2>1, <2>3, MeterRests
<1>2. CASE UNCHANGED vars
  BY <1>2, MeterRests DEF vars, books, history, InCall
<1>3. CASE Next
  BY <1>1, <1>3, NextCases, WorkerMeters, HumanMeters
<1>4. QED
  BY <1>2, <1>3

-----------------------------------------------------------------------------
LEMMA MeterStarts ==
  ASSUME Init, CapsLimited PROVE \A f \in Rows : Finding(f)!Init
<1>1. TypeOK
  BY InitTyped
<1>2. ASSUME NEW f \in Rows PROVE Finding(f)!Init
  <2>1. InCall(f) = {}
    BY DEF Init, Idle, InCall
  <2>2. high \in Nat \ {0}
    BY <1>1, TypeParts DEF RestTyped, CapsLimited
  <2>3. Allowance(f) \in Nat \ {0} /\ live[f].tokens = 0
    BY <2>2 DEF Init, Allowance, NoSpend
  <2>4. QED
    BY <2>1, <2>3, FS_EmptySet DEF Finding!Init
<1>3. QED
  BY <1>2

\* The numbers of a finding's meter.
LEMMA MeterNumbers ==
  ASSUME TypeOK, CapsLimited, NEW f \in Rows
  PROVE  live[f].tokens \in Nat /\ Allowance(f) \in Nat \ {0}
<1>1. /\ live[f].tokens \in Nat /\ topups[f].tokens \in Nat /\ high \in Nat
  BY TypeParts DEF BooksTyped, RestTyped, Spend, Ceiling
<1>2. high > 0
  BY <1>1 DEF CapsLimited
<1>3. QED
  BY <1>1, <1>2 DEF Allowance

LEMMA NextBounded ==
  ASSUME TypeOK, TypeOK', CapsLimited, CapsLimited', OverspendBounded,
         [Next]_vars
  PROVE  OverspendBounded'
<1>. SUFFICES ASSUME NEW f \in Rows
     PROVE (live[f].tokens + Cardinality(InCall(f)) * Charge
              < Allowance(f) + Cardinality(Workers) * Charge)'
  BY DEF OverspendBounded
<1>. DEFINE t == live[f].tokens
            a == Cardinality(InCall(f))
            l == Allowance(f)
            W == Cardinality(Workers)
<1>1. /\ t \in Nat /\ l \in Nat \ {0} /\ a \in Nat /\ a <= W
      /\ W \in Nat /\ Charge \in Nat
  BY MeterNumbers, FewCalls, Constants
<1>2. t' \in Nat /\ l' \in Nat \ {0}
  <2>1. live'[f].tokens \in Nat /\ topups'[f].tokens \in Nat /\ high' \in Nat
    BY TypeParts DEF BooksTyped, RestTyped, Spend, Ceiling
  <2>2. high' > 0
    BY <2>1 DEF CapsLimited
  <2>3. QED
    BY <2>1, <2>2 DEF Allowance
<1>3. a' \in Nat /\ a' <= W
  BY FewCallsNext
<1>4. t + a * Charge < l + W * Charge
  BY DEF OverspendBounded
<1>5. \/ t < l /\ t' = t /\ l' = l
      \/ /\ a = a' + 1 /\ l' = l
         /\ \E cost \in 0..Charge : t' = t + cost
      \/ l' >= l /\ t' = t /\ a' = a
      \/ t' = 0
  <2>1. Finding(f)!Next \/ UNCHANGED Finding(f)!meterVars
    BY StepMeters
  <2>2. CASE Finding(f)!Admit
    BY <2>2 DEF Finding!Admit
  <2>3. CASE Finding(f)!Settle
    <3>1. a' = a - 1 /\ l' = l /\ \E cost \in 0..Charge : t' = t + cost
      BY <2>3 DEF Finding!Settle
    <3>2. QED
      BY <1>1, <1>3, <3>1
  <2>4. CASE Finding(f)!Raise
    BY <2>4 DEF Finding!Raise
  <2>5. CASE Finding(f)!Reset
    BY <2>5 DEF Finding!Reset
  <2>6. CASE UNCHANGED Finding(f)!meterVars
    BY <1>1, <2>6 DEF Finding!meterVars
  <2>7. QED
    BY <2>1, <2>2, <2>3, <2>4, <2>5, <2>6 DEF Finding!Next
<1>. HIDE DEF t, a, l, W
<1>6. t' + a' * Charge < l' + W * Charge
  <2>1. CASE t < l /\ t' = t /\ l' = l
    BY <1>1, <1>2, <1>3, <2>1, BelowLimit
  <2>2. CASE /\ a = a' + 1 /\ l' = l
             /\ \E cost \in 0..Charge : t' = t + cost
    <3>1. PICK cost \in 0..Charge : t' = t + cost
      BY <2>2
    <3>2. cost \in Nat /\ cost <= Charge
      BY <1>1, <3>1
    <3>3. (t + cost) + a' * Charge < l + W * Charge
      BY <1>1, <1>3, <1>4, <2>2, <3>2, CallEnds
    <3>4. QED
      BY <2>2, <3>1, <3>3
  <2>3. CASE l' >= l /\ t' = t /\ a' = a
    BY <1>1, <1>2, <1>4, <2>3, HigherLimit
  <2>4. CASE t' = 0
    <3>1. t' < l'
      BY <1>2, <2>4
    <3>2. t' \in Nat /\ l' \in Nat
      BY <1>2
    <3>3. QED
      BY <1>1, <1>3, <3>1, <3>2, BelowLimit
  <2>5. QED
    BY <1>5, <2>1, <2>2, <2>3, <2>4
<1>7. QED
  BY <1>6 DEF t, a, l, W

\* The ceilings in force all limit tokens, and clients work under one of them.
LEMMA AlwaysLimited ==
  ASSUME Limited PROVE Spec => []CapsLimited
BY InitLimited, NextLimited, BudgetTyped, PTL DEF Spec

\* budget.py:24-27, for any number of workers on a finding and its children,
\* any prices, repairs and failures: what is on a finding's books and what
\* the calls under way may add stays below the largest allowance it ever had
\* plus one call of every worker.
THEOREM CeilingHolds ==
  ASSUME Limited PROVE Spec => []OverspendBounded
<1>1. ASSUME Init PROVE OverspendBounded
  <2>1. TypeOK /\ CapsLimited
    BY <1>1, InitTyped, InitLimited
  <2>2. ASSUME NEW f \in Rows
        PROVE live[f].tokens + Cardinality(InCall(f)) * Charge
                < Allowance(f) + Cardinality(Workers) * Charge
    <3>1. live[f].tokens < Allowance(f)
      BY <1>1, <2>1, MeterNumbers DEF Init, NoSpend
    <3>2. QED
      BY <2>1, <3>1, MeterNumbers, FewCalls, Constants, BelowLimit
  <2>3. QED
    BY <2>2 DEF OverspendBounded
<1>2. QED
  BY <1>1, NextBounded, AlwaysLimited, BudgetTyped, PTL DEF Spec

\* The books of every finding implement the meter: what Meter promises of a
\* limit holds of the program's ceilings.
THEOREM BooksAreMeters ==
  ASSUME Limited PROVE Spec => BudgetIsMeter
<1>1. Init => \A f \in Rows : Finding(f)!Init
  BY MeterStarts, InitLimited
<1>2. TypeOK /\ TypeOK' /\ CapsLimited /\ [Next]_vars
        => [\A f \in Rows : \/ Finding(f)!Next
                            \/ UNCHANGED Finding(f)!meterVars]_vars
  BY StepMeters
<1>3. QED
  BY <1>1, <1>2, AlwaysLimited, BudgetTyped, PTL DEF Spec, BudgetIsMeter

-----------------------------------------------------------------------------
(* A finding's whole life: one allowance per requeue.  LifetimeBounded     *)
(* itself is not inductive, since a requeue moves the live rows to the     *)
(* prior ones: the prior rows alone are worth the allowances already used. *)

MostPerRun(f) == Allowance(f) + Cardinality(Workers) * Charge

PriorPaid == \A f \in Rows : prior[f] <= resets[f] * MostPerRun(f)

LEMMA MostPerRunTyped ==
  ASSUME TypeOK, CapsLimited, NEW f \in Rows PROVE MostPerRun(f) \in Nat
<1>. DEFINE w == Cardinality(Workers) * Charge
<1>1. w \in Nat
  BY FewCalls, Constants, Product
<1>2. Allowance(f) \in Nat
  BY MeterNumbers
<1>. HIDE DEF w
<1>3. Allowance(f) + w \in Nat
  BY <1>1, <1>2
<1>4. QED
  BY <1>3 DEF MostPerRun, w

\* Only a requeue touches the prior rows, and only its own finding's.
LEMMA PriorMoves ==
  ASSUME [Next]_vars, TypeOK, NEW f \in Rows
  PROVE  \/ prior'[f] = prior[f] /\ resets'[f] = resets[f]
         \/ /\ prior'[f] = prior[f] + live[f].tokens
            /\ resets'[f] = resets[f] + 1
<1>1. CASE RequeueWrite
  <2>1. prior \in [Rows -> Nat] /\ resets \in [Rows -> Nat] /\ human \in Rows
    BY <1>1 DEF TypeOK, RequeueWrite
  <2>2. QED
    BY <1>1, <2>1 DEF RequeueWrite
<1>2. CASE \E w \in Workers :
             \/ StopLoop(w) \/ Finish(w)
             \/ (\E g \in Rows : \/ (\E loop \in Nat : StartStage(w, g, loop))
                                 \/ StartProvision(w, g)
                                 \/ RefuseProvision(w, g))
             \/ (\E child \in Children : Spawn(w, child))
             \/ Check(w) \/ Reply(w) \/ Unreachable(w) \/ Record(w) \/ Kill(w)
  <2>1. UNCHANGED <<prior, resets>>
    BY <1>2 DEF StopLoop, Finish, StartStage, StartProvision, RefuseProvision,
       Spawn, Check, Reply, Unreachable, Record, Kill, books, history
  <2>2. QED
    BY <2>1
<1>3. CASE \/ (\E g \in Rows : \/ RequeueRead(g) \/ Iterate(g)
                               \/ (\E grant \in Grants : Topup(g, grant)))
           \/ (\E c \in Panels : SaveCeiling(c))
           \/ (\E p \in Prices : SetPrice(p))
  <2>1. UNCHANGED <<prior, resets>>
    BY <1>3 DEF RequeueRead, Iterate, Topup, SaveCeiling, SetPrice, books,
       history
  <2>2. QED
    BY <2>1
<1>4. CASE UNCHANGED vars
  BY <1>4 DEF vars, books, history
<1>5. QED
  BY <1>1, <1>2, <1>3, <1>4, NextCases

\* What a finding may cost per requeue never shrinks.
LEMMA MostPerRunGrows ==
  ASSUME TypeOK, TypeOK', CapsLimited, CapsLimited', [Next]_vars, NEW f \in Rows
  PROVE  /\ MostPerRun(f) \in Nat /\ MostPerRun(f)' \in Nat
         /\ MostPerRun(f) <= MostPerRun(f)'
<1>. DEFINE w == Cardinality(Workers) * Charge
<1>1. w \in Nat
  BY FewCalls, Constants, Product
<1>2. Allowance(f) \in Nat
  BY MeterNumbers
<1>3. Allowance(f)' \in Nat
  BY TypeParts DEF BooksTyped, RestTyped, Spend, Ceiling, Allowance
<1>4. Allowance(f) <= Allowance(f)'
  <2>1. Finding(f)!Next \/ UNCHANGED Finding(f)!meterVars
    BY StepMeters
  <2>2. QED
    BY <1>2, <2>1 DEF Finding!Next, Finding!Admit, Finding!Settle,
       Finding!Raise, Finding!Reset, Finding!meterVars
<1>. HIDE DEF w
<1>5. Allowance(f) + w <= Allowance(f)' + w
  BY <1>1, <1>2, <1>3, <1>4
<1>6. QED
  BY <1>1, <1>2, <1>3, <1>5 DEF MostPerRun, w

\* What is on the books of a finding is worth less than one allowance.
LEMMA BooksBelow ==
  ASSUME TypeOK, CapsLimited, OverspendBounded, NEW f \in Rows
  PROVE  live[f].tokens \in Nat /\ live[f].tokens < MostPerRun(f)
<1>. DEFINE calls == Cardinality(InCall(f)) * Charge
            w == Cardinality(Workers) * Charge
<1>1. calls \in Nat /\ w \in Nat
  BY FewCalls, Constants, Product
<1>2. live[f].tokens \in Nat /\ Allowance(f) \in Nat
  BY MeterNumbers
<1>3. live[f].tokens + calls < Allowance(f) + w
  BY DEF OverspendBounded
<1>. HIDE DEF calls, w
<1>4. live[f].tokens < Allowance(f) + w
  BY <1>1, <1>2, <1>3
<1>5. QED
  BY <1>2, <1>4 DEF MostPerRun, w

LEMMA NextPaid ==
  ASSUME TypeOK, TypeOK', CapsLimited, CapsLimited', OverspendBounded,
         PriorPaid, [Next]_vars
  PROVE  PriorPaid'
<1>. SUFFICES ASSUME NEW f \in Rows
     PROVE (prior[f] <= resets[f] * MostPerRun(f))'
  BY DEF PriorPaid
<1>1. prior[f] \in Nat /\ resets[f] \in Nat /\ prior[f] <= resets[f] * MostPerRun(f)
  BY DEF TypeOK, PriorPaid
<1>2. /\ MostPerRun(f) \in Nat /\ MostPerRun(f)' \in Nat
      /\ MostPerRun(f) <= MostPerRun(f)'
  BY MostPerRunGrows
<1>3. CASE prior'[f] = prior[f] /\ resets'[f] = resets[f]
  BY <1>1, <1>2, <1>3, LargerAllowance
<1>4. CASE /\ prior'[f] = prior[f] + live[f].tokens
           /\ resets'[f] = resets[f] + 1
  <2>. DEFINE more == (resets[f] + 1) * MostPerRun(f)
  <2>1. live[f].tokens \in Nat /\ live[f].tokens < MostPerRun(f)
    BY BooksBelow
  <2>2. live[f].tokens + prior[f] < more /\ more \in Nat
    BY <1>1, <1>2, <2>1, AnotherAllowance, Product
  <2>. HIDE DEF more
  <2>3. prior'[f] \in Nat /\ prior'[f] <= more
    BY <1>1, <1>4, <2>1, <2>2
  <2>4. prior'[f] <= resets'[f] * MostPerRun(f)
    BY <1>4, <2>3 DEF more
  <2>5. QED
    BY <1>1, <1>2, <1>4, <2>3, <2>4, LargerAllowance
<1>5. QED
  BY <1>3, <1>4, PriorMoves

\* A requeue is the only way to a new allowance: whatever a finding was ever
\* charged, prior rows included, is less than one allowance for each time a
\* human queued it again, and one for the first time (budget.py:346-350).
THEOREM LifetimeHolds ==
  ASSUME Limited PROVE Spec => []LifetimeBounded
<1>1. ASSUME Init PROVE PriorPaid
  <2>1. TypeOK /\ CapsLimited
    BY <1>1, InitTyped, InitLimited
  <2>2. ASSUME NEW f \in Rows PROVE prior[f] <= resets[f] * MostPerRun(f)
    <3>1. prior[f] = 0 /\ resets[f] = 0
      BY <1>1 DEF Init
    <3>2. MostPerRun(f) \in Nat
      BY <2>1, MostPerRunTyped
    <3>3. QED
      BY <3>1, <3>2
  <2>3. QED
    BY <2>2 DEF PriorPaid
<1>2. Spec => []PriorPaid
  BY <1>1, NextPaid, AlwaysLimited, BudgetTyped, CeilingHolds, PTL DEF Spec
<1>3. ASSUME TypeOK, CapsLimited, OverspendBounded, PriorPaid
      PROVE  LifetimeBounded
  <2>1. ASSUME NEW f \in Rows
        PROVE  live[f].tokens + prior[f] < (resets[f] + 1) * MostPerRun(f)
    <3>1. /\ prior[f] \in Nat /\ resets[f] \in Nat
          /\ prior[f] <= resets[f] * MostPerRun(f)
      BY <1>3 DEF TypeOK, PriorPaid
    <3>2. MostPerRun(f) \in Nat
      BY <1>3, MostPerRunTyped
    <3>3. QED
      BY <1>3, <3>1, <3>2, BooksBelow, AnotherAllowance
  <2>2. QED
    BY <2>1 DEF LifetimeBounded, MostPerRun
<1>4. QED
  BY <1>2, <1>3, AlwaysLimited, BudgetTyped, CeilingHolds, PTL

-----------------------------------------------------------------------------
(* Nothing is lost on the way to the dashboard.  The sums over a family    *)
(* agree because they agree finding by finding: what a finding's calls     *)
(* were asked for is on its rows, in flight, or died with a process.       *)

CallsCounted ==
  \A g \in Rows :
    live[g].tokens + prior[g] + lost[g] + InFlight(g) = used[g]

\* What a worker has in flight for a finding.
Flying(me, g) ==
  IF me.f = g /\ me.st \in {"calling", "replied"} THEN me.delta ELSE 0

\* The calls on a finding and what they have cost, of any workers.
CallsOf(work, g) ==
  {v \in Workers : work[v].f = g /\ work[v].st \in {"calling", "replied"}}

Costs(work) == [v \in Workers |-> work[v].delta]

\* What the other workers have in flight, and this one.
LEMMA FlyingApart ==
  ASSUME NEW work \in [Workers -> WorkerState], NEW w \in Workers, NEW g
  PROVE  /\ SumFunctionOnSet(Costs(work), CallsOf(work, g) \ {w}) \in Nat
         /\ SumFunctionOnSet(Costs(work), CallsOf(work, g))
              = SumFunctionOnSet(Costs(work), CallsOf(work, g) \ {w})
                  + Flying(work[w], g)
         /\ Flying(work[w], g) \in Nat
<1>. DEFINE calls == CallsOf(work, g)
            costs == Costs(work)
            others == calls \ {w}
<1>1. /\ IsFiniteSet(calls) /\ IsFiniteSet(others)
      /\ others \subseteq calls /\ calls \subseteq Workers
  BY BudgetAssumption, FS_Subset DEF CallsOf
<1>2. \A v \in Workers : costs[v] = work[v].delta /\ costs[v] \in Nat
  BY Constants DEF WorkerState, Costs
<1>3. Flying(work[w], g) = IF w \in calls THEN costs[w] ELSE 0
  BY <1>2 DEF Flying, CallsOf
<1>. HIDE DEF calls, costs
<1>4. \A v \in calls : costs[v] \in Nat
  BY <1>1, <1>2
<1>5. SumFunctionOnSet(costs, others) \in Nat
  <2>1. \A v \in others : costs[v] \in Nat
    BY <1>4
  <2>. HIDE DEF others
  <2>2. QED
    BY <1>1, <2>1, SumFolds
<1>6. CASE w \in calls
  <2>1. SumFunctionOnSet(costs, calls)
          = costs[w] + SumFunctionOnSet(costs, others)
    BY <1>1, <1>4, <1>6, SumWithout
  <2>2. QED
    BY <1>2, <1>3, <1>5, <1>6, <2>1 DEF calls, costs
<1>7. CASE w \notin calls
  <2>1. others = calls
    BY <1>7
  <2>2. SumFunctionOnSet(costs, calls) = SumFunctionOnSet(costs, others)
    BY <2>1
  <2>3. QED
    BY <1>3, <1>5, <1>7, <2>2 DEF calls, costs
<1>8. QED
  BY <1>6, <1>7

LEMMA InFlightTyped ==
  ASSUME WorkersTyped, NEW g PROVE InFlight(g) \in Nat
<1>1. PICK w \in Workers : TRUE
  BY BudgetAssumption
<1>2. PICK work : work = worker
  OBVIOUS
<1>3. work \in [Workers -> WorkerState]
  BY <1>2 DEF WorkersTyped
<1>4. InFlight(g) = SumFunctionOnSet(Costs(work), CallsOf(work, g))
  BY <1>2 DEF InFlight, InCall, CallsOf, Costs
<1>. DEFINE others == SumFunctionOnSet(Costs(work), CallsOf(work, g) \ {w})
<1>5. /\ others \in Nat /\ InFlight(g) = others + Flying(work[w], g)
      /\ Flying(work[w], g) \in Nat
  BY <1>3, <1>4, FlyingApart
<1>. HIDE DEF others
<1>6. QED
  BY <1>5

\* A step of one worker changes what that worker has in flight.
LEMMA FlyingMoves ==
  ASSUME WorkersTyped, WorkersTyped', NEW w \in Workers, NEW g,
         \A v \in Workers \ {w} : worker'[v] = worker[v]
  PROVE  /\ InFlight(g) \in Nat /\ InFlight(g)' \in Nat
         /\ Flying(worker[w], g) \in Nat /\ Flying(worker'[w], g) \in Nat
         /\ InFlight(g)' + Flying(worker[w], g)
              = InFlight(g) + Flying(worker'[w], g)
<1>1. PICK before : before = worker
  OBVIOUS
<1>2. PICK after : after = worker'
  OBVIOUS
<1>3. before \in [Workers -> WorkerState] /\ after \in [Workers -> WorkerState]
  BY <1>1, <1>2 DEF WorkersTyped
<1>. DEFINE others == CallsOf(before, g) \ {w}
            now == SumFunctionOnSet(Costs(before), others)
            later == SumFunctionOnSet(Costs(after), others)
<1>4. others = CallsOf(after, g) \ {w}
  BY <1>1, <1>2 DEF CallsOf
<1>5. now = later
  <2>1. IsFiniteSet(others) /\ others \subseteq Workers \ {w}
    BY BudgetAssumption, FS_Subset DEF CallsOf
  <2>2. \A v \in Workers \ {w} : /\ Costs(before)[v] \in Nat
                                 /\ Costs(after)[v] = Costs(before)[v]
    BY <1>1, <1>2, <1>3, Constants DEF Costs, WorkerState
  <2>3. \A v \in others : /\ Costs(before)[v] \in Nat
                          /\ Costs(after)[v] = Costs(before)[v]
    BY <2>1, <2>2
  <2>. HIDE DEF others
  <2>4. QED
    BY <2>1, <2>3, SumSame
<1>6. InFlight(g) = SumFunctionOnSet(Costs(before), CallsOf(before, g))
  BY <1>1 DEF InFlight, InCall, CallsOf, Costs
<1>7. InFlight(g)' = SumFunctionOnSet(Costs(after), CallsOf(after, g))
  BY <1>2 DEF InFlight, InCall, CallsOf, Costs
<1>8. /\ now \in Nat /\ InFlight(g) = now + Flying(before[w], g)
      /\ Flying(before[w], g) \in Nat
  BY <1>3, <1>6, FlyingApart
<1>9. /\ later \in Nat /\ InFlight(g)' = later + Flying(after[w], g)
      /\ Flying(after[w], g) \in Nat
  <2>1. later = SumFunctionOnSet(Costs(after), CallsOf(after, g) \ {w})
    BY <1>4
  <2>. HIDE DEF others, later
  <2>2. QED
    BY <1>3, <1>7, <2>1, FlyingApart
<1>. HIDE DEF now, later
<1>10. QED
  BY <1>1, <1>2, <1>5, <1>8, <1>9

\* The workers rest.
LEMMA FlyingRests ==
  ASSUME worker' = worker, NEW g
  PROVE  InFlight(g)' = InFlight(g)
BY DEF InFlight, InCall

\* A worker between calls has nothing in flight.
LEMMA NothingFlies ==
  ASSUME WorkersTyped, NEW w \in Workers
  PROVE  worker[w].st \in {"idle", "ready"} => worker[w].delta = 0
<1>1. worker[w] \in WorkerState /\ WorkerOK(worker[w])
  BY DEF WorkersTyped
<1>2. worker[w].st \in {"idle", "ready"} => worker[w].delta <= 0 * MaxReply
  BY <1>1 DEF WorkerOK
<1>3. 0 * MaxReply = 0 /\ worker[w].delta \in Nat
  BY <1>1, Constants DEF WorkerState
<1>4. QED
  BY <1>2, <1>3

\* A worker outside a call neither spends nor books.
LEMMA StageCounted ==
  ASSUME TypeOK, TypeOK', CallsCounted, NEW w \in Workers,
         NEW f, NEW child, NEW loop,
         \/ f \in Rows /\ loop \in Nat /\ StartStage(w, f, loop)
         \/ f \in Rows /\ StartProvision(w, f)
         \/ f \in Rows /\ RefuseProvision(w, f)
         \/ StopLoop(w) \/ Finish(w)
         \/ child \in Children /\ Spawn(w, child)
  PROVE  CallsCounted'
<1>1. /\ \A v \in Workers \ {w} : worker'[v] = worker[v]
      /\ worker[w].st \in {"idle", "ready"}
      /\ worker'[w].st \in {"idle", "ready"}
  BY StageMoves
<1>2. UNCHANGED <<live, prior, lost, used>>
  BY DEF StartStage, StartProvision, RefuseProvision, StopLoop, Finish, Spawn,
     books, history
<1>3. WorkersTyped /\ WorkersTyped'
  BY TypeParts
<1>4. ASSUME NEW g \in Rows PROVE InFlight(g)' = InFlight(g)
  <2>1. Flying(worker[w], g) = 0 /\ Flying(worker'[w], g) = 0
    BY <1>1 DEF Flying
  <2>2. /\ InFlight(g) \in Nat /\ InFlight(g)' \in Nat
        /\ InFlight(g)' + Flying(worker[w], g)
             = InFlight(g) + Flying(worker'[w], g)
    BY <1>1, <1>3, FlyingMoves
  <2>3. QED
    BY <2>1, <2>2
<1>5. QED
  BY <1>2, <1>4 DEF CallsCounted

\* What one step of a call does to the books of the worker's finding and to
\* what the worker has in flight for it; other findings rest.
LEMMA CallAdds ==
  ASSUME TypeOK, NEW w \in Workers,
         \/ Check(w) \/ Reply(w) \/ Unreachable(w) \/ Record(w) \/ Kill(w)
  PROVE  /\ prior' = prior /\ worker[w].f \in Rows
         /\ \A g \in Rows :
              IF g = worker[w].f
              THEN live'[g].tokens + lost'[g] + Flying(worker'[w], g) + used[g]
                     = live[g].tokens + lost[g] + Flying(worker[w], g) + used'[g]
              ELSE /\ live'[g] = live[g] /\ lost'[g] = lost[g]
                   /\ used'[g] = used[g]
                   /\ Flying(worker[w], g) = 0 /\ Flying(worker'[w], g) = 0
<1>. DEFINE f == worker[w].f
            d == worker[w].delta
<1>1. /\ WorkersTyped /\ BooksTyped /\ price \in Nat
      /\ worker \in [Workers -> WorkerState] /\ worker[w] \in WorkerState
      /\ lost \in [Rows -> Nat] /\ used \in [Rows -> Nat]
      /\ live \in [Rows -> Spend] /\ d \in Nat
      /\ \A g \in Rows : live[g].tokens \in Nat
  BY TypeParts, Constants
     DEF WorkersTyped, RestTyped, BooksTyped, WorkerState, Spend
<1>2. /\ worker[w].st # "idle"
      /\ worker'[w].st = "idle" \/ worker'[w].f = f
  BY CallMoves
<1>3. f \in Rows
  BY <1>1, <1>2, OfRow
<1>4. \A g \in Rows : g # f => /\ Flying(worker[w], g) = 0
                               /\ Flying(worker'[w], g) = 0
  BY <1>2 DEF Flying
<1>5. CASE Check(w)
  <2>1. worker[w].st = "ready" /\ UNCHANGED <<live, prior, lost, used>>
    BY <1>5 DEF Check, books, history
  <2>2. d = 0
    BY <1>1, <2>1, NothingFlies
  <2>3. Flying(worker[w], f) = 0 /\ Flying(worker'[w], f) = 0
    <3>1. worker'[w].st = "idle" \/ worker'[w].delta = d
      BY <1>1, <1>5 DEF Check, Halt, Leave, Idle, WorkerState
    <3>2. QED
      BY <2>1, <2>2, <3>1 DEF Flying
  <2>4. QED
    BY <1>1, <1>3, <1>4, <2>1, <2>3
<1>6. CASE Unreachable(w)
  <2>1. worker[w].st = "calling" /\ UNCHANGED <<live, prior, lost, used>>
    BY <1>6 DEF Unreachable, books, history
  <2>2. /\ worker'[w].st = "replied" /\ worker'[w].f = f
        /\ worker'[w].delta = d
    BY <1>1, <1>6 DEF Unreachable, WorkerState
  <2>3. Flying(worker[w], f) = d /\ Flying(worker'[w], f) = d
    BY <2>1, <2>2 DEF Flying
  <2>4. QED
    BY <1>1, <1>3, <1>4, <2>1, <2>3
<1>7. CASE Record(w)
  <2>1. /\ worker[w].st = "replied" /\ UNCHANGED <<prior, lost, used>>
        /\ live' = [live EXCEPT ![f] = Recorded(w)]
    BY <1>7 DEF Record, history
  <2>2. worker'[w].st \in {"idle", "ready"}
    BY <1>1, <1>7 DEF Record, Leave, Idle, WorkerState
  <2>3. Flying(worker[w], f) = d /\ Flying(worker'[w], f) = 0
    BY <2>1, <2>2 DEF Flying
  <2>4. Recorded(w).tokens = live[f].tokens + d
    BY <1>1, <1>3, RecordTyped
  <2>5. /\ live'[f].tokens = live[f].tokens + d
        /\ \A g \in Rows : g # f => live'[g] = live[g]
    BY <1>1, <1>3, <2>1, <2>4
  <2>6. QED
    BY <1>1, <1>3, <1>4, <2>1, <2>3, <2>5
<1>8. CASE Kill(w)
  <2>1. /\ UNCHANGED <<live, prior, used>>
        /\ lost' = [lost EXCEPT ![f] = @ + d] /\ worker'[w].st = "idle"
    BY <1>1, <1>8 DEF Kill, Idle, books
  <2>2. Flying(worker[w], f) = d /\ Flying(worker'[w], f) = 0
    <3>1. worker[w].st \in {"ready", "calling", "replied"}
      BY <1>1, <1>2 DEF WorkerState
    <3>2. QED
      BY <1>1, <2>1, <3>1, NothingFlies DEF Flying
  <2>3. /\ lost'[f] = lost[f] + d
        /\ \A g \in Rows : g # f => lost'[g] = lost[g]
    BY <1>1, <1>3, <2>1
  <2>4. QED
    BY <1>1, <1>3, <1>4, <2>1, <2>2, <2>3
<1>9. CASE Reply(w)
  <2>1. PICK n \in MinReply..MaxReply :
          LET got == [worker[w] EXCEPT !.delta = @ + n, !.tries = @ + 1]
          IN  /\ used' = [used EXCEPT ![f] = @ + n]
              /\ \/ worker' = [worker EXCEPT ![w] = [got EXCEPT !.st = "replied"]]
                 \/ worker' = [worker EXCEPT ![w] = got]
                 \/ worker' = [worker EXCEPT ![w] =
                       [got EXCEPT !.st = "replied", !.failed = TRUE]]
    BY <1>9 DEF Reply
  <2>2. worker[w].st = "calling" /\ UNCHANGED <<live, prior, lost>>
    BY <1>9 DEF Reply, books
  <2>3. n \in Nat
    BY Constants
  <2>4. worker'[w].st \in {"calling", "replied"} /\ worker'[w].f = f
    BY <1>9, ReplyMoves
  <2>5. worker'[w].delta = d + n
    <3>. DEFINE got == [worker[w] EXCEPT !.delta = @ + n, !.tries = @ + 1]
                mes == {got, [got EXCEPT !.st = "replied"],
                        [got EXCEPT !.st = "replied", !.failed = TRUE]}
    <3>1. \A me \in mes : me.delta = d + n
      BY <1>1 DEF WorkerState
    <3>2. \E me \in mes : worker' = [worker EXCEPT ![w] = me]
      BY <2>1
    <3>. HIDE DEF mes
    <3>3. QED
      BY <1>1, <3>1, <3>2
  <2>6. Flying(worker[w], f) = d /\ Flying(worker'[w], f) = d + n
    BY <2>2, <2>4, <2>5 DEF Flying
  <2>7. /\ used'[f] = used[f] + n
        /\ \A g \in Rows : g # f => used'[g] = used[g]
    BY <1>1, <1>3, <2>1
  <2>8. QED
    BY <1>1, <1>3, <1>4, <2>2, <2>3, <2>6, <2>7
<1>10. QED
  BY <1>5, <1>6, <1>7, <1>8, <1>9

LEMMA Balance ==
  ASSUME NEW l \in Nat, NEW p \in Nat, NEW o \in Nat, NEW i \in Nat,
         NEW u \in Nat, NEW x \in Nat, l + p + o + i = u,
         NEW l2 \in Nat, NEW o2 \in Nat, NEW i2 \in Nat, NEW u2 \in Nat,
         NEW x2 \in Nat, i2 + x = i + x2, l2 + o2 + x2 + u = l + o + x + u2
  PROVE  l2 + p + o2 + i2 = u2
OBVIOUS

\* Every token that a call is charged is on the books, in flight or lost.
LEMMA CallCounted ==
  ASSUME TypeOK, TypeOK', CallsCounted, NEW w \in Workers,
         \/ Check(w) \/ Reply(w) \/ Unreachable(w) \/ Record(w) \/ Kill(w)
  PROVE  CallsCounted'
<1>1. /\ WorkersTyped /\ WorkersTyped'
      /\ \A v \in Workers \ {w} : worker'[v] = worker[v]
  BY TypeParts, CallMoves
<1>2. SUFFICES ASSUME NEW g \in Rows
      PROVE live'[g].tokens + prior'[g] + lost'[g] + InFlight(g)' = used'[g]
  BY DEF CallsCounted
<1>3. /\ live[g].tokens \in Nat /\ prior[g] \in Nat /\ lost[g] \in Nat
      /\ live'[g].tokens \in Nat /\ lost'[g] \in Nat
      /\ used[g] \in Nat /\ used'[g] \in Nat
  BY TypeParts DEF BooksTyped, RestTyped, Spend
<1>4. /\ InFlight(g) \in Nat /\ InFlight(g)' \in Nat
      /\ Flying(worker[w], g) \in Nat /\ Flying(worker'[w], g) \in Nat
      /\ InFlight(g)' + Flying(worker[w], g)
           = InFlight(g) + Flying(worker'[w], g)
  BY <1>1, FlyingMoves
<1>5. /\ prior' = prior
      /\ live'[g].tokens + lost'[g] + Flying(worker'[w], g) + used[g]
           = live[g].tokens + lost[g] + Flying(worker[w], g) + used'[g]
  <2>1. CASE g = worker[w].f
    BY <2>1, CallAdds
  <2>2. CASE g # worker[w].f
    <3>1. /\ prior' = prior /\ live'[g] = live[g] /\ lost'[g] = lost[g]
          /\ used'[g] = used[g]
          /\ Flying(worker[w], g) = 0 /\ Flying(worker'[w], g) = 0
      BY <2>2, CallAdds
    <3>2. QED
      BY <3>1
  <2>3. QED
    BY <2>1, <2>2
<1>6. live[g].tokens + prior[g] + lost[g] + InFlight(g) = used[g]
  BY DEF CallsCounted
<1>7. live'[g].tokens + prior[g] + lost'[g] + InFlight(g)' = used'[g]
  BY <1>3, <1>4, <1>5, <1>6, Balance
<1>8. QED
  BY <1>5, <1>7

\* A human spends nothing; a requeue moves rows from live to prior.
LEMMA HumanCounted ==
  ASSUME TypeOK, CallsCounted,
         \/ RequeueWrite
         \/ \E f \in Rows : \/ RequeueRead(f) \/ Iterate(f)
                            \/ \E grant \in Grants : Topup(f, grant)
         \/ \E c \in Panels : SaveCeiling(c)
         \/ \E p \in Prices : SetPrice(p)
  PROVE  CallsCounted'
<1>1. UNCHANGED <<worker, lost, used>>
  BY DEF RequeueWrite, RequeueRead, Iterate, Topup, SaveCeiling, SetPrice,
     books, history
<1>2. ASSUME NEW g \in Rows PROVE InFlight(g)' = InFlight(g)
  BY <1>1, FlyingRests
<1>3. ASSUME NEW g \in Rows
      PROVE  live'[g].tokens + prior'[g] = live[g].tokens + prior[g]
  <2>1. /\ live \in [Rows -> Spend] /\ prior \in [Rows -> Nat]
        /\ live[g].tokens \in Nat /\ prior[g] \in Nat
        /\ human \in Rows \cup {NoFinding}
    BY TypeParts DEF BooksTyped, RestTyped, Spend
  <2>2. CASE RequeueWrite
    <3>1. human \in Rows
      BY <2>1, <2>2 DEF RequeueWrite
    <3>2. CASE g = human
      <4>1. live'[g].tokens = 0 /\ prior'[g] = prior[g] + live[g].tokens
        BY <2>1, <2>2, <3>1, <3>2 DEF RequeueWrite, NoSpend
      <4>2. QED
        BY <2>1, <4>1
    <3>3. CASE g # human
      BY <2>1, <2>2, <3>1, <3>3 DEF RequeueWrite
    <3>4. QED
      BY <3>2, <3>3
  <2>3. CASE ~RequeueWrite
    BY <2>3 DEF RequeueRead, Iterate, Topup, SaveCeiling, SetPrice, books
  <2>4. QED
    BY <2>2, <2>3
<1>4. ASSUME NEW g \in Rows
      PROVE  live'[g].tokens + prior'[g] + lost[g] + InFlight(g)
               = live[g].tokens + prior[g] + lost[g] + InFlight(g)
  BY <1>3
<1>5. QED
  BY <1>1, <1>2, <1>4 DEF CallsCounted

LEMMA NextCounted ==
  ASSUME TypeOK, TypeOK', CallsCounted, [Next]_vars PROVE CallsCounted'
<1>1. CASE Next
  <2>1. ASSUME NEW w \in Workers,
               \/ StopLoop(w) \/ Finish(w)
               \/ \E f \in Rows : \/ \E loop \in Nat : StartStage(w, f, loop)
                                  \/ StartProvision(w, f)
                                  \/ RefuseProvision(w, f)
               \/ \E child \in Children : Spawn(w, child)
        PROVE  CallsCounted'
    BY <2>1, StageCounted
  <2>2. QED
    BY <1>1, <2>1, CallCounted, HumanCounted, NextCases
<1>2. CASE UNCHANGED vars
  <2>1. UNCHANGED <<live, prior, lost, used, worker>>
    BY <1>2 DEF vars, books, history
  <2>2. ASSUME NEW g \in Rows PROVE InFlight(g)' = InFlight(g)
    BY <2>1, FlyingRests
  <2>3. QED
    BY <2>1, <2>2 DEF CallsCounted
<1>3. QED
  BY <1>1, <1>2

\* budget.py:259-313, total_lifetime: for any families, workers, failures,
\* repairs, requeues and crashes, what the dashboard calls everything ever
\* spent under a finding is what the endpoints were asked for, save the calls
\* in flight and those that died with their process.
THEOREM NothingGoesMissing == Spec => []LifetimeIsAll
<1>1. Init => CallsCounted
  <2>. SUFFICES ASSUME Init PROVE CallsCounted
    OBVIOUS
  <2>1. ASSUME NEW g \in Rows PROVE InFlight(g) = 0
    <3>1. InCall(g) = {}
      BY DEF Init, InCall, Idle
    <3>2. IsFiniteSet({})
      BY FS_EmptySet
    <3>3. \A x \in {} : [w \in Workers |-> worker[w].delta][x] \in Nat
      OBVIOUS
    <3>4. SumFunctionOnSet([w \in Workers |-> worker[w].delta], {}) = 0
      BY <3>2, <3>3, SumFolds
    <3>5. QED
      BY <3>1, <3>4 DEF InFlight
  <2>2. QED
    BY <2>1 DEF Init, CallsCounted, NoSpend
<1>2. Spec => []CallsCounted
  BY <1>1, NextCounted, BudgetTyped, PTL DEF Spec
<1>3. ASSUME TypeOK, CallsCounted PROVE LifetimeIsAll
  <2>1. ASSUME NEW g \in Rows
        PROVE  live[g].tokens + prior[g] = used[g] - lost[g] - InFlight(g)
    <3>1. /\ live[g].tokens \in Nat /\ prior[g] \in Nat /\ lost[g] \in Nat
          /\ used[g] \in Nat
      BY <1>3, TypeParts DEF BooksTyped, RestTyped, Spend
    <3>2. InFlight(g) \in Nat
      BY <1>3, TypeParts, InFlightTyped
    <3>3. QED
      BY <1>3, <3>1, <3>2 DEF CallsCounted
  <2>2. [g \in Rows |-> live[g].tokens + prior[g]]
          = [g \in Rows |-> used[g] - lost[g] - InFlight(g)]
    BY <2>1
  <2>3. QED
    BY <2>2 DEF LifetimeIsAll, TotalLifetime
<1>4. QED
  BY <1>2, <1>3, BudgetTyped, PTL
=============================================================================
