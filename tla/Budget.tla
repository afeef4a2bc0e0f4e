------------------------------- MODULE Budget -------------------------------
(***************************************************************************)
(* The cost ceiling of budget.py and everything that spends under it: the  *)
(* metered client of a stage, the repair retries inside one metered call,  *)
(* the two loops with a dollar cap of their own (provision, investigation),*)
(* child findings, and the humans who requeue, unblock, top up, save a     *)
(* ceiling or configure a price.                                           *)
(*                                                                         *)
(* Tokens are counted in small units, dollars in tokens times the price.   *)
(***************************************************************************)
EXTENDS Integers, FiniteSets, Functions

CONSTANTS
  Findings, Children, \* rows that exist, rows the investigation may add
  Workers,
  NoFinding,
  ConfigCeiling,      \* max_*_per_finding of the configuration file
  DefaultCeiling,     \* DEFAULT_MAX_TOKENS, DEFAULT_MAX_USD
  Panels,             \* ceilings an operator may save in the panel
  Grants,             \* top-ups a human may grant
  Prices,             \* prices per token an operator may configure
  MinReply, MaxReply, \* what one reply costs: 0 when usage is not reported
  Attempts,           \* replies one chat_json may ask for (models.py: 3)
  InvestigationUsd,   \* investigation_max_usd, 0 when off
  MaxEvents           \* bound: human calls and crashes in a behaviour

Rows == Findings \cup Children
Ceiling == [tokens : Nat, usd : Nat]

ASSUME BudgetAssumption ==
  /\ IsFiniteSet(Workers) /\ Workers # {}
  /\ NoFinding \notin Rows
  /\ ConfigCeiling \in Ceiling
  /\ DefaultCeiling \in [tokens : Nat \ {0}, usd : Nat \ {0}]
  /\ Panels \subseteq Ceiling /\ Grants \subseteq Ceiling
  /\ Prices \subseteq Nat \ {0}
  /\ MaxReply \in Nat \ {0} /\ MinReply \in 0..MaxReply
  /\ Attempts \in Nat \ {0}
  /\ InvestigationUsd \in Nat /\ MaxEvents \in Nat

VARIABLES
  live,    \* the SPEND_KIND rows of a finding, summed: tokens, dollars of the
           \* priced rows, tokens of the rows written without a price
  prior,   \* tokens of its SPEND_PRIOR_KIND rows
  topups,  \* its ceiling_topup rows, summed
  fstate,  \* the row's state
  parent,  \* the finding a child was spawned from
  worker,  \* who runs which stage, and where its client is
  human,   \* the row a start_run thread has read and not yet written
  panel,   \* the ceiling saved in the meta table, or NoPanel
  price,   \* the configured price, 0 when there is none
  events   \* human calls and crashes so far

\* History, for the properties only.
VARIABLES
  high,    \* the largest token ceiling that was ever in force
  used,    \* what the endpoints were really asked for, per finding
  lost,    \* the part of it a killed worker never recorded
  resets   \* requeues of a finding by a human

books == <<live, prior, topups>>
history == <<high, used, lost, resets>>
vars == <<live, prior, topups, fstate, parent, worker, human, panel, price,
          events, history>>

NoPanel == [tokens |-> -1, usd |-> -1]
NoSpend == [tokens |-> 0, usd |-> 0, unpriced |-> 0]
Kinds == {"provision", "patch"}
Idle == [st |-> "idle", f |-> NoFinding, outer |-> NoFinding, kind |-> "patch",
         cap |-> [tokens |-> 0, usd |-> 0], loop |-> 0, tries |-> 0,
         delta |-> 0, failed |-> FALSE]

----------------------------------------------------------------------------
(* The ceiling *)

\* Ceiling.from_config: `x or DEFAULT`, so that a 0 in the file is the default.
FromConfig ==
  [u \in {"tokens", "usd"} |->
     IF ConfigCeiling[u] = 0 THEN DefaultCeiling[u] ELSE ConfigCeiling[u]]

LoadCeiling == IF panel = NoPanel THEN FromConfig ELSE panel

\* A limit of 0 is disabled, and stays so under a top-up.
EffectiveCeiling(f, base) ==
  [u \in {"tokens", "usd"} |->
     IF base[u] = 0 THEN 0 ELSE base[u] + topups[f][u]]

\* Rows written without a price are priced when they are read.
Spent(f) ==
  [tokens |-> live[f].tokens,
   usd    |-> live[f].usd + live[f].unpriced * price,
   priced |-> live[f].unpriced = 0 \/ price # 0]

\* Mutant: `>` for `>=`.
Passed(limit, amount) == limit > 0 /\ amount > limit

Reached(limit, amount) == limit > 0 /\ amount >= limit

\* Mutant: a finding is over its ceiling only when both limits are reached.
NeverExceeded(f, base) ==
  LET c == EffectiveCeiling(f, base)
  IN  Reached(c.tokens, Spent(f).tokens) /\ Reached(c.usd, Spent(f).usd)

\* budget.check raises.
Exceeded(f, base) ==
  LET c == EffectiveCeiling(f, base)
  IN  Reached(c.tokens, Spent(f).tokens) \/ Reached(c.usd, Spent(f).usd)

----------------------------------------------------------------------------
Init ==
  /\ live = [f \in Rows |-> NoSpend]
  /\ prior = [f \in Rows |-> 0]
  /\ topups = [f \in Rows |-> [tokens |-> 0, usd |-> 0]]
  /\ fstate = [f \in Rows |-> IF f \in Findings THEN "pending" ELSE "absent"]
  /\ parent = [f \in Rows |-> NoFinding]
  /\ worker = [w \in Workers |-> Idle]
  /\ human = NoFinding
  /\ panel = NoPanel
  /\ price \in Prices \cup {0}
  /\ events = 0
  /\ high = FromConfig.tokens
  /\ used = [f \in Rows |-> 0]
  /\ lost = [f \in Rows |-> 0]
  /\ resets = [f \in Rows |-> 0]

\* The row a worker's stage was entered for: the parent, while a child of it
\* is investigated.
StageRow(w) == IF worker[w].outer = NoFinding THEN worker[w].f
               ELSE worker[w].outer

\* The stage is over and the runner writes the row.  A failing child is
\* written too, except when the ceiling's exception passes through it.
Leave(w, state, child) ==
  /\ worker' = [worker EXCEPT ![w] = Idle]
  /\ fstate' = [f \in Rows |->
        CASE f = StageRow(w)   -> state
          [] f = worker[w].f /\ f # StageRow(w) /\ child # "asis" -> child
          [] OTHER             -> fstate[f]]

\* _client: a new metered client, with the ceiling of this moment.
Client(w, f, kind, loop) ==
  [Idle EXCEPT !.st = "ready", !.f = f, !.kind = kind, !.cap = LoadCeiling,
               !.loop = loop]

\* Mutant: every attempt starts with demoted rows, not only a requeue.
StartAfresh(w, f, loop) ==
  /\ worker[w].st = "idle"
  /\ fstate[f] = "pending"
  /\ fstate' = [fstate EXCEPT ![f] = "running"]
  /\ worker' = [worker EXCEPT ![w] = Client(w, f, "patch", loop)]
  /\ prior' = [prior EXCEPT ![f] = @ + live[f].tokens]
  /\ live' = [live EXCEPT ![f] = NoSpend]
  /\ UNCHANGED <<topups, parent, human, panel, price, events, history>>

\* A stage with a model starts.  The investigation of patch runs under a
\* dollar cap of the configuration, the other stages under none.
StartStage(w, f, loop) ==
  /\ worker[w].st = "idle"
  /\ fstate[f] = "pending"
  /\ fstate' = [fstate EXCEPT ![f] = "running"]
  /\ worker' = [worker EXCEPT ![w] = Client(w, f, "patch", loop)]
  /\ UNCHANGED <<books, parent, human, panel, price, events, history>>

\* provision looks at what is left of the dollars before it makes a pod, and
\* gives that to its loop as a cap.  Top-ups do not count here.
RemainingUsd(f) == LoadCeiling.usd - Spent(f).usd

NoBudget(f) == LoadCeiling.usd > 0 /\ RemainingUsd(f) <= 0

StartProvision(w, f) ==
  /\ worker[w].st = "idle"
  /\ fstate[f] = "pending"
  /\ ~NoBudget(f)
  /\ fstate' = [fstate EXCEPT ![f] = "running"]
  /\ worker' = [worker EXCEPT ![w] =
        Client(w, f, "provision",
               IF LoadCeiling.usd > 0 THEN RemainingUsd(f) ELSE 0)]
  /\ UNCHANGED <<books, parent, human, panel, price, events, history>>

RefuseProvision(w, f) ==
  /\ worker[w].st = "idle"
  /\ fstate[f] = "pending"
  /\ NoBudget(f)
  /\ fstate' = [fstate EXCEPT ![f] = "blocked"]
  /\ UNCHANGED <<books, parent, worker, human, panel, price, events, history>>

----------------------------------------------------------------------------
(* One metered call *)

\* The dollar cap of the loop itself, against everything the finding spent.
LoopCapMet(w) ==
  LET me == worker[w]
  IN  me.loop > 0 /\ Spent(me.f).priced /\ Spent(me.f).usd >= me.loop

StopLoop(w) ==
  /\ worker[w].st = "ready"
  /\ LoopCapMet(w)
  /\ Leave(w, "failed", "failed")
  /\ UNCHANGED <<books, parent, human, panel, price, events, history>>

\* Mutant: the stage catches the exception and asks again.
Ignore(w) == UNCHANGED <<worker, fstate>>

\* The stage wrapper turns CeilingExceeded into a blocked row.
Halt(w) == Leave(w, "blocked", "asis")

\* Metered._wrap, before the call.
Check(w) ==
  /\ worker[w].st = "ready"
  /\ ~LoopCapMet(w)
  /\ IF Exceeded(worker[w].f, worker[w].cap)
     THEN Halt(w)
     ELSE /\ worker' = [worker EXCEPT ![w].st = "calling"]
          /\ UNCHANGED fstate
  /\ UNCHANGED <<books, parent, human, panel, price, events, history>>

\* Mutant: every reply is answered with another request.
AnyAttempt(w) == TRUE

\* chat_json asks again while the reply cannot be used.
MayRetry(w) == worker[w].tries + 1 < Attempts

\* One reply of the endpoint, in a call that has been let through: it can be
\* used, is to be repaired, or ends the call in an error.
Reply(w) ==
  /\ worker[w].st = "calling"
  /\ \E n \in MinReply..MaxReply :
       LET got == [worker[w] EXCEPT !.delta = @ + n, !.tries = @ + 1]
       IN  /\ used' = [used EXCEPT ![worker[w].f] = @ + n]
           /\ \/ worker' = [worker EXCEPT ![w] = [got EXCEPT !.st = "replied"]]
              \/ /\ MayRetry(w)
                 /\ worker' = [worker EXCEPT ![w] = got]
              \/ worker' = [worker EXCEPT ![w] =
                    [got EXCEPT !.st = "replied", !.failed = TRUE]]
  /\ UNCHANGED <<books, fstate, parent, human, panel, price, events, high,
                 lost, resets>>

\* The endpoint cannot be reached.
Unreachable(w) ==
  /\ worker[w].st = "calling"
  /\ worker' = [worker EXCEPT ![w].st = "replied", ![w].failed = TRUE]
  /\ UNCHANGED <<books, fstate, parent, human, panel, price, events, history>>

\* Mutant: a call that failed is not put on the books.
Usable(w) ==
  [live[worker[w].f] EXCEPT
     !.tokens = @ + (IF worker[w].failed THEN 0 ELSE worker[w].delta),
     !.usd = @ + worker[w].delta * price]

\* budget.record: one row, priced if there is a price.
Recorded(w) ==
  [live[worker[w].f] EXCEPT
     !.tokens = @ + worker[w].delta,
     !.usd = @ + worker[w].delta * price,
     !.unpriced = @ + (IF price = 0 THEN worker[w].delta ELSE 0)]

\* The finally of _wrap books the call, whatever became of it; an error then
\* leaves the stage, and the runner retries or fails the row.
Record(w) ==
  /\ worker[w].st = "replied"
  /\ live' = [live EXCEPT ![worker[w].f] = Recorded(w)]
  /\ IF worker[w].failed
     THEN \E state \in {"pending", "failed"} : Leave(w, state, "asis")
     ELSE /\ worker' = [worker EXCEPT ![w].st = "ready", ![w].delta = 0,
                                      ![w].tries = 0]
          /\ UNCHANGED fstate
  /\ UNCHANGED <<prior, topups, parent, human, panel, price, events, history>>

----------------------------------------------------------------------------
(* Stages end, investigations have children, workers die *)

\* The stage has what it wanted, or gives up.  A child that was proved
\* keeps the state it was inserted with.
Finish(w) ==
  /\ worker[w].st = "ready"
  /\ \/ Leave(w, "pending", "asis")
     \/ Leave(w, "failed", "failed")
  /\ UNCHANGED <<books, parent, human, panel, price, events, history>>

\* A patch that crashes elsewhere is followed into a child, with a client
\* and a ceiling of the child's own.
Spawn(w, child) ==
  /\ worker[w].st = "ready" /\ worker[w].kind = "patch"
  /\ fstate[child] = "absent"
  /\ fstate' = [fstate EXCEPT ![child] = "pending"]
  /\ parent' = [parent EXCEPT ![child] = worker[w].f]
  /\ worker' = [worker EXCEPT ![w] =
        [Client(w, child, "patch", worker[w].loop) EXCEPT
           !.outer = StageRow(w)]]
  /\ UNCHANGED <<books, human, panel, price, events, history>>

\* The process dies; what an unfinished call cost is recorded nowhere.
Kill(w) ==
  /\ worker[w].st # "idle" /\ events < MaxEvents
  /\ events' = events + 1
  /\ lost' = [lost EXCEPT ![worker[w].f] = @ + worker[w].delta]
  /\ worker' = [worker EXCEPT ![w] = Idle]
  /\ UNCHANGED <<books, fstate, parent, human, panel, price, high, used,
                 resets>>

----------------------------------------------------------------------------
(* Humans *)

\* start_run(finding), in a thread of its own: it reads the row ...
RequeueRead(f) ==
  /\ human = NoFinding /\ events < MaxEvents
  /\ fstate[f] \in {"blocked", "failed"}
  /\ human' = f
  /\ UNCHANGED <<books, fstate, parent, worker, panel, price, events, history>>

\* ... and then makes its spend rows prior ones, for the audits, and queues
\* it, in whatever state it is by now.
RequeueWrite ==
  /\ human # NoFinding
  /\ prior' = [prior EXCEPT ![human] = @ + live[human].tokens]
  /\ live' = [live EXCEPT ![human] = NoSpend]
  /\ fstate' = [fstate EXCEPT ![human] = "pending"]
  /\ resets' = [resets EXCEPT ![human] = @ + 1]
  /\ human' = NoFinding
  /\ events' = events + 1
  /\ UNCHANGED <<topups, parent, worker, panel, price, high, used, lost>>

\* iterate queues a finding again, from whatever state; its spend stays.
Iterate(f) ==
  /\ fstate[f] \in {"blocked", "failed", "running"} /\ events < MaxEvents
  /\ fstate' = [fstate EXCEPT ![f] = "pending"]
  /\ events' = events + 1
  /\ UNCHANGED <<books, parent, worker, human, panel, price, history>>

SaveCeiling(c) ==
  /\ c \in Panels /\ events < MaxEvents
  /\ panel' = c
  /\ high' = IF c.tokens > high THEN c.tokens ELSE high
  /\ events' = events + 1
  /\ UNCHANGED <<books, fstate, parent, worker, human, price, used, lost,
                 resets>>

Topup(f, g) ==
  /\ g \in Grants /\ events < MaxEvents
  /\ fstate[f] # "absent"
  /\ topups' = [topups EXCEPT ![f] =
        [u \in {"tokens", "usd"} |-> topups[f][u] + g[u]]]
  /\ events' = events + 1
  /\ UNCHANGED <<live, prior, fstate, parent, worker, human, panel, price,
                 history>>

SetPrice(p) ==
  /\ p \in Prices /\ events < MaxEvents
  /\ price' = p
  /\ events' = events + 1
  /\ UNCHANGED <<books, fstate, parent, worker, human, panel, history>>

Clients ==
  \E w \in Workers :
    \/ StopLoop(w) \/ Check(w) \/ Reply(w) \/ Unreachable(w) \/ Record(w)
    \/ Finish(w) \/ Kill(w)
    \/ \E f \in Rows : \/ \E loop \in {0, InvestigationUsd} :
                            StartStage(w, f, loop)
                       \/ StartProvision(w, f)
                       \/ RefuseProvision(w, f)
    \/ \E child \in Children : Spawn(w, child)

Human ==
  \/ RequeueWrite
  \/ \E f \in Rows : \/ RequeueRead(f) \/ Iterate(f)
                     \/ \E g \in Grants : Topup(f, g)
  \/ \E c \in Panels : SaveCeiling(c)
  \/ \E p \in Prices : SetPrice(p)

Next == Clients \/ Human

Spec == Init /\ [][Next]_vars

\* A thread that is in a call or a check goes on: the endpoint answers or
\* times out, and nothing in a worker waits for another.
GoOn(w) == StopLoop(w) \/ Check(w) \/ Reply(w) \/ Unreachable(w) \/ Record(w)

Fairness == \A w \in Workers : WF_vars(GoOn(w))

FairSpec == Spec /\ Fairness

----------------------------------------------------------------------------
(* Properties *)

Charge == Attempts * MaxReply

InCall(f) == {w \in Workers : worker[w].f = f
                             /\ worker[w].st \in {"calling", "replied"}}

Spend == [tokens : Nat, usd : Nat, unpriced : Nat]
FState == {"absent", "pending", "running", "blocked", "failed"}
WorkerState ==
  [st : {"idle", "ready", "calling", "replied"}, f : Rows \cup {NoFinding},
   outer : Rows \cup {NoFinding}, kind : Kinds, cap : Ceiling, loop : Nat,
   tries : 0..Attempts, delta : 0..Charge, failed : BOOLEAN]

\* A worker in a stage has a finding; one reply after the other is charged,
\* and a call that may go on has asked fewer times than it may.
WorkerOK(me) ==
  /\ (me.st = "idle") = (me.f = NoFinding)
  /\ me.delta <= me.tries * MaxReply
  /\ me.st = "calling" => me.tries < Attempts
  /\ me.st \in {"idle", "ready"} => me.tries = 0

\* Types, and what a worker's record always satisfies.
TypeOK ==
  /\ live \in [Rows -> Spend]
  /\ prior \in [Rows -> Nat]
  /\ topups \in [Rows -> Ceiling]
  /\ fstate \in [Rows -> FState]
  /\ parent \in [Rows -> Rows \cup {NoFinding}]
  /\ worker \in [Workers -> WorkerState]
  /\ \A w \in Workers : WorkerOK(worker[w])
  /\ human \in Rows \cup {NoFinding}
  /\ panel \in Panels \cup {NoPanel}
  /\ price \in Nat
  /\ events \in Nat
  /\ high \in Nat
  /\ used \in [Rows -> Nat]
  /\ lost \in [Rows -> Nat]
  /\ resets \in [Rows -> Nat]

\* The largest token allowance a finding ever had.
Allowance(f) == high + topups[f].tokens

\* "A single call may overshoot the ceiling, but the next one will not
\* happen" (budget.py:24-27), with several workers on one finding and repairs
\* inside one call: what is recorded, and what the calls in flight may add,
\* stays below the allowance plus one call of every worker.
OverspendBounded ==
  \A f \in Rows : live[f].tokens + Cardinality(InCall(f)) * Charge
                    < Allowance(f) + Cardinality(Workers) * Charge

\* Only a human requeue starts a new allowance: over its whole life a
\* finding has been charged at most one allowance more than it was requeued
\* (server.py:126-134, budget.py:346-350).
LifetimeBounded ==
  \A f \in Rows : live[f].tokens + prior[f]
                    < (resets[f] + 1)
                        * (Allowance(f) + Cardinality(Workers) * Charge)

\* The finding, its children, their children.
Family(f) ==
  LET within[n \in Nat] ==
        IF n = 0 THEN {f}
        ELSE within[n - 1] \cup {g \in Rows : parent[g] \in within[n - 1]}
  IN  within[Cardinality(Children)]

\* total_lifetime.
TotalLifetime(f) ==
  SumFunctionOnSet([g \in Rows |-> live[g].tokens + prior[g]], Family(f))

\* What the calls under way have cost so far.
InFlight(f) ==
  SumFunctionOnSet([w \in Workers |-> worker[w].delta], InCall(f))

\* What the dashboard calls everything ever spent under a finding is what
\* the endpoint was asked for on its behalf, its children's calls, failed
\* calls and requeued attempts included, save calls in flight and the calls
\* that died with their process.
LifetimeIsAll ==
  \A f \in Rows :
    TotalLifetime(f) =
      SumFunctionOnSet([g \in Rows |-> used[g] - lost[g] - InFlight(g)],
                       Family(f))

\* Without new money or a requeue from a human, a ceiling ends every stage
\* by itself, whatever the model answers: nothing runs all night.
RunawayStops ==
  \A w \in Workers : worker[w].st # "idle" ~> worker[w].st = "idle"

\* The ceiling in use has a token limit.
Limited == \A p \in Panels : p.tokens # 0

\* The meter of a finding.
Finding(f) == INSTANCE Meter WITH
  total <- live[f].tokens, admitted <- Cardinality(InCall(f)),
  limit <- Allowance(f), Callers <- Cardinality(Workers)

\* Per finding, the books implement the meter: Finding(f)!Spec for every f.
BudgetIsMeter ==
  /\ \A f \in Rows : Finding(f)!Init
  /\ [][\A f \in Rows : \/ Finding(f)!Next
                        \/ UNCHANGED Finding(f)!meterVars]_vars
=============================================================================
