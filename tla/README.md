# PatchWing in TLA+

PatchWing takes a vulnerability advisory, reproduces the bug in a container, has
a model write a fix, and proves the fix by running the reproducer: red before,
green after, red again when the fix is taken back. This directory holds TLA+
models of that program, TLC runs that check them on small instances, and TLAPS
proofs of what holds for every size. Source paths below are relative to
`src/patchwing/`; definitions keep the source's names where they can.

## 1. The system

State lives in one SQLite file, in containers, in the local image registry, and
nowhere else. A *finding* is a row with a `stage`, a `state`, an `attempts`
counter, an `error` text and the `container_id` of its pod. Workers (a
command-line run, or the web server's run thread) take the oldest pending row,
run the function registered for its stage, and write back what the result says.
Humans requeue, unblock, sign off, iterate, top up or save a spec through the web
server, from other threads and other connections.

| Component | State | Operations | What makes it correct | Module |
|---|---|---|---|---|
| store (`store.py`) | findings, artifacts, meta | add, claim_next, update, get | one holder per finding; nothing queued is out of reach | Pipeline |
| runner (`runner.py`) | none but the claimed row | run, `_advance` by result, teardown, harness failure, unblock | stages in order, bounded retries, pods removed once, always returns | Pipeline |
| stages (`stages.py`) | artifacts; the pod | ingest, localize, provision, reproduce, patch, verify, package, review | safe to run twice; one pod per finding | Pipeline (results), the others (bodies) |
| investigation (`stages.py`) | the pod's file and build; conversation; child rows | turn, edit-build-run-rollback, recursion into children | ends; a proved chain is real; leaves the original text | FixLoop |
| verify (`stages.py`) | the pod; `reproducer_lock` | write, build, run, revert, rebuild, rerun, rule | judges the patch it names, only that | FixLoop, Verdict |
| pods (`sandbox.py`) | containers | start, attach, exec, read, write, remove | never swapped under the evidence | Pipeline, FixLoop |
| human calls (`server.py`) | rows, artifacts, ceiling, price | start_run, unblock, signoff, iterate_once_more, top-up, save ceiling, save spec, promote | do not undo a worker's step, a machine never signs off | Pipeline, Budget, Verdict |
| provision (`provision.py`, `provision_checks.py`) | pod, images, the loop's locals | gates, turns, commits, checks, script, spec | the image in a spec passed its checks, and is what reproduce builds on | Provision |
| template builder (`template_*.py`) | image tag, `pod_templates` row | record, build, inspect, verify, persist | a template is what was verified; no orphan images | Templates |
| cost ceiling (`budget.py`, `models.py`) | spend and top-up artifacts | check before a call, record after it, top-up, demotion | no unattended overspend; nothing spent is lost | Budget, Meter |
| classifier (`states.py`, `http_parse.py`) | none | sanitizer and http decision tables | red only for the tracked bug, green only from evidence | Reading |
| wall (`wall.py`) | manifest in the lock | shape of the command, freeze, check, harden | the reproducer that decides did not change | Wall |
| edit blocks (`edit.py`) | none | parse, apply | unique match, sequential | Edit |
| spec (`spec.py`, `cli.py`) | spec artifacts | ingest, operator save, provision | what reproduce reads was validated | Verdict |
| feeds, fetch, bundle, auth, config, tools, outcomes, ecosystems, web pages | tables, files | I/O, parsing, rendering | | none (section 7) |

How they interact: the runner calls a stage with a row it read at the claim; a
stage may write the same row (the pod's id), insert rows (children), spend under
the finding's ceiling, and run commands in the pod that a later stage attaches
to; the runner then writes the result over the row and removes the pod when the
finding is over. Human calls read a row, decide, and write it by id with no
condition. What reproduce sees is frozen in a lock that patch and verify, much
later, compare with. So the hard parts are:

* two workers, and a worker and a human, between a read and the write it led to;
* the three steps of the end of a finding: row, container, column;
* exceptions at any point, and the retries they get;
* what one stage leaves in the pod for the next, after a timeout, an exception,
  a ceiling, a child investigation, or a server that was left running;
* child findings, which are rows like any other, with a ceiling of their own;
* a ceiling that is read before a call and charged after it, by several workers,
  with humans who raise, lower, top up and requeue in between;
* tags that are compared at one step and used at another, and images committed
  while the pod goes on changing;
* identities, rules and hashes taken at one run and compared at another, of
  outputs cut in different places;
* crashes, and containers and images that vanish.

`PROJECT.json` lists these at their lines under "hazards", with the properties
that look at each of them.

## 2. The modules

| Module | Models | Uses |
|---|---|---|
| `WorkQueue` | abstract: a queue of jobs with one holder each, which comes back parked, closed, or queued with strictly more progress | |
| `Pipeline` | store, runner, every stage by its results, pods, human calls, child rows, crashes | |
| `PipelineQueue` | the refinement mapping from `Pipeline` to `WorkQueue` | both |
| `FixLoop` | one finding through patch and verify: file, build and server in the pod, investigation loop with nested children, rollback legs, retries | |
| `Meter` | abstract: a limit, admitted calls, a total charged later | |
| `Budget` | ceilings, books, metered calls with their repairs, children, humans | `Meter` (by `INSTANCE`) |
| `Templates` | a template's tag, images, row, racing builders | |
| `Provision` | one finding through provision and reproduce, beside the registry | `Templates` |
| `Edit`, `Reading`, `Wall` | edit blocks; outputs and readings; commands and hashes: operators | |
| `Verdict` | one finding's specification, lock and readings from reproduce to the verdict | `Edit`, `Reading`, `Wall` |
| `MCPipeline`, `MCFixLoop`, `MCBudget`, `MCProvision`, `MCVerdict` | values for TLC | |
| `PipelineProofs`, `PipelineSafety`, `FixLoopProofs`, `Amounts`, `MeterProofs`, `BudgetProofs`, `ProvisionProofs`, `VerdictProofs` | theorems and proofs (section 6) | |

`Pipeline` treats a stage's body as the set of results it can return. `Provision`,
`FixLoop`, `Budget` and `Verdict` open that body, each along one concern, and keep
of the row only what that concern reads. They are not composed into one state
space; what they share is the stage results, which each of them takes from the
code.

### Pipeline

`row` is the findings table, `art` which artifacts exist (those later stages ask
for), `now` the creation clock, `pods` the live containers. A worker has a
program counter, the row it claimed (`job`), the copy of it that it works on
(`snap`), and the result of the stage (`res`). One action stands for what
happens between two places where another thread's write can come in:
`claim_next` is three actions (`ClaimSelect`, `ClaimUpdate` or `ClaimLost`,
`Fetch`), a stage is entered, gets its pod (`AttachPod`, `CreatePod`, `PodLost`),
pins it (`PinPod`) and returns; `_advance` is one action per branch, and the
teardown two more (`TearDown` removes the container, `ClearPod` the name in the
row). The human calls are pairs of a read and a write. A stage's body is the set
of results it can return, with and without a pod, together with the artifacts a
result leaves.

Both writes of `container_id` may fail: `_pin_container` and `_teardown_pod`
swallow the exception and go on (`stages.py:847`, `runner.py:170`), so a stage may
work in a pod that no row names, and a closed row may go on naming a removed one.
The fault is `dbfail`, and two history variables that no action reads keep apart
what it excuses: `unwritten`, the findings whose column once could not be written,
and `owner`, the finding each container was started for.

Bounds: `MaxEvents` caps human calls and faults in a behaviour, `MaxIterations`
the iterations. The code's own cap (`server.py:697`) compares the setting with the
number of patch artifacts, which each iteration deletes: the default of 1 refuses
as soon as there is a patch to iterate on, 2 or more never refuse. The model's
bound stands for a setting of the second kind. `MaxAttempts` is `Runner.max_attempts`, which nothing in the
code sets to another value than 3; runs that say 2 look at the boundary sooner.

### FixLoop

`tree`, `built` and `server` are the pod: the file, the version the program was
built from, and the version a reproducer's server still runs. `loop` is the
stack of activations of `_run_investigation_loop`, each with the text it reverts
to, the crash identity it is after, and its turn. `cand` is `applied.text`,
`patch` the artifact, `pre` verify's `pre_source`. A build that exits 0 need not
have compiled the file (fault `stale`): `built` then stays what it was, as the code
only reports an unchanged artifact and runs it (`stages.py:3847`). `hit` remembers
what the faults so far may have left behind, a patch in the tree or an old program,
for the properties that depend on it: `CleanSource` on the first, the three about
verdicts on the second, by the name `BuildsConsume`. The contents of the file are a
handful of versions; `Crash` says what the reproducer shows of each, `Decode`
what reading a file with `errors='replace'` makes of it. A reading is computed
from the identity as the sanitizer table does, or is a harness fault.

Where the code tells sanitizer and http reproducers apart (the stale-daemon
guard, readings that ignore a timeout) the model's flag is `target.daemon`, an
http reproducer that leaves its server running, which is what provision asks
http reproducers to do.

Bounds: `MaxTurns`, `MaxDepth` and `MaxAttempts` are settings of the code, at
small values.

### Meter and Budget

`live`, `prior` and `topups` are the artifacts that `budget.py` adds up: spend
(with and without a price), spend demoted by a requeue, and grants. A worker's
record holds its stage, the finding its client is metered for, the ceiling the
client was made with (`cap`, which a later save does not change), the loop's own
dollar count, and the replies of the call under way (`tries`, `delta`). `Check`
admits a call; each reply costs something and may be refused, repaired or fail;
the call is recorded whole, or never if the process dies. `parent` and the
children are the rows of child investigations: they have an id, hence a ceiling,
of their own. `panel` and `price` are what the operator saved.

`high`, `used`, `lost` and `resets` are history variables that no action reads:
the largest ceiling that was in force, what the endpoint was asked for, what died
unrecorded, and how often a human started a new allowance.

Dollars are tokens times a price, and both are small numbers. Bounds: `MaxEvents`
human calls and deaths, `MinReply` and `MaxReply` the size of a reply.

`Meter` is what a ceiling promises whatever keeps the books: admit while the
recorded total is below the limit, charge once, the limit only rises.

### Templates and Provision

`Templates` is the registry side: `tag` is the image behind the template's name,
`images` how many were ever there (digests are numbers), `row` the table row with
the digest seen at build time, and each builder is somewhere between its build
and its row. Every step of `build_template` (commit, inspect, verification run,
persist, mark) can fail or be the last. Anybody can remove the image or put another
behind the tag at any time, in particular between the inspection, which reads the
digest, and the verification pod, which is made from the tag
(`template_builder.py:384`, `400`). `verified`, `leaked` and `raced` are history: the
digests a verification pod ran on, whether something was left without its row, and
whether the tag has moved inside that gap.

`Provision` is one finding: the short circuit of a prebuilt image, the template
gate, the pod (created or attached), the bootstrap of an ecosystem finding, the
turns of the model with their nudges, tool calls, dones, forced re-commits and
the stuck test on signatures of failed checks, then script, commit, spec, and the
build, the run and the freeze of reproduce. The build runs in the pinned pod, which
is never committed again, and may leave anything there (`BuildFirst`); `pod.built`
remembers it. Containers and images are known by how far they
are set up and by what is in `/reproduce.pw.sh`; a check is a set of setups it
fails. `loop` are the locals of `run_provision_loop`.

Bounds: `MaxRuns` times the finding is queued, `MaxImages` ever put behind the
tag; `TagSetups` are the setups that a recipe, or anybody, puts there. `MaxTurns`, `PerTurn`, `ForceEvery` and `Streak` are the code's 60, 5, 8 and 3
at small values. The count of tool calls stops at `ForceEvery`, since only that
comparison reads it.

### Edit, Reading, Wall and Verdict

`Edit` applies blocks as `edit.py` does: each must occur once, counted without
overlaps, in the text that the blocks before it left. `Reading` is the tail that
is read, the http parser over classified lines, the two decision tables and the
choice of identity in `_classify_repro`, with the parse-miss backstop. `Wall` is
the shape check with its exemptions, the hashes taken before a patch exists and
their comparison.

`Verdict` runs a finding through them: a spec as ingest, the operator or provision
stored it, reproduce with its refusals and the lock, the patch and its test in the
loop, both hash comparisons, the patched run, the revert and the conclusion.
The recursions of the code (the count of non-overlapping occurrences, the blocks
applied one after the other, the separator that waits for its value) are recursive
functions of a position, so that the proofs can reason about them.
verify is four steps, since builds and runs lie between them: the comparison before
the build (`WallHolds`), the patched run (`VerifyRun`), the one after the revert
(`Rollback`) and the second comparison with the conclusion (`Conclude`). Between any
two steps the patched program or its build may write to a file of the pod (`Touch`)
or put back what was there (`Restore`). `ran` and `restored` are history: what the
script held when each leg ran it, and whether it was put back between the two
comparisons. A program answers alike each time it runs on the same text with the
frozen reproducer; with a reproducer that was written to it may answer anything.
Timeouts, builds and retries are in `FixLoop`.

Bounds: the window of `tail(8000)` is five lines; the outputs are those that the
tables tell apart (section 3).

## 3. The runs

All runs say `CHECK_DEADLOCK FALSE`: when every finding is closed or waits for a
human, nothing is left to do.

| Run | Instance | Shows |
|---|---|---|
| `workers` | 2 workers, 2 findings, 2 pods, 2 error signatures, exceptions everywhere, one failing write of the column, 3 attempts | `TypeOK`, `OneHolder`, `OneHarnessRetry`, `PodAccounted`, `ClosedPodRemoved`, `StagesInOrder` |
| `runs` | 2 workers under fairness, 1 pod, one finding on a host target (its exception the only one), 2 attempts | `RunTerminates`, `RunDrains`, `ImplementsQueue` |
| `humans` | the server's worker, an operator, any 2 human calls or failing writes, 2 iterations, 3 attempts | `NoStrandedPending`, `NeverSelfSigned`, `AttachFindsPod` |
| `faults` | 2 workers, one crash, lost pod, failed removal, failing write or child finding | `PodNeverSwapped` |
| `chain` | 1 finding, all 8 kinds of target, all faults, stale builds among them, 5 texts, 2 turns, nesting of three | `TypeOK`, `CleanSource`, `ProvedPatchIsGreen`, `ChainIsReal`, `RejectionIsFair`, `StageEnds` |
| `spend` | 2 workers, a finding and a child, every human call on money or a crash | `TypeOK`, `OverspendBounded`, `LifetimeBounded`, `LifetimeIsAll`, `BudgetIsMeter` |
| `runaway` | 1 worker under fairness, a model that is never satisfied, wider ceilings and the investigation's own cap | `RunawayStops` |
| `provision` | 4 kinds of finding, 3 setups, 2 checks, 2 scripts, a builder, 2 images and a tag that moves at any time, a requeue | `TypeOK`, `ImagePassedChecks`, `BuildStartsFromImage`, `FrozenIsRunIfCommittedLast`, `RowIsVerified`, `NoOrphanTag`, `StartsWarm`, `ProvisionEnds` |
| `verdict` | 21 specs, 12 sanitizer outputs, the http exchanges of every layout, 9 replies, a reproducer that is written to and put back | `TypeOK`, `RedAgain`, `RedIsTracked`, `GreenIsAffirmative`, `VerdictIsWalled`, `EditIsLocated` |
| `daemon`, `frozen`, `green` | the smallest instance that shows it | a statement of the repository that the code does not keep (section 5) |

Why the bounds are enough. Workers interact through a row, a pod or the books, so
two of each and two findings give every pairwise interleaving, including both in
the same `claim_next` or past the same check; a third worker only repeats the
second, and the proofs cover any number. Two signatures are what the "same failure
again" test can tell apart. Two human calls give every pair of a call with a
worker and with another call.
`runs` pays for liveness with a smaller instance: it takes the refinement through
every result of a stage and the exception of a host target, and the theorem
`PipelineIsQueue` covers exceptions anywhere.

For `Provision`, one builder is enough beside an outside world that moves the tag:
to a builder, another builder's commit is a tag that moved, and the proofs cover any
number of builders. Two images are the one inspected and the one put in its place.

For `FixLoop`, a child and a grandchild show every shape of the stack (outermost,
inner, innermost), two turns let an attempt fail and be followed by another, and
five texts are: the original, its decoded form, one that repairs it, one that
changes nothing, one that uncovers another crash.

For `Budget`, a ceiling of one or two tokens and replies of one token put every
call at the boundary, two replies per call let a repair pass it, and the child
shows a spender with books of its own.

For `Provision`, a bare setup fails both checks, a warm one the smoke check and a
built one none; a smoke check that depends on the root may go either way. Two
calls of a window of two, and a streak of two, make a forced re-commit and the
stuck test happen in three turns. Two scripts are a draft and the one that was
declared.

For `Verdict`, the specs are one of each form of command (prefix, inline code, a
twin's name, a file that is not declared, none), of each wrongly declared list,
and of each set of rules; the sanitizer outputs are reports of two identities and
of none in each order, with and without text that pushes them out of the window;
the http exchanges combine status, header, body and trailer; the replies repeat,
overlap, miss and chain.

Every property of a passing run has a mutant: a plausible bug in the definition
it is about (a claim without the state test, a ceiling that both limits must
reach, a check on the image of the commit before, a lock without hashes, an
identity that is not compared), which the run then reports. The mutated forms
stand beside the originals and say "Mutant".

## 4. Fairness

Every fairness here is weak, and of steps the program takes by itself. Nothing
starts a run, adds a finding, makes a human act or a model give a good answer.

* `Pipeline!FairSpec`: each worker's steps. A thread that can go on does, since
  every wait it has (model call, command, podman) has a timeout. The liveness
  properties speak of runs that have started. A stage's body is one action that
  returns; that the longest of them do return is `FixLoop!StageEnds` and
  `Provision!ProvisionEnds`.
* `FixLoop!FairSpec` and `Provision!FairSpec`: the steps of the stage that is
  running, for the same reason. Builders and the outside world get none.
* `Budget!FairSpec`: a worker goes on with its call or its loop. Whether it asks
  again is the model's choice, and `RunawayStops` says that the ceiling ends that.

`RunDrains` is weaker than one might expect: a worker that lost the race for a
row takes the queue for empty (`store.py:306`), and only the fact that the
winner comes back makes the rest of the queue served. A finding that becomes
ready between a winner's last look and a loser's stays for the next run.

## 5. Where the code and its documents disagree

Three have a run that TLC refutes:

* `daemon`: the guard against a stale server precedes only the rollback runs; the
  run under the patch talks to the server left from reproduce, and a correct
  patch is rejected as one that "built and ran" (`stages.py:3893`).
* `frozen`: for an ecosystem finding the image is committed before the script is
  written, and never after; the script that is frozen from the image is not the
  one whose run was red (`stages.py:1771`).
* `green`: a body ends at its first line that looks like a side channel; what
  comes after is not looked at, and a leak there is read as green
  (`http_parse.py:55`).

The others were met while modelling and are stated in `PROJECT.json` at their
lines; the models contain the behaviour, and the properties exclude it by name
where it would break them.

* Rows: `review` returns `pending_signoff`, for which `_advance` has no branch;
  the guard of `claim_next` is said to make a second worker safe, but a child row is
  pending from its insertion while its parent's worker works on it
  (`store.py:303`); one that stays pending is claimed later, and its teardown removes
  its blocked parent's pod; a failing write of `container_id` is swallowed on both
  sides (`stages.py:847`, `runner.py:170`); `iterate_once_more` resets a row under a
  running worker, and its cap counts artifacts that it deletes (`server.py:697`);
  `reproduce` reads `sb.cid`, which only in-image sandboxes have.
* Builds: "Assert the build actually consumed the patch" asserts nothing: an
  unchanged artifact is an event, and a stale program is judged in the place of the
  patch (`stages.py:3847`).
* Texts: a verify that timed out is retried in the pod it patched and takes the
  patch for the original; the hash triple compares decoded texts, so "byte for
  byte" is not what it shows.
* Money: provision subtracts the spending twice, and gates on a ceiling without
  top-ups; one check admits up to three requests; a configured 0 means the
  default; the investigation's cap counts every seat; a lowered ceiling reaches
  the next stage only.
* Provision: a passing forced re-commit leaves no script and fails the stage, with
  the default root instead of the declared one; the "consecutive" failures are
  not; the prompt and the loop disagree on `reproduce_command`; a failed commit is
  caught under another exception's name; recipes contain failed calls; the digest
  is not compared at the attach; reproduce's build runs in a pod that is not
  committed after it, so the run that was red is of something the image does not
  have (`stages.py:1664`); a template is verified through its tag, not through the
  digest its row will name (`template_builder.py:400`).
* Verdicts: a crash without an identity is frozen as "(none)" and never red again;
  reproduce reads the tail and the loop the whole output; overlapping searches
  count once; the hashes are compared before the patched tree is built and after the
  last run, so a script that is replaced for a run and put back passes
  (`stages.py:3705`); every ingested spec is exempt from naming a frozen file, and a twin
  of a frozen name satisfies the check; two validators have no caller, and an
  operator's http block meets none; an http reading ignores a timeout in the loop.

## 6. What is proved

Each theorem holds for any values of the constants that the module's `ASSUME`
allows; `PROJECT.json` lists them with the property they state. None uses fairness.

Every safety invariant and every action property of a passing run has a theorem.

**Pipeline** (`PipelineProofs`, `PipelineSafety`; `MaxAttempts >= 2`)

What may happen from outside is the constant `Environment`; a theorem that needs
some of it not to happen says so, and section 5 has what the code does otherwise.

* `TypeCorrect`: `TypeOK`. The invariant `TypeInv` is split in the rows, the pods,
  the workers and the operators, with one lemma per family of actions.
* `MutualExclusion`: `OneHolder`, when no human call rewrites a row to pending
  (`Unrewritten`) and no child row is inserted: a child is worked on by its parent's
  worker while it is pending, and another worker may claim it. `OneHolder` is not inductive: a claim succeeds when the row is
  pending, so the invariant `Exclusive` adds that the row of a held finding is
  not pending. That is what the code's `WHERE state = 'pending'` rests on, and
  what requeue, unblock and iterate break.
* `PendingClaimable` and `HarnessRetriesOnce`, from one invariant of the rows,
  `QueuedInv`: a pending row has fewer attempts than the limit, and, with an
  error signature, exactly one. The human calls are included.
* `SignoffIsHuman`: `NeverSelfSigned`. Its invariant adds `HandlersPlaced`: a
  worker is in the body of a stage only after that stage's own early return,
  so that no result at the last stage can be ok.
* `StagesFollow`: `StagesInOrder`, when `Unrewritten`. `_advance` computes the
  next stage from the worker's copy of the row, so `SnappedInv` says that the copy
  still has the row's stage and attempts while the worker holds it.
* `PodStays`: `PodNeverSwapped`, when `Unrewritten`. `PinInv` says that a worker
  that is about to pin a new pod works on a row that names none, and that a child
  just inserted belongs to one worker.
* `PodIsThere`: `AttachFindsPod`, when no process dies, no pod is lost and no child
  shares a pod. The property speaks of the findings whose column was written each
  time: a row that could not be told of a removal names a pod that is gone. With `Unrewritten` it holds for any number of workers; with one
  worker also through every requeue, unblock, sign-off and iteration, which is how
  the server runs. The invariant `AliveInv` says for rows and copies alike that
  the pod they name is there, and when a worker's copy may be older than its row.
* `ClosedRowsTornDown`: `ClosedPodRemoved`, with exceptions, lost pods, failed
  removals and failed writes; a finding whose own column could not be written is
  outside what the property says, and no other. `ClosedInv` says that a held row is running until the worker's own write
  and closed while that worker tears down, and that the worker's copy names the
  row's pod in between.
* `PodsAreAccounted`: `PodAccounted`, with exceptions, lost pods, failed writes and
  sign-offs. A running container is named by a row or by the worker about to pin it,
  or it was started for a finding whose column could not be written (`owner`,
  `unwritten`): a failed write leaks that finding's pods and no others. The
  invariant `AccountInv` says that a row past reproduce has a pod until it is closed
  (so no later stage starts one that nothing pins), that no two rows or pinning
  workers name one container, and that a column is cleared only after its container
  is gone.
* `PipelineIsQueue`: `ImplementsQueue`, the refinement, with exceptions, lost pods,
  failed removals and failed writes. `QueueInv` says that a held row is running and that its copy
  has its stage and attempts, and that a finding not yet there is at ingest with no
  attempt; from it, what progress each write makes, and that every action maps to one
  step of `WorkQueue` or to a stutter. A crash, a child that closes with its parent and
  the human calls are not steps of a queue.

**FixLoop** (`FixLoopProofs`)

* `FixLoopTyped`: `TypeOK`. `TypeInv` adds where the stage can be for each row, and
  that a stage beyond patch has a patch.
* `ProvedChainsRepair`, `RollbackProves`, `RejectionsJudgeThePatch`, from the
  invariant `Fair`, in four parts: which versions a left-over server can run, what
  tree, build and candidate are at each step of the loop, the same for verify, and
  what a recorded outcome says. The properties speak of the end; the parts say at
  every step which of tree, built and server the next run will see. All three hold
  for `BuildsConsume`, as long as no build exited 0 without compiling the file; the
  code does not ensure it, and without it TLC refutes each of them.
* `SourceStaysClean`: `CleanSource`, from `CleanInv`: unless a fault that leaves a
  patch has happened, the outermost source is the original, and so is the tree
  whenever no stage is at work in it.

**Meter and Budget** (`MeterProofs`, `Amounts`, `BudgetProofs`)

* `MeterBounded`: a meter passes its limit by at most one call of every caller.
* `BudgetTyped`: `TypeOK`.
* `BooksAreMeters`: every step of the books is, per finding, a step of the meter
  or a stutter; with `MeterBounded` this gives `CeilingHolds` (`OverspendBounded`).
  Both assume `Limited`, that every ceiling an operator saves has a token limit;
  a saved 0 disables it, and then nothing is promised. The needed invariant says
  that a client's ceiling never exceeded `high`, and that the charge a call has
  run up is at most what its replies can cost.
* `LifetimeHolds`: `LifetimeBounded`, under `Limited`. A requeue moves the live rows
  to the prior ones, so the invariant is about the prior rows alone: they are worth
  at most the allowances already used (`PriorPaid`).
* `NothingGoesMissing`: `LifetimeIsAll`, with no assumption. The invariant
  `CallsCounted` balances the books of each finding: live and prior tokens, what
  died and what is in flight make up what was asked for. What is in flight is a
  sum over the workers in a call; a step changes one term of it.

`Amounts` has what these proofs need of numbers: a least element for every set of
naturals, induction over a range and the existence of recursively defined values
that follow from it, sums over finite sets, and the arithmetic of products.

**Templates and Provision** (`ProvisionProofs`)

* `ProvisionTyped`, `NoOrphans`: from `RegInv`, which says that only digests that
  were handed out are behind the tag or verified, and that an image without a row
  has a builder that looks after it, unless something leaked.
* `SpecsArePassed`, `BuildsStartFromImages`, `FrozenWasRun`: from `ProvInv`, whose
  parts say where each stage can be (`Situated`), what the image has passed as soon as
  a done was accepted (`Checked`), that pod and image agree from the commit of the
  spec's image until a build of reproduce has run in the pod (`Committed`), and what
  was run before what was locked (`Frozen`). After that build nothing is claimed of
  the pod.
* `TemplatesVerified` and `TemplatesStartWarm`, for any number of builders and a tag
  that moves at any time. The exception is in the properties, by name: `raced`, an
  image put behind the tag between a builder's inspection and its verification pod.
  `RowInv` says that otherwise the tag still names the digest that was read, and
  `GatedInv` that a gate only lets verified digests through.

**Verdict** (`VerdictProofs`)

* `VerdictsAreWalled`: `VerdictIsWalled`, from `WallInv` and `SwapInv`. From the lock
  on, the lock holds what every declared file was in the image, and a proof is
  concluded only when nothing differs; and from the first comparison on, a script
  that held something else when a leg ran it has either been put back since or still
  differs at the second one. The assumption `RunsWhatItNames` is how specs are read:
  what a command runs is a path in its last segment.
* `VerdictTyped`: `TypeOK`; there is a lock exactly when reproduce let the finding
  through.
* `RollbackReadsRed`: `RedAgain`, from `LegsInv`: what each leg was read as comes
  from its output and the one lock, and a rollback leg that ran the frozen script
  printed what reproduce saw. `ReadAgain` shows that the lock's identity is the one
  of the run it was made of, for both tables. For the leg of the loop the property
  needs that the first output fits in the tail (`Fits`): the loop reads all of an
  output, reproduce its end.
* `RedIsTheBug`: `RedIsTracked`, from the same invariant: a red reading against a
  lock has the lock's identity, and an identity stands in the output it is read
  from; an http reading has the frozen status and a rule that hits, and what a rule
  hits is written somewhere.
* `GreenShowsNoSign`: `GreenIsAffirmative`. The lemmas follow the parser over an
  output: where the body ends, that no separator waits in a plain trailer, that
  every named line of it becomes a channel with its value, and that a rule that
  reaches what it looks at and does not hit has no pattern there.
* `EditsAreLocated`: `EditIsLocated`. The count without overlaps is at least the
  number of places that are apart; if it is one, and the search cannot overlap
  itself, there is one place. The text before each block is the one that block
  was counted in, because after an error nothing more is applied.

Induction over data is done with least elements (`NatMin`, `UpTo`, `Recursion` in
`Amounts`): the library's induction theorems take an operator as a parameter, which
no installed backend can instantiate, while a set of naturals is an ordinary value.
No module with theorems reaches a RECURSIVE operator.

Not proved, and why. Liveness and `ENABLED` are outside what the prover handles:
`RunTerminates`, `RunDrains`, `StageEnds`, `RunawayStops` and `ProvisionEnds` stay
with TLC. Where a theorem of `Pipeline` assumes part of the environment away, the
runs of section 3 check the same property for the environment their row names.

## 7. What is not modelled

* The evidence bundle, the web pages, and the events and steps tables: they read
  the store and render.
* Feeds, advisories and fetching of fixes: network and text heuristics. The race
  of two promotes (`server.py:852`) is listed as a hazard without a property.
* Login and sessions, configuration loading, the read-only investigation tools,
  package-manager heuristics of the ecosystems; `outcomes.py`, a closed set of
  names with a static test.
* Inside modelled parts: prompts, wording and evidence text; the model client's
  JSON and transport (its answers, refusals and failures are inputs); endpoint,
  method and timing rules of the http table, and `symptom.py`; the text of the
  messages of the spec validator; the wall's read-only hardening of the pod and
  its walk over a host tree; host sandboxes beyond the results of their stages.
* Two commands running in one container at the same time, after a timeout, are
  below the grain of the models.

## 8. Plan

Done: the queue, the runner and the human calls; the fix loop and verify; money;
provision and templates; specs, readings, wall and edits up to the verdict; the
proofs of section 6.

What would come next, in this order: the promote race with the advisory table;
the hardening of the pod as part of `Wall`; the theorems of `Pipeline` for single
human calls that are harmless to them, sign-offs first.
