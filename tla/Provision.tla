----------------------------- MODULE Provision -----------------------------
(***************************************************************************)
(* From a drafted spec to a frozen reproducer: the provision stage (the    *)
(* template gates, the pod, the model's turns with their commits, checks   *)
(* and forced re-commits, the reproducer script, the spec) and the         *)
(* reproduce stage that builds and runs the script in the finding's pod    *)
(* and freezes it from the finding's image.  Template builders and the registry go on  *)
(* beside it (Templates).                                                  *)
(* A container or image is known by how far it is set up and by what is in *)
(* /reproduce.pw.sh.                                                       *)
(***************************************************************************)
EXTENDS Templates

CONSTANTS
  Modes,      \* "prebuilt", "template", "plain" or "strategy" findings
  Checks,     \* the binary checks of an ecosystem strategy
  Smoke,      \* the one that depends on the install root it is given
  Fails,      \* the checks a setup fails
  Scripts, NoScript,
  MaxTurns,   \* stages.py: 60
  PerTurn,    \* provision.py: 5 calls a turn
  ForceEvery, \* provision.py: 8
  Streak,     \* provision.py: 3
  MaxRuns     \* bound: times the finding is queued

ASSUME ProvisionAssumption ==
  /\ Modes \subseteq {"prebuilt", "template", "plain", "strategy"}
  /\ Smoke \in Checks /\ Fails \in [Setups -> SUBSET Checks]
  /\ NoScript \notin Scripts
  /\ {MaxTurns, PerTurn, ForceEvery, Streak, MaxRuns} \subseteq Nat \ {0}

VARIABLES
  mode,     \* what kind of finding it is
  stage,    \* the row's stage: provision, reproduce, patch
  step,     \* where the stage function is; "queued" and "over" are the row's
  gated,    \* the digest of the template_attached event, 0 when there is none
  pod,      \* the pinned container: none, up or gone, its content, and
            \* whether reproduce's build has run in it
  image,    \* the image the finding's provisioned tag names
  loop,     \* the locals of run_provision_loop
  ran,      \* the script whose run was read as red
  lock,     \* the script that was hashed into the reproducer_lock
  attempts,
  runs      \* times the finding was queued

provisioning == <<mode, stage, step, gated, pod, image, loop, ran, lock,
                  attempts, runs>>
vars == <<registry, provisioning>>

Content == [setup : Setups, script : Scripts \cup {NoScript}]
Empty == [setup |-> Bare, script |-> NoScript]
NoPod == [is |-> "none", content |-> Empty, built |-> FALSE]
Up(content) == [is |-> "up", content |-> content, built |-> FALSE]
NoLoop == [turn |-> 0, calls |-> 0, seen |-> FALSE, slow |-> FALSE,
           timed |-> FALSE, sigs |-> [c \in Checks |-> <<>>],
           script |-> NoScript]
\* What is left of them when the loop returns: the done object.
DoneWith(script) == [NoLoop EXCEPT !.script = script]

Init ==
  /\ RegistryInit
  /\ mode \in Modes
  /\ stage = "provision" /\ step = "queued"
  /\ gated = 0 /\ pod = NoPod
  /\ IF mode = "prebuilt"
     THEN \E s \in Setups, script \in Scripts :
            image = [setup |-> s, script |-> script]
     ELSE image = Empty
  /\ loop = NoLoop
  /\ ran = NoScript /\ lock = NoScript
  /\ attempts = 0 /\ runs = 1

----------------------------------------------------------------------------
(* How a stage ends *)

\* StageResult.fail or reject: the row is terminal and the pod is removed.
Fail ==
  /\ step' = "over" /\ pod' = NoPod /\ loop' = NoLoop
  /\ UNCHANGED <<mode, stage, gated, image, ran, lock, attempts, runs>>

\* StageResult.blocked, and an exception nothing in the stage names: the pod
\* stays pinned.
Park ==
  /\ step' = "over" /\ loop' = NoLoop
  /\ UNCHANGED <<mode, stage, gated, pod, image, ran, lock, attempts, runs>>

\* StageResult.retry, and a sandbox or model error the first time.
Again(limit) ==
  /\ attempts' = attempts + 1
  /\ loop' = NoLoop
  /\ IF attempts + 1 < limit THEN step' = "queued" /\ UNCHANGED pod
                             ELSE step' = "over" /\ pod' = NoPod
  /\ UNCHANGED <<mode, stage, gated, image, ran, lock, runs>>

Succeed(next) ==
  /\ stage' = next /\ step' = "queued" /\ attempts' = 0 /\ loop' = NoLoop
  /\ UNCHANGED <<mode, gated, pod, image, ran, lock, runs>>

Goto(next) ==
  /\ step' = next
  /\ UNCHANGED <<mode, stage, gated, pod, image, loop, ran, lock, attempts,
                 runs>>

----------------------------------------------------------------------------
(* Entering provision *)

Enter(s) == stage = s /\ step = "queued"

ShortCircuit ==
  /\ Enter("provision") /\ mode = "prebuilt"
  /\ Succeed("reproduce")

\* Mutant: the digest behind the tag is not compared.
AnyDigest == row # NoRow /\ tag # NoImage

\* resolve_template_image: the row exists, the tag has an image, and it is
\* the image that was there when the row was written.
Resolves == row # NoRow /\ tag # NoImage /\ row.digest = tag.digest

Resolve ==
  /\ Enter("provision") /\ mode = "template"
  /\ IF Resolves
     THEN /\ gated' = tag.digest /\ step' = "create"
          /\ UNCHANGED <<mode, stage, pod, image, loop, ran, lock, attempts,
                         runs>>
     ELSE Fail

NoTemplate ==
  /\ Enter("provision") /\ mode \in {"plain", "strategy"}
  /\ Goto("create")

\* The pod comes from whatever is behind the tag by now; a pod that is
\* still pinned from an earlier attempt is attached to instead.
CreatePod ==
  /\ step = "create"
  /\ pod.is = "none"
  /\ mode = "template" => tag # NoImage
  /\ pod' = Up([Empty EXCEPT !.setup = IF mode = "template" THEN tag.setup
                                       ELSE Bare])
  /\ step' = IF mode = "strategy" THEN "bootstrap" ELSE "turn"
  /\ UNCHANGED <<mode, stage, gated, image, loop, ran, lock, attempts, runs>>

AttachPod ==
  /\ step = "create" /\ pod.is = "up"
  /\ Goto(IF mode = "strategy" THEN "bootstrap" ELSE "turn")

\* No such image, a pod that is gone, a strategy without its prerequisites.
NoGoodPod == step = "create" /\ Fail

\* bootstrap_setup: installs, clones and warms, or fails the stage.
Bootstrap ==
  /\ step = "bootstrap"
  /\ \/ /\ \E s \in Setups : pod' = Up([pod.content EXCEPT !.setup = s])
        /\ step' = "turn"
        /\ UNCHANGED <<mode, stage, gated, image, loop, ran, lock, attempts,
                       runs>>
     \/ Fail

----------------------------------------------------------------------------
(* The turns of the model *)

\* Mutant: the loop does not count the turns it nudges in.
SameTurn == loop.turn

NextTurn == loop.turn + 1

\* Mutant: off by one.
TurnsLeftInclusive == loop.turn <= MaxTurns

TurnsLeft == loop.turn < MaxTurns

\* A re-commit is due: calls were made since the last checks, and a done
\* has been seen.
Due ==
  mode = "strategy" /\ loop.seen /\ ~loop.slow /\ loop.calls >= ForceEvery

StartTurn ==
  /\ step = "turn" /\ TurnsLeft /\ ~Due
  /\ step' = "reply"
  /\ loop' = [loop EXCEPT !.turn = NextTurn]
  /\ UNCHANGED <<mode, stage, gated, pod, image, ran, lock, attempts, runs>>

Exhausted == step = "turn" /\ ~TurnsLeft /\ Fail

\* The signature of a failed check is what it printed: the setup it saw.
LastOf(s) == IF Len(s) > Streak THEN Tail(s) ELSE s

Signed(failing, setup) ==
  [c \in Checks |-> IF c \in failing THEN LastOf(Append(loop.sigs[c], setup))
                    ELSE loop.sigs[c]]

SameSignature(sigs) ==
  \E c \in Checks : /\ Len(sigs[c]) = Streak
                    /\ \A i \in 1..Streak : sigs[c][i] = sigs[c][1]

\* The pod is committed under a name of its own and the checks run on that
\* image, with the default install root.  If they pass the loop returns an
\* object of its own making, without a script.
ForceRecommit ==
  /\ step = "turn" /\ TurnsLeft /\ Due
  /\ \/ /\ loop' = [loop EXCEPT !.turn = NextTurn, !.calls = 0]
        /\ step' = "reply"
        /\ UNCHANGED image
     \/ /\ image' = pod.content
        /\ LET base == Fails[pod.content.setup]
           IN  \E failing \in {base \cup {Smoke}, base \ {Smoke}} :
                 IF failing = {}
                 THEN loop' = DoneWith(NoScript) /\ step' = "materialize"
                 ELSE /\ loop' = [loop EXCEPT
                            !.turn = NextTurn, !.calls = 0,
                            !.sigs = Signed(failing, pod.content.setup)]
                      /\ step' = "reply"
  /\ UNCHANGED <<mode, stage, gated, pod, ran, lock, attempts, runs>>

\* The cap of the loop, or a model that gives up; the finding's own ceiling.
OutOfMoney == step = "reply" /\ (Fail \/ Park)
GiveUp == step = "reply" /\ Fail

\* Neither calls nor a complete done.  A done without an install root counts
\* as one all the same.
Nudge ==
  /\ step = "reply"
  /\ step' = "turn"
  /\ \/ UNCHANGED loop
     \/ mode = "strategy" /\ loop' = [loop EXCEPT !.seen = TRUE, !.calls = 0]
  /\ UNCHANGED <<mode, stage, gated, pod, image, ran, lock, attempts, runs>>

\* Up to five calls; a call that was made before is not made again.  Their
\* count matters under a strategy only.
Counted(n) ==
  IF mode # "strategy" THEN 0
  ELSE IF loop.calls + n > ForceEvery THEN ForceEvery ELSE loop.calls + n

UseTools ==
  /\ step = "reply"
  /\ \E content \in Content, n \in 1..PerTurn :
       /\ pod' = Up(content)
       /\ loop' = [loop EXCEPT !.calls = Counted(n)]
  /\ step' = "turn"
  /\ UNCHANGED <<mode, stage, gated, image, ran, lock, attempts, runs>>

DonePlain ==
  /\ step = "reply" /\ mode # "strategy"
  /\ \E script \in Scripts \cup {NoScript} :
       loop' = DoneWith(script)
  /\ step' = "materialize"
  /\ UNCHANGED <<mode, stage, gated, pod, image, ran, lock, attempts, runs>>

\* Mutant: the checks run on the image of the commit before.
StaleImage == image.setup

\* run_ephemeral starts from the image that was just committed.
CheckedSetup == pod.content.setup

\* done:true commits the pod and runs the checks; the first commit decides
\* whether forced ones are affordable.
DoneChecked ==
  /\ step = "reply" /\ mode = "strategy"
  /\ image' = pod.content
  /\ LET failing == Fails[CheckedSetup]
         sigs == Signed(failing, CheckedSetup)
     IN  \E script \in Scripts \cup {NoScript}, slow \in BOOLEAN :
           /\ loop.timed => slow = loop.slow
           /\ IF failing = {}
              THEN /\ step' = "materialize"
                   /\ loop' = DoneWith(script)
                   /\ UNCHANGED pod
              ELSE IF SameSignature(sigs)
              THEN /\ step' = "over" /\ pod' = NoPod /\ loop' = NoLoop
              ELSE /\ step' = "turn"
                   /\ loop' = [loop EXCEPT !.seen = TRUE, !.calls = 0,
                                           !.sigs = sigs, !.slow = slow,
                                           !.timed = TRUE]
                   /\ UNCHANGED pod
  /\ UNCHANGED <<mode, stage, gated, ran, lock, attempts, runs>>

\* commit_pod of a done raises: infrastructure, and the stage fails.
CommitFails == step = "reply" /\ mode = "strategy" /\ Fail

----------------------------------------------------------------------------
(* After the turns *)

\* Mutant: the commit comes before the script.
CommitFirst ==
  /\ step = "materialize"
  /\ IF loop.script = NoScript
     THEN Fail
     ELSE /\ pod' = Up([pod.content EXCEPT !.script = loop.script])
          /\ loop' = NoLoop
          /\ image' = pod.content
          /\ step' = "spec"
          /\ UNCHANGED <<mode, stage, gated, ran, lock, attempts, runs>>

\* materialize_reproducer writes the script of the done object; in a strategy
\* finding the image has been committed before.
Materialize ==
  /\ step = "materialize"
  /\ IF loop.script = NoScript
     THEN Fail
     ELSE /\ pod' = Up([pod.content EXCEPT !.script = loop.script])
          /\ loop' = NoLoop
          /\ step' = IF mode = "strategy" THEN "spec" ELSE "commit"
          /\ UNCHANGED <<mode, stage, gated, image, ran, lock, attempts, runs>>

\* Mutant: the fallback commits under the name, but the spec keeps an older
\* image.
KeepImage == UNCHANGED image

PutInImage == image' = pod.content

\* Without a strategy the commit comes here.  Its handler names another
\* exception than commit_pod raises.
CommitLast ==
  /\ step = "commit"
  /\ \/ /\ PutInImage
        /\ step' = "spec"
        /\ UNCHANGED <<mode, stage, gated, pod, loop, ran, lock, attempts, runs>>
     \/ Park

\* The localization is reconciled, the spec validated and written.
WriteSpec ==
  /\ step = "spec"
  /\ \/ Succeed("reproduce")
     \/ Fail

\* A sandbox or a model error anywhere in the stage: one retry, and then the
\* row is failed with its pod still there.
SandboxError ==
  /\ step \in {"bootstrap", "reply", "materialize", "spec", "build", "judge",
              "freeze"}
  /\ IF attempts = 0 THEN Again(2) ELSE Park

----------------------------------------------------------------------------
(* reproduce *)

\* Attach to the pod, or make one of the image the spec names.
Reproduce ==
  /\ Enter("reproduce")
  /\ IF pod.is = "gone"
     THEN Fail
     ELSE /\ pod' = IF pod.is = "up" THEN pod ELSE Up(image)
          /\ step' = "build"
          /\ UNCHANGED <<mode, stage, gated, image, loop, ran, lock, attempts,
                         runs>>

\* commands.build runs in the pod, which is never committed again: it may
\* leave any setup and any script behind.  A strategy always has the command
\* and a provisioned spec without one never; a spec that came with its image
\* may have it, and skips it when the target says it is prebuilt.
BuildFirst ==
  /\ step = "build"
  /\ \/ /\ mode \in {"prebuilt", "strategy"}
        /\ \E content \in Content :
             pod' = [pod EXCEPT !.content = content, !.built = TRUE]
        /\ step' = "judge"
        /\ UNCHANGED <<mode, stage, gated, image, loop, ran, lock, attempts,
                       runs>>
     \/ mode # "strategy" /\ Goto("judge")
     \/ mode \in {"prebuilt", "strategy"} /\ Fail

\* The script ran and the reading is red; without a script it never is.
Red ==
  /\ step = "judge"
  /\ pod.content.script # NoScript
  /\ ran' = pod.content.script
  /\ step' = "freeze"
  /\ UNCHANGED <<mode, stage, gated, pod, image, loop, lock, attempts, runs>>

\* Another reading fails the finding or rejects it for good; so does a
\* command of the wrong shape; a timeout is tried again.
NotRed ==
  /\ step = "judge"
  /\ \/ Fail
     \/ Again(3)
     \/ /\ step' = "rejected" /\ pod' = NoPod
        /\ UNCHANGED <<mode, stage, gated, image, loop, ran, lock, attempts,
                       runs>>

\* The wall hashes the file in a fresh pod of the image.
Freeze ==
  /\ step = "freeze"
  /\ IF image.script = NoScript
     THEN Fail
     ELSE /\ lock' = image.script
          /\ stage' = "patch" /\ step' = "queued" /\ attempts' = 0
          /\ UNCHANGED <<mode, gated, pod, image, loop, ran, runs>>

----------------------------------------------------------------------------
\* A human queues the finding again; outside, containers go away.
Requeue ==
  /\ step = "over" /\ runs < MaxRuns
  /\ step' = "queued" /\ attempts' = 0 /\ runs' = runs + 1
  /\ UNCHANGED <<mode, stage, gated, pod, image, loop, ran, lock>>

LosePod ==
  /\ pod.is = "up" /\ step \in {"queued", "over"}
  /\ pod' = [pod EXCEPT !.is = "gone"]
  /\ UNCHANGED <<mode, stage, step, gated, image, loop, ran, lock, attempts,
                 runs>>

Loop ==
  \/ StartTurn \/ Exhausted \/ ForceRecommit
  \/ OutOfMoney \/ GiveUp \/ Nudge \/ UseTools
  \/ DonePlain \/ DoneChecked \/ CommitFails

InStage ==
  \/ CreatePod \/ AttachPod \/ NoGoodPod \/ Bootstrap \/ Loop
  \/ Materialize \/ CommitLast \/ WriteSpec \/ SandboxError
  \/ BuildFirst \/ Red \/ NotRed \/ Freeze

Stages ==
  \/ ShortCircuit \/ Resolve \/ NoTemplate \/ Reproduce
  \/ InStage
  \/ Requeue \/ LosePod

\* Nothing past the pod looks at the registry: its steps are taken before.
Registry ==
  /\ mode = "template" /\ stage = "provision" /\ step \in {"queued", "create"}
  /\ RegistryNext

Next ==
  \/ Stages /\ UNCHANGED registry
  \/ Registry /\ UNCHANGED provisioning

Spec == Init /\ [][Next]_vars

\* A stage function runs on: every command in it has a timeout.
FairSpec == Spec /\ WF_vars(InStage /\ UNCHANGED registry)

----------------------------------------------------------------------------
(* Properties *)

Steps == {"queued", "create", "bootstrap", "turn", "reply", "materialize",
          "commit", "spec", "build", "judge", "freeze", "over", "rejected"}

LoopState ==
  [turn : 0..MaxTurns, calls : 0..ForceEvery, seen : BOOLEAN, slow : BOOLEAN,
   timed : BOOLEAN, sigs : [Checks -> UNION {[1..n -> Setups] : n \in 0..Streak}],
   script : Scripts \cup {NoScript}]

TypeOK ==
  /\ RegistryTypeOK
  /\ mode \in Modes
  /\ stage \in {"provision", "reproduce", "patch"}
  /\ step \in Steps
  /\ gated \in 0..MaxImages
  /\ pod \in [is : {"none", "up", "gone"}, content : Content,
             built : BOOLEAN]
  /\ image \in Content
  /\ loop \in LoopState
  /\ {ran, lock} \subseteq Scripts \cup {NoScript}
  /\ attempts \in 0..3
  /\ runs \in 1..MaxRuns

\* "all checks passed on <image>" (provision.py:1146-1160): the image that a
\* spec names has passed the checks, whatever was committed, forced or fixed
\* on the way.
ImagePassedChecks ==
  mode = "strategy" /\ stage # "provision" => Fails[image.setup] = {}

\* What reproduce starts its build from, in the pod that stayed pinned through
\* forced re-commits, fixes, repeated dones, retries and requeues
\* (stages.py:1638-1648, 1658-1667), is set up like the image the checks ran
\* on.  Once a build has run in it nothing commits the pod, and it may differ.
BuildStartsFromImage ==
  stage # "provision" /\ pod.is = "up" /\ ~pod.built
    => pod.content.setup = image.setup

\* A template finding starts in a stack that was verified, unless the tag is
\* moved between the gate and the pod (provision.py:1384-1390), or was between
\* a builder's inspection and its verification pod (RowIsVerified).
StartsWarm ==
  [][CreatePod /\ mode = "template" /\ tag.digest = gated /\ ~raced
       => pod'.content.setup \in Warm]_vars

\* "the guard that keeps the frozen set and the verdict-deciding command the
\* same thing" (stages.py:1751-1754): the script that was frozen is the one
\* that was run.
FrozenIsRun == lock # NoScript => lock = ran

\* The same, where the image is committed after the script is written and
\* reproduce has run no build in the pod.
FrozenIsRunIfCommittedLast == mode # "strategy" /\ ~pod.built => FrozenIsRun

\* However the model answers, a provision comes to an end.
ProvisionEnds ==
  step \in {"create", "bootstrap", "turn", "reply", "materialize", "commit",
            "spec"}
    ~> step \in {"queued", "over"}
=============================================================================
