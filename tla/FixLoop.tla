------------------------------- MODULE FixLoop --------------------------------
(***************************************************************************)
(* The file a fix is about, from the moment the bug is reproduced to the   *)
(* verdict: the patch stage with its investigation loop and the child      *)
(* investigations nested in it, and the verify stage with its rollback leg *)
(* (stages.py).  Both stages write, build and run in the one pod of the    *)
(* finding, and a stage may be entered again after a retry or after a      *)
(* human put the finding back in the queue: what one leaves in the pod is  *)
(* what the next one reads.                                                *)
(*                                                                         *)
(* One in-image finding; who claims it is the business of Pipeline.  The   *)
(* wording of prompts and feedback, tool calls and the four-state          *)
(* classifier's parsing are abstracted: a version of the file either       *)
(* crashes, with the identity its trace shows, or it does not.             *)
(***************************************************************************)
EXTENDS Integers, Sequences

CONSTANTS
    Version,        \* contents the file can have
    Pristine,       \* the content in the image
    Token,          \* crash identities (DEDUP_TOKEN)
    NoCrash,
    Crash,          \* what the reproducer shows of a program built from it
    Decode,         \* the content after a decode with errors='replace'
    NoPatch,
    NoServer,
    Target,         \* the specs and configurations to look at
    Faults,         \* which faults happen at all
    MaxTurns,       \* fix_writer.investigation_max_turns
    MaxDepth,       \* fix_writer.investigation_max_recursion_depth
    MaxAttempts     \* Runner.max_attempts

Fault == {"timeout", "misread", "write", "raise", "ceiling", "stale"}

ASSUME FixLoopAssumption ==
    /\ Pristine \in Version
    /\ NoCrash \notin Token
    /\ Crash \in [Version -> Token \cup {NoCrash}]
    /\ Decode \in [Version -> Version]
    /\ \A v \in Version : Decode[Decode[v]] = Decode[v]
    /\ Crash[Pristine] \in Token
    /\ NoPatch \notin Version /\ NoServer \notin Version
    /\ Target \subseteq [build : BOOLEAN, daemon : BOOLEAN, investigate : BOOLEAN]
    /\ Faults \subseteq Fault
    /\ MaxTurns \in Nat \ {0} /\ MaxDepth \in Nat
    /\ MaxAttempts \in Nat /\ MaxAttempts >= 2

VARIABLES
    target,     \* commands.build given, a daemon reproducer, investigation_mode
    stage, state, attempts,     \* the finding's row
    pinned,     \* the row names the pod
    tree,       \* the file in the pod
    built,      \* the version the program in the pod was built from
    server,     \* the version a daemon reproducer's server still runs
    pc,         \* where the stage is
    loop,       \* the investigations going on, the innermost one last
    cand,       \* the text the investigation tests
    patch,      \* the last patch artifact
    pre,        \* verify's pre_source
    outcome,    \* verify's outcome
    hit         \* what the faults so far may have left behind

rowVars == <<stage, state, attempts, pinned>>
podVars == <<tree, built, server>>
evidence == <<patch, pre, outcome>>
vars == <<target, rowVars, podVars, pc, loop, cand, evidence, hit>>

Stage == {"patch", "verify", "package"}
State == {"pending", "running", "blocked", "rejected", "failed"}

Phase == {"idle", "think", "oneshot", "build", "run", "unbuild", "rerun",
          "vbuild", "vrun", "vunbuild", "vrerun", "rule"}

Outcome == {"none", "different_bug", "fix_did_not_resolve", "rollback_red",
            "rollback_not_red", "undo_broken", "build_failed"}

(* The faults after which the code leaves the patched bytes in a pod that  *)
(* lives on: a run that lost its verdict, a write nobody saw fail.         *)
LeavesPatch == {"timeout", "ceiling", "raise", "write"}

(* What a fault may leave: the patch in the tree, or a program that was    *)
(* not built from it.                                                      *)
Trace == {"patch", "program"}

Leaves(f) == {t \in Trace : IF t = "patch" THEN f \in LeavesPatch
                                           ELSE f = "stale"}

(* One activation of _run_investigation_loop: what it reverts to, and the  *)
(* crash it is after.                                                      *)
Frame == [source : Version, token : Token, turn : 0..MaxTurns]

TypeOK ==
    /\ target \in Target
    /\ stage \in Stage /\ state \in State
    /\ attempts \in 0..MaxAttempts /\ pinned \in BOOLEAN
    /\ tree \in Version /\ built \in Version
    /\ server \in Version \cup {NoServer}
    /\ pc \in Phase
    /\ loop \in Seq(Frame) /\ Len(loop) <= MaxDepth + 1
    /\ cand \in Version
    /\ patch \in Version \cup {NoPatch} /\ pre \in Version
    /\ outcome \in Outcome
    /\ hit \subseteq Trace

(* Reproduce has shown the bug on the pristine program, in the pod the     *)
(* finding is now pinned to; a daemon is still up.                         *)
Init ==
    /\ target \in Target
    /\ stage = "patch" /\ state = "pending" /\ attempts = 0 /\ pinned = TRUE
    /\ tree = Pristine /\ built = Pristine
    /\ server = IF target.daemon THEN Pristine ELSE NoServer
    /\ pc = "idle" /\ loop = << >>
    /\ cand = Pristine /\ patch = NoPatch /\ pre = Pristine
    /\ outcome = "none" /\ hit = {}

-----------------------------------------------------------------------------
Happens(f) == f \in Faults /\ hit' = hit \cup Leaves(f)

Goto(p) == pc' = p

(* The stage ends; the runner writes the row and, if the finding is over,  *)
(* removes the pod.                                                        *)
Finish(s) ==
    LET tried == attempts + 1
        again == s = "retry" /\ tried < MaxAttempts
    IN  /\ Goto("idle") /\ loop' = << >>
        /\ stage' = IF s # "ok" THEN stage
                    ELSE IF stage = "patch" THEN "verify" ELSE "package"
        /\ state' = CASE s = "ok" \/ again -> "pending"
                      [] s = "blocked" -> "blocked"
                      [] s = "reject" -> "rejected"
                      [] OTHER -> "failed"
        /\ attempts' = CASE s = "ok" -> 0
                         [] s = "retry" -> tried
                         [] OTHER -> attempts
        /\ pinned' = (pinned /\ state' \in {"pending", "blocked"})

(* A stage begins in the pinned pod, or in a fresh one of the image.       *)
Entered == IF pinned THEN [tree |-> tree, built |-> built, server |-> server]
           ELSE [tree |-> Pristine, built |-> Pristine, server |-> NoServer]

(* A write of the loop whose failure it ignores. *)
Restore(v) ==
    \/ tree' = v /\ UNCHANGED hit
    \/ Happens("write") /\ UNCHANGED tree

(* A build that exits 0.  Nothing checks that it consumed the file: when   *)
(* the artifact is what it was, verify reports build_ran_bytes_unchanged   *)
(* and goes on, and the investigation does not look.                       *)
Compiles(v) ==
    \/ built' = v /\ UNCHANGED hit
    \/ Happens("stale") /\ UNCHANGED built

(* A daemon reproducer starts its server only if none is running.          *)
Program == IF target.build THEN built ELSE tree

Observed == IF target.daemon /\ server # NoServer THEN server ELSE Program

(* The stale-daemon guard, which only the rollback legs have. *)
ObservedAfterKill == Program

Serve(v) == server' = IF target.daemon THEN v ELSE server

(* Mutant: any crash is the bug. *)
TwoStates(token, v) ==
    IF Crash[v] = NoCrash THEN "confirmed_green" ELSE "confirmed_red"

(* The four states of a run against the identity it is after. *)
Classify(token, v) ==
    CASE Crash[v] = NoCrash -> "confirmed_green"
      [] Crash[v] = token -> "confirmed_red"
      [] OTHER -> "different_bug"

Reads(r, token, v) ==
    \/ r = Classify(token, v) /\ UNCHANGED hit
    \/ r = "harness_fault" /\ Happens("misread")

Reading == {"confirmed_green", "confirmed_red", "different_bug",
            "harness_fault"}

-----------------------------------------------------------------------------
(* The patch stage. *)

Bug == Crash[Pristine]

Innermost == loop[Len(loop)]

StartPatch ==
    /\ state = "pending" /\ stage = "patch"
    /\ state' = "running"
    /\ tree' = Entered.tree /\ built' = Entered.built
    /\ server' = Entered.server
    /\ IF target.investigate
       THEN /\ Goto("think")
            /\ loop' = <<[source |-> Decode[Entered.tree], token |-> Bug,
                          turn |-> 0]>>
       ELSE Goto("oneshot") /\ UNCHANGED loop
    /\ UNCHANGED <<target, stage, attempts, pinned, cand, evidence, hit>>

(* The file cannot be read at the start of patch or of verify. *)
SourceUnreadable ==
    /\ state = "pending" /\ stage \in {"patch", "verify"}
    /\ Happens("misread")
    /\ Finish("fail")
    /\ UNCHANGED <<target, podVars, cand, evidence>>

(* Without investigation_mode: one answer, applied to the text and tested  *)
(* by nobody before verify.                                                *)
OneShot(v, s) ==
    /\ pc = "oneshot"
    /\ Finish(s)
    /\ IF s = "ok" THEN patch' = v ELSE UNCHANGED patch
    /\ IF s = "blocked" THEN Happens("ceiling") ELSE UNCHANGED hit
    /\ UNCHANGED <<target, podVars, cand, pre, outcome>>

(* Mutant: turns are not counted. *)
FreeTurn == pc = "think" /\ Innermost.turn < MaxTurns /\ UNCHANGED loop

(* A turn of the innermost loop. *)
TakeTurn ==
    /\ pc = "think" /\ Innermost.turn < MaxTurns
    /\ loop' = [loop EXCEPT ![Len(loop)].turn = @ + 1]

(* Tool calls, an empty answer, or edits that do not parse or apply; with  *)
(* no build command, edits are written and taken back.                     *)
UseTools ==
    /\ TakeTurn
    /\ UNCHANGED <<target, rowVars, podVars, pc, cand, evidence, hit>>

TryEdits(v) ==
    /\ TakeTurn /\ target.build
    /\ tree' = v /\ cand' = v
    /\ Goto("build")
    /\ UNCHANGED <<target, rowVars, built, server, evidence, hit>>

(* give_up, the turn or USD cap, the recursion cap: the exceptions that    *)
(* end the loop.  Raised in a child they reject the parent.                *)
GivesUp ==
    /\ Finish(IF Len(loop) = 1 THEN "fail" ELSE "reject")
    /\ UNCHANGED <<target, built, server, cand, evidence>>

GiveUp == pc = "think" /\ GivesUp /\ UNCHANGED <<tree, hit>>

(* The ceiling of the finding, or of the child, is met before a call.      *)
LoopCeiling ==
    /\ pc = "think"
    /\ Happens("ceiling")
    /\ Finish("blocked")
    /\ UNCHANGED <<target, podVars, cand, evidence>>

(* Any other exception, of the model client or the sandbox, at any depth.  *)
LoopRaises ==
    /\ pc \in {"think", "build", "run", "unbuild", "rerun"}
    /\ Happens("raise")
    /\ Finish("retry")
    /\ UNCHANGED <<target, podVars, cand, evidence>>

(* _apply_and_test_in_pod: build ... *)
Build(ok) ==
    /\ pc = "build"
    /\ IF ok
       THEN Compiles(tree) /\ Goto("run") /\ UNCHANGED tree
       ELSE /\ Restore(Innermost.source) /\ Goto("think") /\ UNCHANGED built
    /\ UNCHANGED <<target, rowVars, server, loop, cand, evidence>>

(* ... and reproduce: green leads to the rollback check, anything else is  *)
(* taken back and told to the model ...                                    *)
RunGreen ==
    /\ pc = "run"
    /\ Classify(Innermost.token, Observed) = "confirmed_green"
    /\ Serve(Observed)
    /\ \/ tree' = Innermost.source /\ UNCHANGED hit /\ Goto("unbuild")
       \/ Happens("write") /\ UNCHANGED tree /\ Goto("think")
    /\ UNCHANGED <<target, rowVars, built, loop, cand, evidence>>

RunNotGreen(r) ==
    /\ pc = "run" /\ r \in {"confirmed_red", "harness_fault"}
    /\ \/ Reads(r, Innermost.token, Observed) /\ tree' = Innermost.source
       \/ /\ r = Classify(Innermost.token, Observed)
          /\ Happens("write") /\ UNCHANGED tree
    /\ Serve(Observed)
    /\ Goto("think")
    /\ UNCHANGED <<target, rowVars, built, loop, cand, evidence>>

(* Mutant: one level too many. *)
MayRecurseOnce == Len(loop) <= MaxDepth + 1

MayRecurse == Len(loop) <= MaxDepth

(* ... except for a crash with another identity, which a child takes on    *)
(* with the candidate as its source, written back and built again; nobody  *)
(* looks how either went.                                                  *)
RunDifferent ==
    /\ pc = "run"
    /\ Classify(Innermost.token, Observed) = "different_bug"
    /\ Serve(Observed)
    /\ IF MayRecurse
       THEN /\ \E lost \in SUBSET ({"write", "stale"} \cap Faults) :
                  /\ hit' = hit \cup UNION {Leaves(f) : f \in lost}
                  /\ tree' = IF "write" \in lost THEN Innermost.source
                                                 ELSE cand
                  /\ built' = IF "stale" \in lost THEN built ELSE tree'
            /\ loop' = Append(loop, [source |-> cand, token |-> Crash[Observed],
                                     turn |-> 0])
            /\ Goto("think")
            /\ UNCHANGED <<target, rowVars, cand, evidence>>
       ELSE tree' = Innermost.source /\ GivesUp /\ UNCHANGED hit

(* The rebuild of the reverted file; when it fails, the candidate is       *)
(* written back.                                                           *)
Unbuild(ok) ==
    /\ pc = "unbuild"
    /\ IF ok
       THEN Compiles(tree) /\ Goto("rerun") /\ UNCHANGED tree
       ELSE /\ Restore(cand) /\ Goto("think") /\ UNCHANGED built
    /\ UNCHANGED <<target, rowVars, server, loop, cand, evidence>>

(* Mutant: the loop that proved the fix leaves its own source. *)
RestoredInnermost == Innermost.source

(* What the pod holds and the artifact says when a chain is proved: every  *)
(* enclosing loop returns at once, the outermost writes its source back,   *)
(* and the combined edits produce the innermost candidate.                 *)
RestoredSource == loop[1].source

(* Mutant: the edits of the children are dropped. *)
FirstPatch == IF Len(loop) = 1 THEN cand ELSE loop[2].source

ComposedPatch == cand

ChainProved(s) ==
    /\ pc = "rerun" /\ s \in {"ok", "reject"}
    /\ Classify(Innermost.token, ObservedAfterKill) = "confirmed_red"
    /\ Serve(ObservedAfterKill)
    /\ Restore(RestoredSource)
    /\ Finish(s)
    /\ IF s = "ok" THEN patch' = ComposedPatch ELSE UNCHANGED patch
    /\ UNCHANGED <<target, built, cand, pre, outcome>>

ChainNotProved(r) ==
    /\ pc = "rerun" /\ r # "confirmed_red"
    /\ Reads(r, Innermost.token, ObservedAfterKill)
    /\ Serve(ObservedAfterKill)
    /\ Goto("think")
    /\ UNCHANGED <<target, rowVars, tree, built, loop, cand, evidence>>

-----------------------------------------------------------------------------
(* The verify stage. *)

StartVerify ==
    /\ state = "pending" /\ stage = "verify"
    /\ state' = "running"
    /\ pre' = Decode[Entered.tree]
    /\ tree' = patch /\ built' = Entered.built /\ server' = Entered.server
    /\ outcome' = "none"
    /\ Goto(IF target.build THEN "vbuild" ELSE "vrun")
    /\ UNCHANGED <<target, stage, attempts, pinned, loop, cand, patch, hit>>

(* The wall is violated before anything runs, or the build broke before    *)
(* the compiler ran: void.  The compiler judged the patch: rejected.       *)
VerifyBuildEnds(s) ==
    /\ \/ pc = "vbuild" /\ s \in {"fail", "reject"} /\ UNCHANGED hit
       \/ pc = "vbuild" /\ s = "retry" /\ Happens("timeout")
       \/ pc = "vrun" /\ ~target.build /\ s = "fail" /\ UNCHANGED hit
    /\ Finish(s)
    /\ UNCHANGED <<target, podVars, cand, evidence>>

(* Mutant: the build comes before the patch is written. *)
VerifyBuildFirst ==
    /\ pc = "vbuild"
    /\ built' = pre
    /\ Goto("vrun")
    /\ UNCHANGED <<target, rowVars, tree, server, loop, cand, evidence, hit>>

VerifyBuild ==
    /\ pc = "vbuild"
    /\ Compiles(tree)
    /\ Goto("vrun")
    /\ UNCHANGED <<target, rowVars, tree, server, loop, cand, evidence>>

(* Green: the file is written back and read again; if it is not what it    *)
(* was, nothing more is run.                                               *)
VerifyGreen ==
    /\ pc = "vrun"
    /\ Classify(Bug, Observed) = "confirmed_green"
    /\ Serve(Observed)
    /\ tree' = pre
    /\ \/ /\ Goto(IF target.build THEN "vunbuild" ELSE "vrerun")
          /\ UNCHANGED <<outcome, hit>>
       \/ /\ Happens("misread")
          /\ outcome' = "undo_broken" /\ Goto("rule")
    /\ UNCHANGED <<target, rowVars, built, loop, cand, patch, pre>>

(* A reproducer that timed out is tried again, with the patch in the tree  *)
(* -- unless the wall is violated after it ran.                            *)
VerifyTimesOut(intact) ==
    /\ pc = "vrun"
    /\ Happens("timeout")
    /\ Serve(Observed)
    /\ Finish(IF intact THEN "retry" ELSE "fail")
    /\ UNCHANGED <<target, tree, built, cand, evidence>>

VerifyNotGreen(r, intact) ==
    /\ pc = "vrun" /\ r # "confirmed_green"
    /\ Reads(r, Bug, Observed)
    /\ Serve(Observed)
    /\ Finish(IF intact /\ r # "harness_fault" THEN "reject" ELSE "fail")
    /\ outcome' = CASE ~intact \/ r = "harness_fault" -> "none"
                    [] r = "different_bug" -> "different_bug"
                    [] OTHER -> "fix_did_not_resolve"
    /\ UNCHANGED <<target, tree, built, cand, patch, pre>>

VerifyUnbuild(ok) ==
    /\ pc = "vunbuild"
    /\ IF ok
       THEN Compiles(tree) /\ Goto("vrerun") /\ UNCHANGED outcome
       ELSE /\ outcome' = "build_failed" /\ Goto("rule")
            /\ UNCHANGED <<built, hit>>
    /\ UNCHANGED <<target, rowVars, tree, server, loop, cand, patch, pre>>

VerifyRerun(r) ==
    /\ pc = "vrerun"
    /\ Reads(r, Bug, ObservedAfterKill)
    /\ Serve(ObservedAfterKill)
    /\ outcome' = IF r = "confirmed_red" THEN "rollback_red"
                                         ELSE "rollback_not_red"
    /\ Goto("rule")
    /\ UNCHANGED <<target, rowVars, tree, built, loop, cand, patch, pre>>

(* A broken test suite rejects, a wall violated during execution voids, an *)
(* http reproducer that had timed out is tried again, the ceiling of the   *)
(* advisory call blocks; else the verdict stands.                          *)
VerifyRules(s) ==
    /\ pc = "rule"
    /\ \/ s \in {"ok", "reject", "fail"} /\ UNCHANGED hit
       \/ s = "retry" /\ target.daemon /\ Happens("timeout")
       \/ s = "blocked" /\ Happens("ceiling")
    /\ Finish(s)
    /\ outcome' = IF s = "ok" THEN outcome ELSE "none"
    /\ UNCHANGED <<target, podVars, cand, patch, pre>>

(* An exception leaves verify: one retry at most, and the pod stays.       *)
VerifyRaises(granted) ==
    /\ pc \in {"vbuild", "vrun", "vunbuild", "vrerun"}
    /\ Happens("raise")
    /\ granted => attempts = 0
    /\ state' = IF granted THEN "pending" ELSE "failed"
    /\ attempts' = IF attempts < MaxAttempts THEN attempts + 1 ELSE attempts
    /\ Goto("idle")
    /\ UNCHANGED <<target, stage, pinned, podVars, loop, cand, evidence>>

-----------------------------------------------------------------------------
(* A human unblocks the finding or runs it again.                          *)
Requeue ==
    /\ state \in {"blocked", "failed"}
    /\ state' = "pending" /\ attempts' = 0
    /\ UNCHANGED <<target, stage, pinned, podVars, pc, loop, cand, evidence,
                   hit>>

PatchStep ==
    \/ \E v \in Version, s \in {"ok", "retry", "fail", "reject", "blocked"} :
          OneShot(v, s)
    \/ UseTools
    \/ \E v \in Version : TryEdits(v)
    \/ GiveUp
    \/ LoopCeiling
    \/ LoopRaises
    \/ \E ok \in BOOLEAN : Build(ok) \/ Unbuild(ok)
    \/ RunGreen
    \/ \E r \in Reading : RunNotGreen(r) \/ ChainNotProved(r)
    \/ RunDifferent
    \/ \E s \in {"ok", "reject"} : ChainProved(s)

VerifyStep ==
    \/ \E s \in {"fail", "reject", "retry"} : VerifyBuildEnds(s)
    \/ VerifyBuild
    \/ VerifyGreen
    \/ \E intact \in BOOLEAN :
          \/ VerifyTimesOut(intact)
          \/ \E r \in Reading : VerifyNotGreen(r, intact)
    \/ \E r \in Reading : VerifyRerun(r)
    \/ \E ok \in BOOLEAN : VerifyUnbuild(ok)
    \/ \E s \in {"ok", "reject", "fail", "retry", "blocked"} : VerifyRules(s)
    \/ \E granted \in BOOLEAN : VerifyRaises(granted)

Next ==
    \/ StartPatch
    \/ StartVerify
    \/ SourceUnreadable
    \/ PatchStep
    \/ VerifyStep
    \/ Requeue

Spec == Init /\ [][Next]_vars

(* A stage that has begun goes on: model calls have timeouts, and so do    *)
(* the commands a stage runs.                                              *)
FairSpec == Spec /\ WF_vars(PatchStep \/ VerifyStep)

-----------------------------------------------------------------------------
(* "LEAVE POD IN PRISTINE STATE" (_apply_and_test_in_pod): whatever the    *)
(* investigation tried, rejected or handed to child investigations, the    *)
(* next stage, and a patch stage entered again, start from the original    *)
(* text -- as long as no exception or timeout cut a stage short.           *)
CleanSource ==
    "patch" \notin hit =>
        /\ loop # << >> => loop[1].source = Decode[Pristine]
        /\ stage = "verify" /\ state = "running" => pre = Decode[Pristine]

(* Whether builds consumed the file decides what a reading says of a text; *)
(* the code leaves that to the build command, and so do these three.       *)
BuildsConsume == "program" \notin hit

(* The patch artifact of a proved chain, and any patch that verify lets    *)
(* through, is a text whose program does not crash: with nested children   *)
(* it is the composition of all their edits, not the last or the first.    *)
ProvedPatchIsGreen ==
    /\ ~target.daemon /\ BuildsConsume
    /\ stage = "package" \/ (target.investigate /\ stage = "verify")
    => Crash[patch] = NoCrash

(* verify_green_rollback_red says that this diff, in this tree, moved the  *)
(* program from the tracked crash to none: the text before it crashes with *)
(* the tracked identity, and the patched one does not.                     *)
ChainIsReal ==
    BuildsConsume /\ outcome = "rollback_red"
        => Crash[pre] = Bug /\ Crash[patch] = NoCrash

(* verify_fix_did_not_resolve: "Built and ran; the fix is the thing being  *)
(* judged here."  A rejection with this outcome judged the program built   *)
(* from the patch, ...                                                     *)
JudgedItself == outcome = "fix_did_not_resolve" => Crash[patch] = Bug

(* ... which is so for a reproducer that leaves no server behind, as long  *)
(* as builds consume the file: a build that exits 0 and leaves the old     *)
(* program there rejects a correct patch.                                  *)
RejectionIsFair == ~target.daemon /\ BuildsConsume => JudgedItself

(* Turns, nesting and the steps of a test run are bounded: a stage that    *)
(* runs ends.                                                              *)
StageEnds == state = "running" ~> state # "running"

=============================================================================
