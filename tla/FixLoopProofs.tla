---------------------------- MODULE FixLoopProofs -----------------------------
(***************************************************************************)
(* What patch and verify promise for every set of texts, crash identities, *)
(* targets and faults, and for any limits on turns, nesting and attempts.  *)
(***************************************************************************)
EXTENDS FixLoop, SequenceTheorems, TLAPS

LoopPhase == {"think", "build", "run", "unbuild", "rerun"}
PatchPhase == LoopPhase \cup {"oneshot"}
VerifyPhase == {"vbuild", "vrun", "vunbuild", "vrerun", "rule"}
Status == {"ok", "retry", "fail", "reject", "blocked"}

-----------------------------------------------------------------------------
(* The types, in parts, with where a stage can be and what it then has.    *)

RowTyped ==
  /\ stage \in Stage /\ state \in State
  /\ attempts \in 0..MaxAttempts /\ pinned \in BOOLEAN
  /\ state \in {"pending", "running"} => attempts < MaxAttempts

PodTyped ==
  /\ tree \in Version /\ built \in Version
  /\ server \in Version \cup {NoServer}

LoopTyped ==
  /\ loop \in Seq(Frame) /\ Len(loop) <= MaxDepth + 1 /\ cand \in Version
  /\ pc \in LoopPhase => loop # << >>
  /\ pc \notin LoopPhase => loop = << >>

EvidenceTyped ==
  /\ patch \in Version \cup {NoPatch} /\ pre \in Version
  /\ outcome \in Outcome
  /\ stage # "patch" => patch \in Version
  /\ stage = "patch" => outcome = "none"

PlaceTyped ==
  /\ target \in Target /\ hit \subseteq Trace /\ pc \in Phase
  /\ state = "running" => pc # "idle"
  /\ pc # "idle" => state = "running"
  /\ pc \in PatchPhase => stage = "patch"
  /\ pc \in VerifyPhase => stage = "verify"
  /\ pc = "oneshot" => ~target.investigate
  /\ pc \in LoopPhase => target.investigate
  /\ pc \in {"build", "run", "unbuild", "rerun"} => target.build
  /\ pc \in {"vbuild", "vunbuild"} => target.build

TypeInv == RowTyped /\ PodTyped /\ LoopTyped /\ EvidenceTyped /\ PlaceTyped

LEMMA TypeInvIsTypeOK == TypeInv => TypeOK
BY DEF TypeInv, TypeOK, RowTyped, PodTyped, LoopTyped, EvidenceTyped,
       PlaceTyped

LEMMA Constants ==
  /\ Pristine \in Version /\ NoPatch \notin Version /\ NoServer \notin Version
  /\ \A v \in Version : Decode[v] \in Version /\ Decode[Decode[v]] = Decode[v]
  /\ \A v \in Version : Crash[v] \in Token \cup {NoCrash}
  /\ Bug \in Token /\ NoCrash \notin Token
  /\ MaxTurns \in Nat \ {0} /\ MaxDepth \in Nat
  /\ MaxAttempts \in Nat /\ MaxAttempts >= 2
  /\ \A t \in Target : t.build \in BOOLEAN /\ t.daemon \in BOOLEAN
                       /\ t.investigate \in BOOLEAN
BY FixLoopAssumption DEF Bug

LEMMA FaultTyped ==
  ASSUME hit \subseteq Trace, NEW f, Happens(f) PROVE hit' \subseteq Trace
BY DEF Happens, Leaves

\* What faults leave that the properties ask about.
LEMMA FaultLeaves ==
  ASSUME NEW f, Happens(f)
  PROVE  /\ hit \subseteq hit'
         /\ f \in LeavesPatch => "patch" \in hit'
         /\ f = "stale" => "program" \in hit'
BY DEF Happens, Leaves, Trace

LEMMA Compiled ==
  ASSUME NEW v, Compiles(v)
  PROVE  /\ built' \in {built, v} /\ hit \subseteq hit'
         /\ "program" \notin hit' => built' = v
BY FaultLeaves DEF Compiles

-----------------------------------------------------------------------------
(* Loops as sequences of frames. *)

\* A turn changes the counter of the innermost loop only.
LEMMA TurnTyped ==
  ASSUME LoopTyped, TakeTurn
  PROVE  /\ loop' \in Seq(Frame) /\ Len(loop') = Len(loop) /\ loop' # << >>
         /\ loop'[1].source = loop[1].source
<1>1. loop \in Seq(Frame) /\ Len(loop) \in Nat \ {0} /\ pc = "think"
  BY DEF LoopTyped, TakeTurn, LoopPhase
<1>. DEFINE n == Len(loop)
            last == [loop[n] EXCEPT !.turn = @ + 1]
<1>2. loop[n] \in Frame /\ loop[n].turn < MaxTurns
  BY <1>1 DEF TakeTurn, Innermost
<1>3. last \in Frame /\ last.source = loop[n].source
  BY <1>2, Constants DEF Frame
<1>4. loop' = [loop EXCEPT ![n] = last]
  BY <1>1 DEF TakeTurn
<1>. HIDE DEF last
<1>5. loop' \in Seq(Frame) /\ Len(loop') = n
  BY <1>1, <1>3, <1>4
<1>6. loop'[1] = IF n = 1 THEN last ELSE loop[1]
  BY <1>1, <1>4
<1>7. QED
  BY <1>1, <1>3, <1>5, <1>6

LEMMA InnermostTyped ==
  ASSUME LoopTyped, pc \in LoopPhase
  PROVE  /\ Innermost \in Frame
         /\ Innermost.source \in Version /\ Innermost.token \in Token
         /\ loop[1].source \in Version
<1>1. loop \in Seq(Frame) /\ loop # << >>
  BY DEF LoopTyped
<1>2. Len(loop) \in Nat \ {0}
  BY <1>1
<1>3. loop[Len(loop)] \in Frame /\ loop[1] \in Frame
  BY <1>1, <1>2
<1>4. QED
  BY <1>3 DEF Innermost, Frame

\* A child's frame goes on top.
LEMMA ChildTyped ==
  ASSUME loop \in Seq(Frame), Len(loop) <= MaxDepth, NEW fr \in Frame,
         loop # << >>, loop' = Append(loop, fr)
  PROVE  /\ loop' \in Seq(Frame) /\ Len(loop') <= MaxDepth + 1
         /\ loop' # << >> /\ loop'[1] = loop[1]
BY Constants

-----------------------------------------------------------------------------
(* The end of a stage. *)

LEMMA FinishTyped ==
  ASSUME RowTyped, NEW s \in Status, Finish(s),
         state \in {"pending", "running"}
  PROVE  /\ RowTyped' /\ pc' = "idle" /\ loop' = << >>
         /\ state' \in State \ {"running"}
         /\ s # "ok" => stage' = stage
         /\ s = "ok" => stage' = IF stage = "patch" THEN "verify" ELSE "package"
<1>1. /\ state' \in State \ {"running"}
      /\ state' = "pending" => s = "ok" \/ (s = "retry" /\ attempts + 1 < MaxAttempts)
  BY DEF Finish, State
<1>2. /\ attempts' = IF s = "ok" THEN 0 ELSE IF s = "retry" THEN attempts + 1
                     ELSE attempts
  BY DEF Finish, Status
<1>3. attempts' \in 0..MaxAttempts
  BY <1>2, Constants DEF RowTyped
<1>4. state' = "pending" => attempts' < MaxAttempts
  BY <1>1, <1>2, Constants DEF RowTyped
<1>5. pinned' \in BOOLEAN
  BY DEF Finish, RowTyped
<1>6. stage' \in Stage
  BY DEF Finish, RowTyped, Stage
<1>7. pc' = "idle" /\ loop' = << >>
  BY DEF Finish, Goto
<1>8. /\ s # "ok" => stage' = stage
      /\ s = "ok" => stage' = IF stage = "patch" THEN "verify" ELSE "package"
  BY DEF Finish
<1>9. RowTyped'
  BY <1>1, <1>3, <1>4, <1>5, <1>6 DEF RowTyped
<1>10. QED
  BY <1>1, <1>7, <1>8, <1>9

\* A stage that ends leaves the types, whatever it did in the pod.
LEMMA EndTyped ==
  ASSUME TypeInv, NEW s \in Status, Finish(s),
         state \in {"pending", "running"}, stage \in {"patch", "verify"},
         PodTyped', target' = target, cand' = cand, hit' \subseteq Trace,
         patch' \in Version \cup {NoPatch}, pre' \in Version,
         outcome' \in Outcome,
         s = "ok" \/ stage = "verify" => patch' \in Version,
         stage = "patch" => outcome' = "none"
  PROVE  TypeInv'
<1>1. /\ RowTyped' /\ pc' = "idle" /\ loop' = << >>
      /\ state' \in State \ {"running"}
      /\ s # "ok" => stage' = stage
      /\ s = "ok" => stage' = IF stage = "patch" THEN "verify" ELSE "package"
  BY FinishTyped DEF TypeInv
<1>2. LoopTyped'
  <2>1. << >> \in Seq(Frame) /\ Len(<< >>) = 0
    OBVIOUS
  <2>2. QED
    BY <1>1, <2>1, Constants DEF LoopTyped, LoopPhase, TypeInv
<1>3. EvidenceTyped'
  BY <1>1 DEF EvidenceTyped
<1>4. PlaceTyped'
  BY <1>1 DEF PlaceTyped, TypeInv, Phase, PatchPhase, LoopPhase, VerifyPhase
<1>5. QED
  BY <1>1, <1>2, <1>3, <1>4 DEF TypeInv

LEMMA InitTyped == Init => TypeInv
<1>. SUFFICES ASSUME Init PROVE TypeInv
  OBVIOUS
<1>1. RowTyped /\ PodTyped /\ EvidenceTyped
  BY Constants DEF Init, RowTyped, PodTyped, EvidenceTyped, Stage, State,
     Outcome
<1>2. LoopTyped
  <2>1. << >> \in Seq(Frame) /\ Len(<< >>) = 0
    OBVIOUS
  <2>2. QED
    BY <2>1, Constants DEF Init, LoopTyped, LoopPhase
<1>3. PlaceTyped
  BY DEF Init, PlaceTyped, Phase, PatchPhase, LoopPhase, VerifyPhase
<1>4. QED
  BY <1>1, <1>2, <1>3 DEF TypeInv

\* What a stage finds in its pod.
LEMMA EnteredTyped ==
  ASSUME PodTyped
  PROVE  /\ Entered.tree \in Version /\ Entered.built \in Version
         /\ Entered.server \in Version \cup {NoServer}
BY Constants DEF Entered, PodTyped

\* What a reproducer runs is a text's program.
LEMMA ObservedTyped ==
  ASSUME PodTyped
  PROVE  Observed \in Version /\ ObservedAfterKill \in Version
         /\ \A v \in Version : Serve(v) => server' \in Version \cup {NoServer}
BY DEF Observed, ObservedAfterKill, Program, Serve, PodTyped

\* The stages begin, and a human queues the finding again.
LEMMA BeginsTyped ==
  ASSUME TypeInv, StartPatch \/ StartVerify \/ SourceUnreadable \/ Requeue
  PROVE  TypeInv'
<1>. USE DEF TypeInv
<1>1. CASE StartPatch
  <2>1. PodTyped'
    BY <1>1, EnteredTyped DEF StartPatch, PodTyped
  <2>2. RowTyped'
    BY <1>1 DEF StartPatch, RowTyped, State
  <2>3. EvidenceTyped'
    BY <1>1 DEF StartPatch, EvidenceTyped, evidence
  <2>4. PlaceTyped'
    BY <1>1 DEF StartPatch, PlaceTyped, Goto, Phase, PatchPhase, LoopPhase,
                VerifyPhase
  <2>5. LoopTyped'
    <3>1. CASE target.investigate
      <4>. DEFINE fr == [source |-> Decode[Entered.tree], token |-> Bug,
                         turn |-> 0]
      <4>1. fr \in Frame
        BY EnteredTyped, Constants DEF Frame
      <4>2. loop' = <<fr>> /\ pc' = "think" /\ cand' = cand
        BY <1>1, <3>1 DEF StartPatch, Goto
      <4>. HIDE DEF fr
      <4>3. <<fr>> \in Seq(Frame) /\ Len(<<fr>>) = 1 /\ <<fr>> # << >>
        BY <4>1
      <4>4. QED
        BY <4>2, <4>3, Constants DEF LoopTyped, LoopPhase
    <3>2. CASE ~target.investigate
      <4>1. pc = "idle"
        BY <1>1 DEF StartPatch, PlaceTyped
      <4>2. QED
        BY <1>1, <3>2, <4>1 DEF StartPatch, Goto, LoopTyped, LoopPhase
    <3>3. QED
      BY <3>1, <3>2
  <2>6. QED
    BY <2>1, <2>2, <2>3, <2>4, <2>5
<1>2. CASE StartVerify
  <2>0. pc = "idle" /\ patch \in Version
    BY <1>2 DEF StartVerify, PlaceTyped, EvidenceTyped
  <2>1. PodTyped' /\ pre' \in Version
    BY <1>2, <2>0, EnteredTyped, Constants DEF StartVerify, PodTyped
  <2>2. RowTyped' /\ EvidenceTyped'
    BY <1>2, <2>0, <2>1 DEF StartVerify, RowTyped, EvidenceTyped, State, Outcome
  <2>3. PlaceTyped'
    BY <1>2 DEF StartVerify, PlaceTyped, Goto, Phase, PatchPhase, LoopPhase,
                VerifyPhase
  <2>4. LoopTyped'
    BY <1>2, <2>0 DEF StartVerify, LoopTyped, Goto, LoopPhase
  <2>5. QED
    BY <2>1, <2>2, <2>3, <2>4
<1>3. CASE SourceUnreadable
  <2>1. hit' \subseteq Trace
    BY <1>3, FaultTyped DEF SourceUnreadable, PlaceTyped
  <2>2. /\ Finish("fail") /\ "fail" \in Status /\ state = "pending"
        /\ stage \in {"patch", "verify"}
    BY <1>3 DEF SourceUnreadable, Status
  <2>3. UNCHANGED <<target, tree, built, server, cand, patch, pre, outcome>>
    BY <1>3 DEF SourceUnreadable, podVars, evidence
  <2>4. PodTyped'
    BY <2>3 DEF PodTyped
  <2>5. QED
    BY <2>1, <2>2, <2>3, <2>4, EndTyped DEF EvidenceTyped
<1>4. CASE Requeue
  <2>1. UNCHANGED <<target, stage, pinned, tree, built, server, pc, loop, cand,
                    patch, pre, outcome, hit>>
    BY <1>4 DEF Requeue, podVars, evidence
  <2>2. PodTyped' /\ EvidenceTyped' /\ LoopTyped'
    BY <2>1 DEF PodTyped, EvidenceTyped, LoopTyped
  <2>3. RowTyped'
    BY <1>4, <2>1, Constants DEF Requeue, RowTyped, State
  <2>4. PlaceTyped'
    BY <1>4, <2>1 DEF Requeue, PlaceTyped
  <2>5. QED
    BY <2>2, <2>3, <2>4
<1>5. QED
  BY <1>1, <1>2, <1>3, <1>4

\* A stage that goes on, without touching the row or the evidence.
LEMMA GoesOnTyped ==
  ASSUME TypeInv, pc # "idle", PodTyped', LoopTyped', hit' \subseteq Trace,
         UNCHANGED <<target, rowVars, evidence>>, pc' \in Phase,
         \/ pc' = pc
         \/ stage = "patch" /\ pc \in LoopPhase /\ pc' = "think"
         \/ /\ stage = "patch" /\ pc \in LoopPhase /\ pc' \in LoopPhase
            /\ target.build
  PROVE  TypeInv'
<1>1. RowTyped' /\ EvidenceTyped'
  BY DEF TypeInv, RowTyped, EvidenceTyped, rowVars, evidence
<1>2. PlaceTyped'
  BY DEF TypeInv, PlaceTyped, rowVars, LoopPhase, PatchPhase, VerifyPhase
<1>3. QED
  BY <1>1, <1>2 DEF TypeInv

\* The investigation, while it goes on.
LEMMA LoopGoesOn ==
  ASSUME TypeInv, NEW ok \in BOOLEAN, NEW v \in Version, NEW r \in Reading,
         \/ UseTools \/ TryEdits(v) \/ Build(ok) \/ Unbuild(ok) \/ RunGreen
         \/ RunNotGreen(r) \/ ChainNotProved(r)
         \/ RunDifferent /\ MayRecurse
  PROVE  TypeInv'
<1>. USE DEF TypeInv
<1>0. /\ hit \subseteq Trace
      /\ \A f : Happens(f) => hit' \subseteq Trace
      /\ pc \in LoopPhase => stage = "patch" /\ Innermost.source \in Version
      /\ pc \in {"build", "run", "unbuild", "rerun"} => target.build
  BY FaultTyped, InnermostTyped DEF PlaceTyped, PatchPhase
<1>1. CASE UseTools
  <2>1. pc = "think" /\ UNCHANGED <<target, rowVars, podVars, pc, cand,
                                    evidence, hit>>
    BY <1>1 DEF UseTools, TakeTurn
  <2>2. LoopTyped'
    BY <1>1, <2>1, TurnTyped DEF UseTools, LoopTyped, LoopPhase
  <2>3. PodTyped' /\ pc' \in Phase
    BY <2>1 DEF PodTyped, podVars, PlaceTyped
  <2>4. QED
    BY <1>0, <2>1, <2>2, <2>3, GoesOnTyped
<1>2. CASE TryEdits(v)
  <2>1. /\ pc = "think" /\ target.build /\ pc' = "build" /\ cand' = v
        /\ tree' = v
        /\ UNCHANGED <<target, rowVars, built, server, evidence, hit>>
    BY <1>2 DEF TryEdits, TakeTurn, Goto
  <2>2. LoopTyped'
    BY <1>2, <2>1, TurnTyped DEF TryEdits, LoopTyped, LoopPhase
  <2>3. PodTyped'
    BY <2>1 DEF PodTyped
  <2>4. QED
    BY <1>0, <2>1, <2>2, <2>3, GoesOnTyped DEF LoopPhase, Phase
<1>3. CASE Build(ok) \/ Unbuild(ok)
  <2>1. /\ pc \in {"build", "unbuild"}
        /\ UNCHANGED <<target, rowVars, server, loop, cand, evidence>>
        /\ pc' \in {"think", "run", "rerun"}
    BY <1>3 DEF Build, Unbuild, Goto
  <2>2. tree' \in Version /\ built' \in Version /\ hit' \subseteq Trace
    BY <1>0, <1>3, <2>1 DEF Build, Unbuild, Compiles, Restore, PodTyped,
       LoopTyped, LoopPhase
  <2>3. PodTyped' /\ LoopTyped'
    BY <2>1, <2>2 DEF PodTyped, LoopTyped, LoopPhase
  <2>4. QED
    BY <1>0, <2>1, <2>2, <2>3, GoesOnTyped DEF LoopPhase, Phase
<1>4. CASE RunGreen
  <2>1. /\ pc = "run" /\ pc' \in {"think", "unbuild"}
        /\ UNCHANGED <<target, rowVars, built, loop, cand, evidence>>
    BY <1>4 DEF RunGreen, Goto
  <2>2. /\ tree' \in Version /\ server' \in Version \cup {NoServer}
        /\ hit' \subseteq Trace
    BY <1>0, <1>4, <2>1, ObservedTyped DEF RunGreen, PodTyped, LoopPhase
  <2>3. PodTyped' /\ LoopTyped'
    BY <2>1, <2>2 DEF PodTyped, LoopTyped, LoopPhase
  <2>4. QED
    BY <1>0, <2>1, <2>2, <2>3, GoesOnTyped DEF LoopPhase, Phase
<1>5. CASE RunNotGreen(r)
  <2>1. /\ pc = "run" /\ pc' = "think"
        /\ UNCHANGED <<target, rowVars, built, loop, cand, evidence>>
    BY <1>5 DEF RunNotGreen, Goto
  <2>2. /\ tree' \in Version /\ server' \in Version \cup {NoServer}
        /\ hit' \subseteq Trace
    BY <1>0, <1>5, <2>1, ObservedTyped
       DEF RunNotGreen, Reads, PodTyped, LoopPhase
  <2>3. PodTyped' /\ LoopTyped'
    BY <2>1, <2>2 DEF PodTyped, LoopTyped, LoopPhase
  <2>4. QED
    BY <1>0, <2>1, <2>2, <2>3, GoesOnTyped DEF LoopPhase, Phase
<1>6. CASE ChainNotProved(r)
  <2>1. /\ pc = "rerun" /\ pc' = "think"
        /\ UNCHANGED <<target, rowVars, tree, built, loop, cand, evidence>>
    BY <1>6 DEF ChainNotProved, Goto
  <2>2. server' \in Version \cup {NoServer} /\ hit' \subseteq Trace
    BY <1>0, <1>6, ObservedTyped DEF ChainNotProved, Reads
  <2>3. PodTyped' /\ LoopTyped'
    BY <2>1, <2>2 DEF PodTyped, LoopTyped, LoopPhase
  <2>4. QED
    BY <1>0, <2>1, <2>2, <2>3, GoesOnTyped DEF LoopPhase, Phase
<1>7. CASE RunDifferent /\ MayRecurse
  <2>. DEFINE fr == [source |-> cand, token |-> Crash[Observed], turn |-> 0]
  <2>1. /\ pc = "run" /\ pc' = "think" /\ loop' = Append(loop, fr)
        /\ UNCHANGED <<target, rowVars, cand, evidence>>
    BY <1>7 DEF RunDifferent, Goto
  <2>2. fr \in Frame
    <3>1. Crash[Observed] # NoCrash
      BY <1>7 DEF RunDifferent, Classify
    <3>2. QED
      BY <3>1, ObservedTyped, Constants DEF Frame, LoopTyped
  <2>3. /\ tree' \in Version /\ built' \in Version
        /\ server' \in Version \cup {NoServer} /\ hit' \subseteq Trace
    <3>1. PICK lost \in SUBSET ({"write", "stale"} \cap Faults) :
             /\ hit' = hit \cup UNION {Leaves(x) : x \in lost}
             /\ tree' = IF "write" \in lost THEN Innermost.source ELSE cand
             /\ built' = IF "stale" \in lost THEN built ELSE tree'
      BY <1>7 DEF RunDifferent
    <3>2. hit' \subseteq Trace
      BY <1>0, <3>1 DEF Leaves
    <3>3. tree' \in Version
      BY <1>0, <2>1, <3>1 DEF LoopTyped, LoopPhase
    <3>4. built' \in Version
      BY <3>1, <3>3, <1>0 DEF PodTyped
    <3>5. server' \in Version \cup {NoServer}
      BY <1>7, ObservedTyped DEF RunDifferent
    <3>6. QED
      BY <3>2, <3>3, <3>4, <3>5
  <2>. HIDE DEF fr
  <2>4. LoopTyped'
    BY <1>7, <2>1, <2>2, ChildTyped DEF LoopTyped, LoopPhase, MayRecurse
  <2>5. PodTyped'
    BY <2>3 DEF PodTyped
  <2>6. QED
    BY <1>0, <2>1, <2>3, <2>4, <2>5, GoesOnTyped DEF LoopPhase, Phase
<1>8. QED
  BY <1>1, <1>2, <1>3, <1>4, <1>5, <1>6, <1>7

\* The ways out of patch.
LEMMA PatchEnds ==
  ASSUME TypeInv, NEW v \in Version, NEW s \in Status,
         \/ OneShot(v, s) \/ GiveUp \/ LoopCeiling \/ LoopRaises
         \/ RunDifferent /\ ~MayRecurse
         \/ ChainProved(s)
  PROVE  TypeInv'
<1>. USE DEF TypeInv
<1>0. /\ hit \subseteq Trace /\ cand \in Version
      /\ \A f : Happens(f) => hit' \subseteq Trace
      /\ pc # "idle" => state = "running"
      /\ pc \in PatchPhase => stage = "patch"
      /\ pc \in LoopPhase => /\ Innermost.source \in Version
                             /\ RestoredSource \in Version
      /\ tree \in Version /\ built \in Version
      /\ server \in Version \cup {NoServer}
      /\ patch \in Version \cup {NoPatch} /\ pre \in Version
      /\ outcome \in Outcome /\ (stage = "patch" => outcome = "none")
  BY FaultTyped, InnermostTyped
     DEF PlaceTyped, LoopTyped, PodTyped, EvidenceTyped, RestoredSource
<1>a. ASSUME NEW e \in Status, Finish(e), pc \in PatchPhase, pc # "idle",
             tree' \in Version, built' \in Version,
             server' \in Version \cup {NoServer}, hit' \subseteq Trace,
             UNCHANGED <<target, cand, pre, outcome>>,
             \/ patch' \in Version
             \/ patch' = patch /\ e # "ok"
      PROVE  TypeInv'
  <2>1. PodTyped'
    BY <1>a DEF PodTyped
  <2>2. state = "running" /\ stage = "patch" /\ outcome' = "none"
    BY <1>0, <1>a
  <2>3. /\ patch' \in Version \cup {NoPatch} /\ pre' \in Version
        /\ outcome' \in Outcome /\ (e = "ok" => patch' \in Version)
    BY <1>0, <1>a
  <2>4. QED
    BY <1>a, <2>1, <2>2, <2>3, EndTyped
<1>1. CASE OneShot(v, s)
  <2>1. /\ pc = "oneshot" /\ Finish(s)
        /\ UNCHANGED <<target, tree, built, server, cand, pre, outcome>>
        /\ IF s = "ok" THEN patch' = v ELSE patch' = patch
        /\ hit' \subseteq Trace
    BY <1>0, <1>1 DEF OneShot, podVars
  <2>2. QED
    BY <1>0, <1>a, <2>1 DEF PatchPhase
<1>2. CASE GiveUp
  <2>1. /\ pc = "think" /\ UNCHANGED <<tree, hit>>
        /\ UNCHANGED <<target, built, server, cand, evidence>>
        /\ Finish(IF Len(loop) = 1 THEN "fail" ELSE "reject")
    BY <1>2 DEF GiveUp, GivesUp
  <2>2. Finish("fail") \/ Finish("reject")
    BY <2>1
  <2>3. QED
    BY <1>0, <1>a, <2>1, <2>2 DEF PatchPhase, LoopPhase, Status, evidence
<1>3. CASE LoopCeiling
  BY <1>0, <1>3, <1>a
     DEF LoopCeiling, PatchPhase, LoopPhase, Status, evidence, podVars
<1>4. CASE LoopRaises
  BY <1>0, <1>4, <1>a
     DEF LoopRaises, PatchPhase, LoopPhase, Status, evidence, podVars
<1>5. CASE RunDifferent /\ ~MayRecurse
  <2>1. /\ pc = "run" /\ tree' = Innermost.source /\ UNCHANGED hit
        /\ UNCHANGED <<target, built, cand, evidence>> /\ Serve(Observed)
        /\ Finish(IF Len(loop) = 1 THEN "fail" ELSE "reject")
    BY <1>5 DEF RunDifferent, GivesUp
  <2>2. Finish("fail") \/ Finish("reject")
    BY <2>1
  <2>3. server' \in Version \cup {NoServer}
    BY <2>1, ObservedTyped
  <2>4. QED
    BY <1>0, <1>a, <2>1, <2>2, <2>3 DEF PatchPhase, LoopPhase, Status, evidence
<1>6. CASE ChainProved(s)
  <2>1. /\ pc = "rerun" /\ Finish(s) /\ Serve(ObservedAfterKill)
        /\ Restore(RestoredSource) /\ UNCHANGED <<target, built, cand, pre, outcome>>
        /\ IF s = "ok" THEN patch' = cand ELSE patch' = patch
    BY <1>6 DEF ChainProved, ComposedPatch
  <2>2. server' \in Version \cup {NoServer}
    BY <2>1, ObservedTyped
  <2>3. tree' \in Version /\ hit' \subseteq Trace
    BY <1>0, <2>1 DEF Restore, LoopPhase
  <2>4. QED
    BY <1>0, <1>a, <2>1, <2>2, <2>3 DEF PatchPhase, LoopPhase
<1>7. QED
  BY <1>1, <1>2, <1>3, <1>4, <1>5, <1>6

\* Verify, while it goes on.
LEMMA VerifyGoesOn ==
  ASSUME TypeInv, NEW ok \in BOOLEAN, NEW r \in Reading,
         \/ VerifyBuild \/ VerifyGreen \/ VerifyUnbuild(ok) \/ VerifyRerun(r)
  PROVE  TypeInv'
<1>. USE DEF TypeInv
<1>0. /\ hit \subseteq Trace
      /\ \A f : Happens(f) => hit' \subseteq Trace
      /\ tree \in Version /\ built \in Version /\ pre \in Version
      /\ pc \in VerifyPhase => loop = << >>
  BY FaultTyped
     DEF PlaceTyped, PodTyped, EvidenceTyped, LoopTyped, VerifyPhase, LoopPhase
<1>1. /\ pc \in VerifyPhase /\ pc' \in VerifyPhase
      /\ UNCHANGED <<target, stage, state, attempts, pinned, loop, cand, patch,
                     pre>>
      /\ pc' = "vunbuild" => target.build
  BY DEF VerifyBuild, VerifyGreen, VerifyUnbuild, VerifyRerun, VerifyPhase,
         Goto, rowVars, evidence
<1>2. /\ pc' # "vbuild" /\ outcome' \in Outcome /\ hit' \subseteq Trace
      /\ tree' \in Version /\ built' \in Version
      /\ server' \in Version \cup {NoServer}
  BY <1>0, ObservedTyped
     DEF VerifyBuild, VerifyGreen, VerifyUnbuild, VerifyRerun, Compiles, Goto,
         Reads, evidence, EvidenceTyped, Outcome, PodTyped
<1>3. PodTyped' /\ RowTyped'
  BY <1>1, <1>2 DEF PodTyped, RowTyped
<1>4. LoopTyped'
  BY <1>0, <1>1 DEF LoopTyped, VerifyPhase, LoopPhase
<1>5. EvidenceTyped'
  BY <1>1, <1>2 DEF EvidenceTyped, PlaceTyped, VerifyPhase
<1>6. PlaceTyped'
  BY <1>1, <1>2
     DEF PlaceTyped, VerifyPhase, LoopPhase, PatchPhase, Phase
<1>7. QED
  BY <1>3, <1>4, <1>5, <1>6

\* The ways out of verify.
LEMMA VerifyEnds ==
  ASSUME TypeInv, NEW s \in Status, NEW r \in Reading,
         NEW intact \in BOOLEAN,
         \/ VerifyBuildEnds(s) \/ VerifyTimesOut(intact)
         \/ VerifyNotGreen(r, intact) \/ VerifyRules(s)
  PROVE  TypeInv'
<1>. USE DEF TypeInv
<1>0. /\ hit \subseteq Trace
      /\ \A f : Happens(f) => hit' \subseteq Trace
      /\ tree \in Version /\ built \in Version /\ pre \in Version
      /\ server \in Version \cup {NoServer}
      /\ patch \in Version \cup {NoPatch}
      /\ pc \in VerifyPhase =>
           stage = "verify" /\ state = "running" /\ patch \in Version
  BY FaultTyped DEF PlaceTyped, PodTyped, EvidenceTyped, VerifyPhase
<1>1. /\ pc \in VerifyPhase
      /\ UNCHANGED <<target, tree, built, cand, patch, pre>>
      /\ \E e \in Status : Finish(e)
  BY DEF VerifyBuildEnds, VerifyTimesOut, VerifyNotGreen, VerifyRules,
         VerifyPhase, Status, podVars, evidence
<1>2. outcome' \in Outcome
  BY DEF VerifyBuildEnds, VerifyTimesOut, VerifyNotGreen, VerifyRules,
         EvidenceTyped, Outcome, evidence
<1>3. hit' \subseteq Trace
  BY <1>0 DEF VerifyBuildEnds, VerifyTimesOut, VerifyNotGreen, VerifyRules,
              Reads
<1>4. server' \in Version \cup {NoServer}
  BY <1>0, ObservedTyped
     DEF VerifyBuildEnds, VerifyTimesOut, VerifyNotGreen, VerifyRules, podVars
<1>5. PodTyped'
  BY <1>0, <1>1, <1>4 DEF PodTyped
<1>6. QED
  BY <1>0, <1>1, <1>2, <1>3, <1>5, EndTyped

LEMMA VerifyRaisesTyped ==
  ASSUME TypeInv, NEW granted \in BOOLEAN, VerifyRaises(granted)
  PROVE  TypeInv'
<1>. USE DEF TypeInv
<1>1. /\ pc \in VerifyPhase /\ pc' = "idle" /\ hit' \subseteq Trace
      /\ UNCHANGED <<target, stage, pinned, tree, built, server, loop, cand,
                     patch, pre, outcome>>
  BY FaultTyped
     DEF VerifyRaises, VerifyPhase, Goto, podVars, evidence, PlaceTyped
<1>2. loop = << >>
  BY <1>1 DEF LoopTyped, VerifyPhase, LoopPhase
<1>3. RowTyped'
  BY <1>1, Constants DEF VerifyRaises, RowTyped, State
<1>4. PodTyped' /\ EvidenceTyped' /\ LoopTyped'
  BY <1>1, <1>2 DEF PodTyped, EvidenceTyped, LoopTyped, LoopPhase
<1>5. PlaceTyped'
  BY <1>1 DEF VerifyRaises, PlaceTyped, Phase, PatchPhase, LoopPhase,
              VerifyPhase
<1>6. QED
  BY <1>3, <1>4, <1>5

LEMMA NextTyped == TypeInv /\ [Next]_vars => TypeInv'
<1>. SUFFICES ASSUME TypeInv, [Next]_vars PROVE TypeInv'
  OBVIOUS
<1>1. CASE StartPatch \/ StartVerify \/ SourceUnreadable \/ Requeue
  BY <1>1, BeginsTyped
<1>2. CASE PatchStep
  <2>1. /\ Pristine \in Version /\ TRUE \in BOOLEAN
        /\ "harness_fault" \in Reading /\ "ok" \in Status
    BY Constants DEF Reading, Status
  <2>2. ASSUME NEW ok \in BOOLEAN, NEW v \in Version, NEW r \in Reading,
               \/ UseTools \/ TryEdits(v) \/ Build(ok) \/ Unbuild(ok)
               \/ RunGreen \/ RunNotGreen(r) \/ ChainNotProved(r)
        PROVE  TypeInv'
    BY <2>2, LoopGoesOn
  <2>3. ASSUME NEW v \in Version, NEW e \in Status,
               \/ OneShot(v, e) \/ GiveUp \/ LoopCeiling \/ LoopRaises
               \/ ChainProved(e)
        PROVE  TypeInv'
    BY <2>3, PatchEnds
  <2>4. ASSUME RunDifferent PROVE TypeInv'
    <3>1. CASE MayRecurse
      BY <2>1, <2>4, <3>1, LoopGoesOn
    <3>2. CASE ~MayRecurse
      BY <2>1, <2>4, <3>2, PatchEnds
    <3>3. QED
      BY <3>1, <3>2
  <2>5. {"ok", "retry", "fail", "reject", "blocked"} = Status
        /\ {"ok", "reject"} \subseteq Status
    BY DEF Status
  <2>6. QED
    BY <1>2, <2>1, <2>2, <2>3, <2>4, <2>5 DEF PatchStep
<1>3. CASE VerifyStep
  BY <1>3, VerifyGoesOn, VerifyEnds, VerifyRaisesTyped
     DEF VerifyStep, Status, Reading
<1>4. CASE UNCHANGED vars
  BY <1>4 DEF vars, rowVars, podVars, evidence, TypeInv, RowTyped, PodTyped,
              LoopTyped, EvidenceTyped, PlaceTyped
<1>5. QED
  BY <1>1, <1>2, <1>3, <1>4 DEF Next

\* The row, the pod, the stack of investigations and the evidence have their
\* types, and a stage has the artifacts it needs, in every state.
THEOREM FixLoopTyped == Spec => []TypeOK
<1>1. Spec => []TypeInv
  BY InitTyped, NextTyped, PTL DEF Spec
<1>2. QED
  BY <1>1, TypeInvIsTypeOK, PTL

\* Faults are not forgotten.
LEMMA HitsGrow == [Next]_vars => hit \subseteq hit'
<1>. SUFFICES ASSUME [Next]_vars PROVE hit \subseteq hit'
  OBVIOUS
<1>1. ASSUME StartPatch \/ StartVerify \/ SourceUnreadable \/ Requeue
      PROVE  hit \subseteq hit'
  BY <1>1, FaultLeaves DEF StartPatch, StartVerify, SourceUnreadable, Requeue
<1>2. ASSUME PatchStep PROVE hit \subseteq hit'
  <2>1. ASSUME RunDifferent PROVE hit \subseteq hit'
    BY <2>1, FaultLeaves DEF RunDifferent, GivesUp
  <2>2. QED
    BY <1>2, <2>1, FaultLeaves, Compiled
       DEF PatchStep, OneShot, UseTools, TryEdits, GiveUp, GivesUp,
       LoopCeiling, LoopRaises, Build, Unbuild, RunGreen, RunNotGreen, Reads,
       ChainNotProved, ChainProved, Restore
<1>3. ASSUME VerifyStep PROVE hit \subseteq hit'
  BY <1>3, FaultLeaves, Compiled DEF VerifyStep, VerifyBuildEnds, VerifyBuild, VerifyGreen,
     VerifyTimesOut, VerifyNotGreen, VerifyRerun, VerifyUnbuild, VerifyRules,
     VerifyRaises, Reads
<1>4. CASE UNCHANGED vars
  BY <1>4 DEF vars
<1>5. QED
  BY <1>1, <1>2, <1>3, <1>4 DEF Next

-----------------------------------------------------------------------------
(* Why verdicts are about the patch.  A server that an earlier run left     *)
(* running is the difficulty: what it answers must not be taken for the    *)
(* patched program unless it says the same.                                *)

ServerFair ==
  /\ ~target.daemon => server = NoServer
  /\ stage = "patch" /\ ~target.investigate => server \in {Pristine, NoServer}
  /\ stage # "patch" /\ server # NoServer /\ Crash[server] = NoCrash
       => Crash[patch] = NoCrash

LoopFair ==
  /\ pc = "build" => tree = cand
  /\ pc = "run" => built = cand
  /\ pc \in {"unbuild", "rerun"} /\ ~target.daemon => Crash[cand] = NoCrash

VerifyFair ==
  /\ pc \in {"vbuild", "vrun"} => tree = patch
  /\ pc = "vrun" /\ target.build => built = patch
  /\ pc \in {"vunbuild", "vrerun"} => tree = pre
  /\ pc = "vrerun" /\ target.build => built = pre
  /\ pc \in {"vunbuild", "vrerun", "rule"} => Crash[patch] = NoCrash

VerdictFair ==
  /\ stage = "package" => Crash[patch] = NoCrash
  /\ ~target.daemon /\ target.investigate /\ stage = "verify"
       => Crash[patch] = NoCrash
  /\ outcome = "rollback_red" => Crash[pre] = Bug /\ Crash[patch] = NoCrash
  /\ ~target.daemon /\ outcome = "fix_did_not_resolve" => Crash[patch] = Bug

Fair == ServerFair /\ LoopFair /\ VerifyFair /\ VerdictFair

LEMMA InitFair == Init => Fair
BY Constants DEF Init, Fair, ServerFair, LoopFair, VerifyFair, VerdictFair

\* What the steps below need of the types.
LEMMA Where ==
  ASSUME TypeInv
  PROVE  /\ pc \in PatchPhase => stage = "patch" /\ state = "running"
         /\ pc \in VerifyPhase => stage = "verify" /\ state = "running"
         /\ pc \in LoopPhase => target.investigate
         /\ pc \in {"build", "run", "unbuild", "rerun"} => target.build
         /\ pc \in {"vbuild", "vunbuild"} => target.build
         /\ pc = "oneshot" => ~target.investigate
         /\ stage # "patch" => patch \in Version
         /\ stage = "patch" => outcome = "none"
         /\ stage \in Stage /\ cand \in Version /\ pre \in Version
         /\ tree \in Version /\ built \in Version
         /\ server \in Version \cup {NoServer}
BY DEF TypeInv, RowTyped, PodTyped, LoopTyped, EvidenceTyped, PlaceTyped,
       PatchPhase, VerifyPhase, LoopPhase

\* What each of the states of a run says of the program.
LEMMA Verdicts ==
  ASSUME NEW token \in Token, NEW v \in Version
  PROVE  /\ Classify(token, v) = "confirmed_green" <=> Crash[v] = NoCrash
         /\ Classify(token, v) = "confirmed_red"
              => Crash[v] = token /\ Crash[v] # NoCrash
         /\ Classify(token, v) # "harness_fault"
<1>1. CASE Crash[v] = NoCrash
  <2>1. Classify(token, v) = "confirmed_green"
    BY <1>1, Constants DEF Classify
  <2>2. QED
    BY <1>1, <2>1
<1>2. CASE Crash[v] # NoCrash /\ Crash[v] = token
  <2>1. Classify(token, v) = "confirmed_red"
    BY <1>2 DEF Classify
  <2>2. QED
    BY <1>2, <2>1
<1>3. CASE Crash[v] # NoCrash /\ Crash[v] # token
  <2>1. Classify(token, v) = "different_bug"
    BY <1>3 DEF Classify
  <2>2. QED
    BY <1>3, <2>1
<1>4. QED
  BY <1>1, <1>2, <1>3

LEMMA BeginsFair ==
  ASSUME TypeInv, Fair,
         StartPatch \/ StartVerify \/ SourceUnreadable \/ Requeue
  PROVE  Fair'
<1>. USE DEF Fair
<1>1. CASE StartPatch
  <2>1. /\ stage = "patch" /\ pc' \in {"think", "oneshot"}
        /\ server' \in {server, NoServer}
        /\ UNCHANGED <<target, stage, cand, patch, pre, outcome>>
    BY <1>1 DEF StartPatch, Goto, Entered, evidence
  <2>2. QED
    BY <2>1 DEF ServerFair, LoopFair, VerifyFair, VerdictFair
<1>2. CASE StartVerify
  <2>1. /\ stage = "verify" /\ pc' = IF target.build THEN "vbuild" ELSE "vrun"
        /\ tree' = patch /\ server' \in {server, NoServer} /\ outcome' = "none"
        /\ UNCHANGED <<target, stage, patch>>
    BY <1>2 DEF StartVerify, Goto, Entered
  <2>2. QED
    BY <2>1 DEF ServerFair, LoopFair, VerifyFair, VerdictFair
<1>3. CASE SourceUnreadable
  <2>1. Finish("fail") /\ UNCHANGED <<target, server, patch, pre, outcome>>
    BY <1>3 DEF SourceUnreadable, podVars, evidence
  <2>2. pc' = "idle" /\ stage' = stage
    BY <2>1 DEF Finish, Goto
  <2>3. QED
    BY <2>1, <2>2 DEF ServerFair, LoopFair, VerifyFair, VerdictFair
<1>4. CASE Requeue
  <2>1. UNCHANGED <<target, stage, pinned, tree, built, server, pc, loop, cand,
                    patch, pre, outcome>>
    BY <1>4 DEF Requeue, podVars, evidence
  <2>2. QED
    BY <2>1 DEF ServerFair, LoopFair, VerifyFair, VerdictFair
<1>5. QED
  BY <1>1, <1>2, <1>3, <1>4

\* Inside the investigation only what is being tested changes.
LEMMA LoopFairly ==
  ASSUME TypeInv, Fair, BuildsConsume', NEW ok \in BOOLEAN, NEW v \in Version, NEW r \in Reading,
         \/ UseTools \/ TryEdits(v) \/ Build(ok) \/ Unbuild(ok) \/ RunGreen
         \/ RunNotGreen(r) \/ ChainNotProved(r)
         \/ RunDifferent /\ MayRecurse
  PROVE  Fair'
<1>. USE DEF Fair
<1>1. /\ pc \in LoopPhase /\ pc' \in LoopPhase
      /\ UNCHANGED <<target, stage, patch, pre, outcome>>
  BY DEF UseTools, TryEdits, TakeTurn, Build, Unbuild, RunGreen, RunNotGreen,
         ChainNotProved, RunDifferent, LoopPhase, Goto, rowVars, evidence
<1>2. stage = "patch" /\ target.investigate /\ outcome = "none"
  BY <1>1, Where DEF LoopPhase, PatchPhase
<1>3. VerdictFair' /\ VerifyFair'
  BY <1>1, <1>2 DEF VerdictFair, VerifyFair, LoopPhase
<1>4. ServerFair'
  <2>1. \/ server' = server
        \/ \E u : Serve(u)
    BY DEF UseTools, TryEdits, Build, Unbuild, RunGreen, RunNotGreen,
           ChainNotProved, RunDifferent, podVars
  <2>2. ~target.daemon => server' = server
    BY <2>1 DEF Serve
  <2>3. QED
    BY <1>1, <1>2, <2>2 DEF ServerFair
<1>5. LoopFair'
  <2>1. CASE UseTools
    BY <2>1 DEF UseTools, TakeTurn, LoopFair
  <2>2. CASE TryEdits(v)
    BY <2>2 DEF TryEdits, Goto, LoopFair
  <2>3. CASE Build(ok)
    BY <2>3, Compiled DEF Build, Goto, LoopFair, BuildsConsume
  <2>4. CASE Unbuild(ok)
    BY <2>4 DEF Unbuild, Goto, LoopFair
  <2>5. CASE RunGreen
    <3>1. pc = "run" /\ cand' = cand /\ target' = target
          /\ pc' \in {"unbuild", "think"} /\ Crash[Observed] = NoCrash
      BY <2>5 DEF RunGreen, Goto, Classify
    <3>2. ~target.daemon => Observed = cand
      BY <3>1, Where DEF Observed, Program, LoopFair
    <3>3. QED
      BY <3>1, <3>2 DEF LoopFair
  <2>6. ASSUME \/ RunNotGreen(r)
               \/ ChainNotProved(r)
               \/ RunDifferent /\ MayRecurse
        PROVE  LoopFair'
    <3>1. pc' = "think"
      BY <2>6 DEF RunNotGreen, ChainNotProved, RunDifferent, Goto
    <3>2. QED
      BY <3>1 DEF LoopFair
  <2>7. QED
    BY <2>1, <2>2, <2>3, <2>4, <2>5, <2>6
<1>6. QED
  BY <1>3, <1>4, <1>5

\* A patch that leaves the stage was tested with the source green and red,
\* or was never tested by anybody.
LEMMA PatchEndsFair ==
  ASSUME TypeInv, Fair, NEW v \in Version, NEW s \in Status,
         \/ OneShot(v, s) \/ GiveUp \/ LoopCeiling \/ LoopRaises
         \/ RunDifferent /\ ~MayRecurse
         \/ ChainProved(s)
  PROVE  Fair'
<1>. USE DEF Fair
<1>1. CASE ~ChainProved(s)
  <2>1. /\ pc \in PatchPhase /\ UNCHANGED <<target, pre, outcome>>
        /\ \E e \in Status : /\ Finish(e)
                             /\ e = "ok" => pc = "oneshot" /\ server' = server
    BY <1>1 DEF OneShot, GiveUp, GivesUp, LoopCeiling, LoopRaises,
       RunDifferent, PatchPhase, LoopPhase, Status, evidence, podVars
  <2>2. PICK e \in Status : /\ Finish(e)
                            /\ e = "ok" => pc = "oneshot" /\ server' = server
    BY <2>1
  <2>3. pc' = "idle" /\ stage = "patch" /\ outcome = "none"
        /\ stage' = IF e = "ok" THEN "verify" ELSE "patch"
    BY <2>1, <2>2, Where DEF Finish, Goto
  <2>4. server' = server \/ \E u : Serve(u)
    BY <1>1 DEF OneShot, GiveUp, GivesUp, LoopCeiling, LoopRaises,
       RunDifferent, podVars
  <2>5. ServerFair'
    <3>1. ~target.daemon => server' = server
      BY <2>4 DEF Serve
    <3>2. pc = "oneshot" => server' = server
      BY <1>1 DEF OneShot, GiveUp, GivesUp, LoopCeiling, LoopRaises,
         RunDifferent, podVars
    <3>3. pc # "oneshot" => target.investigate
      BY <2>1, Where DEF PatchPhase
    <3>4. Crash[Pristine] # NoCrash
      BY Constants DEF Bug
    <3>5. QED
      BY <2>1, <2>2, <2>3, <3>1, <3>2, <3>3, <3>4, Where DEF ServerFair
  <2>6. QED
    BY <2>1, <2>2, <2>3, <2>5, Where DEF LoopFair, VerifyFair, VerdictFair
<1>2. CASE ChainProved(s)
  <2>0. Crash[ObservedAfterKill] # NoCrash
    <3>1. Classify(Innermost.token, ObservedAfterKill) = "confirmed_red"
      BY <1>2 DEF ChainProved
    <3>2. /\ Innermost.token \in Token
          /\ ObservedAfterKill \in Version
      BY <1>2, InnermostTyped, Where
         DEF ChainProved, LoopPhase, TypeInv, ObservedAfterKill, Program
    <3>3. QED
      BY <3>1, <3>2, Verdicts
  <2>1. /\ pc = "rerun" /\ Finish(s) /\ Serve(ObservedAfterKill)
        /\ UNCHANGED <<target, cand, pre, outcome>>
        /\ s = "ok" => patch' = cand
        /\ s \in {"ok", "reject"}
    BY <1>2 DEF ChainProved, ComposedPatch
  <2>2. pc' = "idle" /\ stage = "patch" /\ outcome = "none"
        /\ target.investigate
        /\ stage' = IF s = "ok" THEN "verify" ELSE "patch"
    BY <2>1, Where DEF Finish, Goto, PatchPhase, LoopPhase
  <2>3. ServerFair'
    BY <2>0, <2>1, <2>2 DEF ServerFair, Serve
  <2>4. QED
    BY <2>1, <2>2, <2>3 DEF LoopFair, VerifyFair, VerdictFair
<1>3. QED
  BY <1>1, <1>2

\* Verify runs the program of the patch, or a server that says as much.
LEMMA VerifyObserves ==
  ASSUME TypeInv, Fair, pc = "vrun"
  PROVE  /\ stage = "verify"
         /\ Program = patch
         /\ Crash[Observed] = NoCrash => Crash[patch] = NoCrash
         /\ ~target.daemon => Observed = patch
<1>1. stage = "verify"
  BY Where DEF VerifyPhase
<1>2. Program = patch
  BY DEF Program, Fair, VerifyFair
<1>3. QED
  BY <1>1, <1>2 DEF Observed, Fair, ServerFair

LEMMA ObservedIsVersion == TypeInv => Observed \in Version
BY Where DEF Observed, Program

LEMMA VerifyFairly ==
  ASSUME TypeInv, Fair, BuildsConsume', NEW ok \in BOOLEAN, NEW r \in Reading,
         VerifyBuild \/ VerifyGreen \/ VerifyUnbuild(ok) \/ VerifyRerun(r)
  PROVE  Fair'
<1>. USE DEF Fair
<1>1. CASE VerifyBuild
  <2>1. /\ pc = "vbuild" /\ pc' = "vrun" /\ built' = tree
        /\ UNCHANGED <<target, stage, tree, server, patch, pre, outcome, cand>>
    BY <1>1, Compiled DEF VerifyBuild, Goto, BuildsConsume, rowVars, evidence
  <2>2. QED
    BY <2>1 DEF ServerFair, LoopFair, VerifyFair, VerdictFair
<1>2. CASE VerifyGreen
  <2>1. /\ pc = "vrun" /\ tree' = pre /\ Serve(Observed)
        /\ \/ pc' = (IF target.build THEN "vunbuild" ELSE "vrerun")
              /\ UNCHANGED outcome
           \/ outcome' = "undo_broken" /\ pc' = "rule"
        /\ UNCHANGED <<target, stage, built, patch, pre, cand>>
    BY <1>2 DEF VerifyGreen, Goto, rowVars
  <2>2. Classify(Bug, Observed) = "confirmed_green"
    BY <1>2 DEF VerifyGreen
  <2>3. Crash[Observed] = NoCrash
    BY <2>1, <2>2, ObservedIsVersion, Constants, Verdicts
  <2>4. stage = "verify" /\ Crash[patch] = NoCrash
    BY <2>1, <2>3, VerifyObserves
  <2>5. ~target.daemon => server' = server
    BY <2>1 DEF Serve
  <2>6. QED
    BY <2>1, <2>4, <2>5, Where
       DEF ServerFair, LoopFair, VerifyFair, VerdictFair
<1>3. CASE VerifyUnbuild(ok)
  <2>1. /\ pc = "vunbuild" /\ stage = "verify"
        /\ \/ built' = tree /\ pc' = "vrerun" /\ UNCHANGED outcome
           \/ outcome' = "build_failed" /\ pc' = "rule"
        /\ UNCHANGED <<target, stage, tree, server, patch, pre, cand>>
    BY <1>3, Where, Compiled
       DEF VerifyUnbuild, Goto, BuildsConsume, rowVars, VerifyPhase
  <2>2. QED
    BY <2>1 DEF ServerFair, LoopFair, VerifyFair, VerdictFair
<1>4. CASE VerifyRerun(r)
  <2>1. /\ pc = "vrerun" /\ stage = "verify" /\ pc' = "rule"
        /\ Serve(ObservedAfterKill)
        /\ outcome' = IF r = "confirmed_red" THEN "rollback_red"
                                             ELSE "rollback_not_red"
        /\ UNCHANGED <<target, stage, tree, built, patch, pre, cand>>
    BY <1>4, Where DEF VerifyRerun, Goto, rowVars, VerifyPhase
  <2>2. ObservedAfterKill = pre /\ Crash[patch] = NoCrash
    BY <2>1 DEF ObservedAfterKill, Program, VerifyFair
  <2>3. r = "confirmed_red" => Crash[pre] = Bug
    <3>1. r = "confirmed_red" => r = Classify(Bug, pre)
      BY <1>4, <2>2 DEF VerifyRerun, Reads
    <3>2. QED
      BY <3>1, Where, Constants, Verdicts
  <2>4. ~target.daemon => server' = server
    BY <2>1 DEF Serve
  <2>5. QED
    BY <2>1, <2>2, <2>3, <2>4 DEF ServerFair, LoopFair, VerifyFair, VerdictFair
<1>5. QED
  BY <1>1, <1>2, <1>3, <1>4

\* A verdict is about the patch: green was seen before the rules are applied,
\* and a rejection saw the tracked crash.
LEMMA VerifyEndsFair ==
  ASSUME TypeInv, Fair, NEW s \in Status, NEW r \in Reading,
         NEW intact \in BOOLEAN,
         \/ VerifyBuildEnds(s) \/ VerifyTimesOut(intact)
         \/ VerifyNotGreen(r, intact) \/ VerifyRules(s)
  PROVE  Fair'
<1>. USE DEF Fair
<1>1. \E e \in Status :
         /\ Finish(e)
         /\ e = "ok" => pc = "rule"
         /\ \/ outcome' = "none" \/ outcome' = outcome
            \/ outcome' = "different_bug"
            \/ pc = "vrun" /\ r = Classify(Bug, Observed) /\ r = "confirmed_red"
               /\ outcome' = "fix_did_not_resolve"
  <2>1. CASE VerifyBuildEnds(s)
    BY <2>1 DEF VerifyBuildEnds, evidence
  <2>2. CASE VerifyTimesOut(intact)
    <3>1. UNCHANGED outcome /\ (Finish("retry") \/ Finish("fail"))
      BY <2>2 DEF VerifyTimesOut, evidence
    <3>2. {"retry", "fail"} \subseteq Status
      BY DEF Status
    <3>3. QED
      BY <3>1, <3>2
  <2>3. CASE VerifyNotGreen(r, intact)
    <3>1. Finish("reject") \/ Finish("fail")
      BY <2>3 DEF VerifyNotGreen
    <3>2. {"reject", "fail"} \subseteq Status
      BY DEF Status
    <3>3. \/ outcome' = "none" \/ outcome' = "different_bug"
          \/ outcome' = "fix_did_not_resolve" /\ r = "confirmed_red"
      <4>1. r # "confirmed_green"
            /\ outcome' = CASE ~intact \/ r = "harness_fault" -> "none"
                            [] r = "different_bug" -> "different_bug"
                            [] OTHER -> "fix_did_not_resolve"
        BY <2>3 DEF VerifyNotGreen
      <4>2. r \in {"confirmed_red", "different_bug", "harness_fault"}
        BY <4>1 DEF Reading
      <4>3. QED
        BY <4>1, <4>2
    <3>4. pc = "vrun" /\ (r = "confirmed_red" => r = Classify(Bug, Observed))
      BY <2>3 DEF VerifyNotGreen, Reads
    <3>5. QED
      BY <3>1, <3>2, <3>3, <3>4
  <2>4. CASE VerifyRules(s)
    <3>1. Finish(s) /\ pc = "rule" /\ outcome' \in {outcome, "none"}
      BY <2>4 DEF VerifyRules
    <3>2. QED
      BY <3>1
  <2>5. QED
    BY <2>1, <2>2, <2>3, <2>4
<1>2. PICK e \in Status :
         /\ Finish(e)
         /\ e = "ok" => pc = "rule"
         /\ \/ outcome' = "none" \/ outcome' = outcome
            \/ outcome' = "different_bug"
            \/ pc = "vrun" /\ r = Classify(Bug, Observed) /\ r = "confirmed_red"
               /\ outcome' = "fix_did_not_resolve"
  BY <1>1
<1>3. /\ pc \in VerifyPhase /\ UNCHANGED <<target, patch, pre>>
      /\ \/ server' = server
         \/ pc = "vrun" /\ Serve(Observed)
  BY DEF VerifyBuildEnds, VerifyTimesOut, VerifyNotGreen, VerifyRules,
         VerifyPhase, podVars, evidence
<1>a. Finish(e)
  BY <1>2
<1>b. e = "ok" => pc = "rule"
  BY <1>2
<1>c. stage = "verify"
  BY <1>3, Where
<1>4. pc' = "idle" /\ stage' = IF e = "ok" THEN "package" ELSE "verify"
  BY <1>a, <1>c DEF Finish, Goto
<1>5. ServerFair'
  <2>1. ~target.daemon => server' = server
    BY <1>3 DEF Serve
  <2>2. QED
    BY <1>3, <1>4, <1>c, <2>1, VerifyObserves DEF ServerFair, Serve
<1>6. VerdictFair'
  <2>1. stage' = "package" => Crash[patch] = NoCrash
    <3>1. stage' = "package" => pc = "rule"
      BY <1>4, <1>b
    <3>2. QED
      BY <3>1 DEF VerifyFair
  <2>2. outcome' = "fix_did_not_resolve" /\ ~target.daemon
          => Crash[patch] = Bug
    BY <1>2, ObservedIsVersion, Constants, Verdicts, VerifyObserves
       DEF VerdictFair
  <2>3. outcome' = "rollback_red" => outcome = "rollback_red"
    BY <1>2
  <2>4. QED
    BY <1>3, <1>4, <1>c, <2>1, <2>2, <2>3 DEF VerdictFair
<1>7. QED
  BY <1>4, <1>5, <1>6 DEF LoopFair, VerifyFair

LEMMA VerifyRaisesFair ==
  ASSUME TypeInv, Fair, NEW granted \in BOOLEAN, VerifyRaises(granted)
  PROVE  Fair'
<1>1. /\ pc' = "idle"
      /\ UNCHANGED <<target, stage, server, patch, pre, outcome>>
  BY DEF VerifyRaises, Goto, podVars, evidence
<1>2. QED
  BY <1>1 DEF Fair, ServerFair, LoopFair, VerifyFair, VerdictFair

FairInv == BuildsConsume => Fair

LEMMA NextFair == TypeInv /\ FairInv /\ [Next]_vars => FairInv'
<1>. SUFFICES ASSUME TypeInv, FairInv, [Next]_vars, BuildsConsume' PROVE Fair'
  BY DEF FairInv
<1>. Fair
  BY HitsGrow DEF FairInv, BuildsConsume
<1>1. CASE StartPatch \/ StartVerify \/ SourceUnreadable \/ Requeue
  BY <1>1, BeginsFair
<1>2. CASE PatchStep
  <2>1. /\ Pristine \in Version /\ TRUE \in BOOLEAN
        /\ "harness_fault" \in Reading /\ "ok" \in Status
    BY Constants DEF Reading, Status
  <2>2. ASSUME NEW ok \in BOOLEAN, NEW v \in Version, NEW r \in Reading,
               \/ UseTools \/ TryEdits(v) \/ Build(ok) \/ Unbuild(ok)
               \/ RunGreen \/ RunNotGreen(r) \/ ChainNotProved(r)
        PROVE  Fair'
    BY <2>2, LoopFairly
  <2>3. ASSUME NEW v \in Version, NEW e \in Status,
               \/ OneShot(v, e) \/ GiveUp \/ LoopCeiling \/ LoopRaises
               \/ ChainProved(e)
        PROVE  Fair'
    BY <2>3, PatchEndsFair
  <2>4. ASSUME RunDifferent PROVE Fair'
    <3>1. CASE MayRecurse
      BY <2>1, <2>4, <3>1, LoopFairly
    <3>2. CASE ~MayRecurse
      BY <2>1, <2>4, <3>2, PatchEndsFair
    <3>3. QED
      BY <3>1, <3>2
  <2>5. {"ok", "retry", "fail", "reject", "blocked"} = Status
        /\ {"ok", "reject"} \subseteq Status
    BY DEF Status
  <2>6. QED
    BY <1>2, <2>1, <2>2, <2>3, <2>4, <2>5 DEF PatchStep
<1>3. CASE VerifyStep
  <2>1. TRUE \in BOOLEAN /\ "harness_fault" \in Reading /\ "ok" \in Status
    BY DEF Reading, Status
  <2>2. QED
    BY <1>3, <2>1, VerifyFairly, VerifyEndsFair, VerifyRaisesFair
       DEF VerifyStep, Status
<1>4. CASE UNCHANGED vars
  BY <1>4 DEF vars, rowVars, podVars, evidence, Fair, ServerFair, LoopFair,
              VerifyFair, VerdictFair
<1>5. QED
  BY <1>1, <1>2, <1>3, <1>4 DEF Next

LEMMA AlwaysFair == Spec => [](TypeInv /\ FairInv)
<1>1. Init => FairInv
  BY InitFair DEF FairInv
<1>2. QED
  BY <1>1, InitTyped, NextTyped, NextFair, PTL DEF Spec

\* The artifact of a proved chain, with nested investigations the edits of
\* all of them, and any patch verify lets through repair the program, as long
\* as builds consume the file.
THEOREM ProvedChainsRepair == Spec => []ProvedPatchIsGreen
<1>1. TypeInv /\ FairInv => ProvedPatchIsGreen
  BY DEF FairInv, Fair, VerdictFair, ProvedPatchIsGreen
<1>2. QED
  BY <1>1, AlwaysFair, PTL

\* verify_green_rollback_red is only said of a diff that moves the program
\* from the tracked crash to none, whatever a server left running answers, as
\* long as builds consume the file.
THEOREM RollbackProves == Spec => []ChainIsReal
<1>1. TypeInv /\ FairInv => ChainIsReal
  BY DEF FairInv, Fair, VerdictFair, ChainIsReal
<1>2. QED
  BY <1>1, AlwaysFair, PTL

\* verify_fix_did_not_resolve is only said of a patch whose own program shows
\* the tracked crash, for a reproducer that leaves no server behind and builds
\* that consume the file (no build so far exited 0 on another text).
THEOREM RejectionsJudgeThePatch == Spec => []RejectionIsFair
<1>1. TypeInv /\ FairInv => RejectionIsFair
  BY DEF FairInv, Fair, VerdictFair, RejectionIsFair, JudgedItself
<1>2. QED
  BY <1>1, AlwaysFair, PTL

-----------------------------------------------------------------------------
(* Why the source stays the original one.  The pod is only looked at again *)
(* when the row names it: a stage that ended without a fault put the file  *)
(* back, or the finding is over and its pod is gone.                       *)

Clean ==
  /\ loop # << >> => loop[1].source = Decode[Pristine]
  /\ pc \in {"idle", "oneshot"} /\ pinned /\ stage \in {"patch", "verify"}
       => Decode[tree] = Decode[Pristine]
  /\ pc \in VerifyPhase => pre = Decode[Pristine]

CleanInv == "patch" \notin hit => Clean

LEMMA InitClean == Init => CleanInv
BY DEF Init, CleanInv, Clean, VerifyPhase

\* A stage that fails or rejects leaves no pod to the finding.
LEMMA OverIsClean ==
  ASSUME NEW s \in {"fail", "reject"}, Finish(s)
  PROVE  Clean'
<1>1. pinned' = FALSE /\ pc' = "idle" /\ loop' = << >>
  BY DEF Finish, Goto
<1>2. QED
  BY <1>1 DEF Clean, VerifyPhase

LEMMA BeginsClean ==
  ASSUME TypeInv, Clean, StartPatch \/ StartVerify \/ SourceUnreadable \/ Requeue
  PROVE  Clean'
<1>1. ASSUME state = "pending", stage \in {"patch", "verify"}
      PROVE  Decode[Entered.tree] = Decode[Pristine]
  <2>1. pc = "idle"
    BY <1>1 DEF TypeInv, PlaceTyped
  <2>2. QED
    BY <1>1, <2>1 DEF Clean, Entered
<1>2. CASE StartPatch
  <2>1. /\ state = "pending" /\ stage = "patch" /\ stage' = stage
        /\ tree' = Entered.tree /\ loop = << >>
        /\ \/ pc' = "think" /\ loop' = <<[source |-> Decode[Entered.tree],
                                         token |-> Bug, turn |-> 0]>>
           \/ pc' = "oneshot" /\ loop' = loop
    BY <1>2 DEF StartPatch, Goto, TypeInv, LoopTyped, PlaceTyped, PatchPhase,
                LoopPhase
  <2>2. loop' # << >> => loop'[1].source = Decode[Entered.tree]
    BY <2>1
  <2>3. QED
    BY <1>1, <2>1, <2>2 DEF Clean, VerifyPhase
<1>3. CASE StartVerify
  <2>1. /\ state = "pending" /\ stage = "verify"
        /\ pre' = Decode[Entered.tree] /\ loop' = loop
        /\ pc' \in {"vbuild", "vrun"}
    BY <1>3 DEF StartVerify, Goto
  <2>2. QED
    BY <1>1, <2>1 DEF Clean
<1>4. CASE SourceUnreadable
  BY <1>4, OverIsClean DEF SourceUnreadable
<1>5. CASE Requeue
  BY <1>5 DEF Requeue, podVars, evidence, Clean
<1>6. QED
  BY <1>2, <1>3, <1>4, <1>5

\* However deep the investigation, the outermost source is what it was.
LEMMA LoopIsClean ==
  ASSUME TypeInv, Clean, NEW ok, NEW v \in Version, NEW r,
         \/ UseTools \/ TryEdits(v) \/ Build(ok) \/ Unbuild(ok) \/ RunGreen
         \/ RunNotGreen(r) \/ ChainNotProved(r)
         \/ RunDifferent /\ MayRecurse
  PROVE  Clean'
<1>1. pc \in LoopPhase /\ pc' \in LoopPhase
  BY DEF UseTools, TryEdits, TakeTurn, Build, Unbuild, RunGreen, RunNotGreen,
         ChainNotProved, RunDifferent, LoopPhase, Goto
<1>2. LoopTyped /\ loop # << >>
  BY <1>1 DEF TypeInv, LoopTyped
<1>3. loop'[1].source = loop[1].source
  <2>1. CASE TakeTurn
    BY <1>2, <2>1, TurnTyped
  <2>2. CASE RunDifferent /\ MayRecurse
    <3>1. /\ pc = "run" /\ Serve(Observed)
          /\ Classify(Innermost.token, Observed) = "different_bug"
          /\ loop' = Append(loop, [source |-> cand, token |-> Crash[Observed],
                                  turn |-> 0])
      BY <2>2 DEF RunDifferent
    <3>2. loop \in Seq(Frame) /\ Len(loop) \in Nat \ {0}
      BY <1>2 DEF LoopTyped
    <3>3. QED
      BY <3>1, <3>2
  <2>3. CASE UNCHANGED loop
    BY <2>3
  <2>4. QED
    BY <2>1, <2>2, <2>3
       DEF UseTools, TryEdits, Build, Unbuild, RunGreen, RunNotGreen,
           ChainNotProved, rowVars, podVars, evidence
<1>4. QED
  BY <1>1, <1>2, <1>3 DEF Clean, LoopPhase, VerifyPhase

\* The patch stage ends: a proof writes the outermost source back.
LEMMA PatchEndsClean ==
  ASSUME TypeInv, Clean, NEW v \in Version, NEW s \in Status,
         \/ OneShot(v, s) \/ GiveUp \/ ChainProved(s)
         \/ RunDifferent /\ ~MayRecurse,
         "patch" \notin hit'
  PROVE  Clean'
<1>1. CASE OneShot(v, s)
  <2>1. /\ pc = "oneshot" /\ stage = "patch" /\ Finish(s) /\ tree' = tree
    BY <1>1, Where DEF OneShot, podVars, PatchPhase
  <2>2. pc' = "idle" /\ loop' = << >> /\ (pinned' => pinned)
    BY <2>1 DEF Finish, Goto
  <2>3. QED
    BY <2>1, <2>2 DEF Clean, VerifyPhase
<1>2. CASE GiveUp \/ (RunDifferent /\ ~MayRecurse)
  <2>1. Finish("fail") \/ Finish("reject")
    BY <1>2 DEF GiveUp, RunDifferent, GivesUp
  <2>2. QED
    BY <2>1, OverIsClean
<1>3. CASE ChainProved(s)
  <2>1. /\ pc = "rerun" /\ Finish(s) /\ Restore(loop[1].source)
    BY <1>3 DEF ChainProved, RestoredSource
  <2>2. tree' = loop[1].source
    BY <2>1, FaultLeaves DEF Restore, LeavesPatch
  <2>3. loop # << >>
    BY <2>1 DEF TypeInv, LoopTyped, LoopPhase
  <2>4. Decode[tree'] = Decode[Pristine]
    BY <2>2, <2>3, Constants DEF Clean
  <2>5. pc' = "idle" /\ loop' = << >>
    BY <2>1 DEF Finish, Goto
  <2>6. QED
    BY <2>4, <2>5 DEF Clean, VerifyPhase
<1>4. QED
  BY <1>1, <1>2, <1>3

LEMMA VerifyIsClean ==
  ASSUME TypeInv, Clean, VerifyStep, "patch" \notin hit'
  PROVE  Clean'
<1>1. ASSUME NEW ok, NEW r,
             VerifyBuild \/ VerifyGreen \/ VerifyUnbuild(ok) \/ VerifyRerun(r)
      PROVE  Clean'
  <2>1. /\ pc \in VerifyPhase /\ pc' \in VerifyPhase
        /\ pre' = pre /\ loop' = loop
    BY <1>1 DEF VerifyBuild, VerifyGreen, VerifyUnbuild, VerifyRerun,
                VerifyPhase, Goto, evidence
  <2>2. QED
    BY <2>1 DEF Clean, VerifyPhase
<1>2. ASSUME NEW s \in {"fail", "reject", "retry"}, VerifyBuildEnds(s)
      PROVE  Clean'
  <2>1. Finish(s) /\ s # "retry"
    BY <1>2, FaultLeaves DEF VerifyBuildEnds, LeavesPatch
  <2>2. QED
    BY <1>2, <2>1, OverIsClean
<1>3. ASSUME NEW intact, VerifyTimesOut(intact) PROVE FALSE
  BY <1>3, FaultLeaves DEF VerifyTimesOut, LeavesPatch
<1>4. ASSUME NEW r, NEW intact, VerifyNotGreen(r, intact) PROVE Clean'
  <2>1. Finish("reject") \/ Finish("fail")
    BY <1>4 DEF VerifyNotGreen
  <2>2. QED
    BY <2>1, OverIsClean
<1>5. ASSUME NEW s \in Status, VerifyRules(s) PROVE Clean'
  <2>1. Finish(s) /\ pc = "rule" /\ s \in {"ok", "fail", "reject"}
    BY <1>5, FaultLeaves DEF VerifyRules, LeavesPatch
  <2>2. CASE s = "ok"
    <3>1. stage = "verify"
      BY <2>1, Where DEF VerifyPhase
    <3>2. stage' = "package" /\ pc' = "idle" /\ loop' = << >>
      BY <2>1, <2>2, <3>1 DEF Finish, Goto
    <3>3. QED
      BY <3>2 DEF Clean, VerifyPhase
  <2>3. CASE s # "ok"
    BY <2>1, <2>3, OverIsClean
  <2>4. QED
    BY <2>2, <2>3
<1>6. ASSUME NEW granted, VerifyRaises(granted) PROVE FALSE
  BY <1>6, FaultLeaves DEF VerifyRaises, LeavesPatch
<1>7. {"ok", "reject", "fail", "retry", "blocked"} = Status
  BY DEF Status
<1>8. QED
  BY <1>1, <1>2, <1>3, <1>4, <1>5, <1>6, <1>7 DEF VerifyStep

LEMMA NextClean == TypeInv /\ CleanInv /\ [Next]_vars => CleanInv'
<1>. SUFFICES ASSUME TypeInv, CleanInv, [Next]_vars,
                     "patch" \notin hit'
              PROVE  Clean'
  BY DEF CleanInv
<1>0. Clean
  BY HitsGrow DEF CleanInv
<1>1. CASE StartPatch \/ StartVerify \/ SourceUnreadable \/ Requeue
  BY <1>0, <1>1, BeginsClean
<1>2. CASE PatchStep
  <2>1. Pristine \in Version /\ "ok" \in Status
    BY Constants DEF Status
  <2>2. ASSUME NEW ok \in BOOLEAN, NEW v \in Version, NEW r \in Reading,
               \/ UseTools \/ TryEdits(v) \/ Build(ok) \/ Unbuild(ok)
               \/ RunGreen \/ RunNotGreen(r) \/ ChainNotProved(r)
        PROVE  Clean'
    BY <1>0, <2>2, LoopIsClean
  <2>3. ASSUME NEW v \in Version, NEW e \in Status,
               OneShot(v, e) \/ GiveUp \/ ChainProved(e)
        PROVE  Clean'
    BY <1>0, <2>3, PatchEndsClean
  <2>4. ASSUME LoopCeiling \/ LoopRaises PROVE FALSE
    BY <2>4, FaultLeaves DEF LoopCeiling, LoopRaises, LeavesPatch
  <2>5. ASSUME RunDifferent PROVE Clean'
    <3>1. CASE MayRecurse
      BY <1>0, <2>1, <2>5, <3>1, LoopIsClean
    <3>2. CASE ~MayRecurse
      BY <1>0, <2>1, <2>5, <3>2, PatchEndsClean
    <3>3. QED
      BY <3>1, <3>2
  <2>6. {"ok", "retry", "fail", "reject", "blocked"} = Status
        /\ {"ok", "reject"} \subseteq Status
        /\ TRUE \in BOOLEAN /\ "harness_fault" \in Reading
    BY DEF Status, Reading
  <2>7. ASSUME \/ UseTools \/ RunGreen
               \/ \E v \in Version : TryEdits(v)
               \/ \E ok \in BOOLEAN : Build(ok) \/ Unbuild(ok)
               \/ \E r \in Reading : RunNotGreen(r) \/ ChainNotProved(r)
        PROVE  Clean'
    BY <2>1, <2>2, <2>6, <2>7
  <2>8. ASSUME \/ GiveUp
               \/ \E v \in Version, e \in Status : OneShot(v, e)
               \/ \E e \in {"ok", "reject"} : ChainProved(e)
        PROVE  Clean'
    BY <2>1, <2>3, <2>6, <2>8
  <2>9. QED
    BY <1>2, <2>4, <2>5, <2>6, <2>7, <2>8 DEF PatchStep
<1>3. CASE VerifyStep
  BY <1>0, <1>3, VerifyIsClean
<1>4. CASE UNCHANGED vars
  BY <1>0, <1>4 DEF vars, rowVars, podVars, evidence, Clean
<1>5. QED
  BY <1>1, <1>2, <1>3, <1>4 DEF Next

\* Without a fault that cuts a stage short, every investigation and every
\* verification starts from the original text, after any number of retries,
\* re-runs and nested investigations.
THEOREM SourceStaysClean == Spec => []CleanSource
<1>1. TypeInv /\ CleanInv => CleanSource
  <2>1. ASSUME TypeInv, stage = "verify", state = "running"
        PROVE  pc \in VerifyPhase
    BY <2>1 DEF TypeInv, PlaceTyped, Phase, VerifyPhase, PatchPhase, LoopPhase
  <2>2. QED
    BY <2>1 DEF CleanInv, Clean, CleanSource
<1>2. QED
  BY <1>1, InitTyped, NextTyped, InitClean, NextClean, PTL DEF Spec
=============================================================================
