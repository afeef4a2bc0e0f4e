--------------------------- MODULE VerdictProofs ----------------------------
(***************************************************************************)
(* What the verdict promises for every set of specs, outputs, sources and  *)
(* replies: a proof is walled, and reverting a patch brings the bug back.  *)
(* Files may be written to, and put back, between any two steps.           *)
(***************************************************************************)
EXTENDS Verdict, Amounts, SequenceTheorems

(***************************************************************************)
(* Specs                                                                   *)
(***************************************************************************)
LEMMA StoredSpecs ==
  ASSUME NEW s \in Stored
  PROVE  /\ s.kind \in {"sanitizer", "http"}
         /\ s.reproducer \cup s.suite \cup {s.runs, s.target} \subseteq Files
         /\ RunsWhatItNames(s)
<1>1. PICK t \in Specs : /\ s.kind = t.kind /\ s.reproducer = t.reproducer
                         /\ s.suite = t.suite /\ s.runs = t.runs
                         /\ s.target = t.target /\ s.command = t.command
  BY VerdictAssumption
     DEF Stored, By, LoadSpec, TargetSpecSave, FinalSpec, SpecFields
<1>2. QED
  BY <1>1, VerdictAssumption DEF RunsWhatItNames

\* A run of the program is a run, and not the absence of one.
LEMMA RunsAreRuns ==
  ASSUME NEW s \in Stored, NEW run \in Outputs[s.kind]
  PROVE  /\ run # NoRun
         /\ run.lines \in Seq([k : LineKinds, n : STRING, v : STRING])
BY StoredSpecs, VerdictAssumption

(***************************************************************************)
(* The wall: what a lock holds is what was in the image before any patch   *)
(***************************************************************************)
Locked ==
  /\ CommandShape(spec)
  /\ DOMAIN lock.files = ProtectedFiles(spec)
  /\ \A f \in DOMAIN lock.files : lock.files[f] = "frozen"

WallInv ==
  /\ spec \in Stored
  /\ pc = "reproduce" => content \in [Files -> {"frozen", "missing"}]
  /\ pc \notin {"reproduce", "done"} => Locked
  /\ pc # "done" => outcome = Open
  /\ outcome = Proved => Locked /\ Violations(lock.files, content) = {}

LEMMA WallInit == Init => WallInv
<1>. SUFFICES ASSUME Init PROVE WallInv
  OBVIOUS
<1>1. /\ spec \in Stored /\ pc = "reproduce" /\ outcome = Open
      /\ content \in [Files -> {"frozen", "missing"}]
  BY DEF Init
<1>2. Open # Proved
  BY DEF Open, Proved
<1>3. QED
  BY <1>1, <1>2 DEF WallInv

\* A finding that ends with anything but a proof.
LEMMA Unproved ==
  ASSUME WallInv, spec' = spec, pc' = "done",
         NEW at, NEW is, outcome' = [at |-> at, is |-> is], at # "rollback"
  PROVE  WallInv'
<1>1. outcome' # Proved
  BY DEF Proved
<1>2. QED
  BY <1>1 DEF WallInv

LEMMA WallReproduce ==
  ASSUME WallInv, Reproduce \/ ReproduceRaises PROVE WallInv'
<1>1. CASE ReproduceRaises
  BY <1>1, Unproved DEF ReproduceRaises, End
<1>2. CASE Reproduce
  <2>1. pc = "reproduce" /\ UNCHANGED <<spec, content>>
    BY <1>2 DEF Reproduce
  <2>2. PICK run, r :
          \/ \E is : End("reproduce", is)
          \/ /\ CommandShape(spec) /\ CanFreeze(spec, content)
             /\ pc' = "patch" /\ lock' = MakeLock(r) /\ UNCHANGED outcome
    <3>1. PICK run \in Outputs[spec.kind] :
            LET r == ReadingOf("reproduce", run)
                red == ~run.late /\ r.state = "red"
                end(is) == End("reproduce", is) /\ UNCHANGED lock
            IN  \/ run.late /\ end("timeout")
                \/ ~run.late /\ r.state # "red" /\ end(r.state)
                \/ red /\ ~CommandShape(spec) /\ end("command_shape_invalid")
                \/ /\ red /\ CommandShape(spec) /\ ~CanFreeze(spec, content)
                   /\ end("wall_not_established")
                \/ /\ red /\ CommandShape(spec) /\ CanFreeze(spec, content)
                   /\ pc' = "patch" /\ lock' = MakeLock(r)
                   /\ UNCHANGED outcome
      BY <1>2 DEF Reproduce
    <3>2. QED
      BY <3>1
  <2>3. ASSUME NEW is, End("reproduce", is) PROVE WallInv'
    BY <2>1, <2>3, Unproved DEF End
  <2>4. CASE /\ CommandShape(spec) /\ CanFreeze(spec, content)
             /\ pc' = "patch" /\ lock' = MakeLock(r) /\ UNCHANGED outcome
    <3>1. lock'.files = [f \in ProtectedFiles(spec) |-> content[f]]
      BY <2>4 DEF MakeLock, Freeze
    <3>2. \A f \in ProtectedFiles(spec) : content[f] = "frozen"
      <4>1. ProtectedFiles(spec) \subseteq Files
        BY StoredSpecs DEF WallInv, ProtectedFiles
      <4>2. QED
        BY <2>1, <2>4, <4>1 DEF WallInv, CanFreeze
    <3>3. Locked'
      <4>1. CommandShape(spec)' /\ ProtectedFiles(spec)' = ProtectedFiles(spec)
        BY <2>1, <2>4
      <4>2. QED
        BY <2>1, <3>1, <3>2, <4>1 DEF Locked
    <3>4. outcome = Open /\ Open # Proved
      BY <2>1 DEF WallInv, Open, Proved
    <3>5. QED
      BY <2>1, <2>4, <3>3, <3>4 DEF WallInv
  <2>5. QED
    BY <2>2, <2>3, <2>4
<1>3. QED
  BY <1>1, <1>2

\* The legs in between leave the lock alone.
LEMMA WallStays ==
  ASSUME WallInv, UNCHANGED <<spec, lock, outcome>>,
         pc \notin {"reproduce", "done"}, pc' \notin {"reproduce", "done"}
  PROVE  WallInv'
<1>1. outcome = Open /\ Open # Proved /\ Locked
  BY DEF WallInv, Open, Proved
<1>2. Locked'
  BY <1>1 DEF Locked, CommandShape, ProtectedFiles, ArvoCompat
<1>3. QED
  BY <1>1, <1>2 DEF WallInv

LEMMA WallLegs ==
  ASSUME WallInv,
         \/ TargetFrozen \/ Patch \/ LoopRun \/ LoopRollback
         \/ VoidBeforeRun \/ WallHolds \/ VerifyRun \/ Rollback
         \/ Touch \/ Restore
  PROVE  WallInv'
<1>1. CASE TargetFrozen \/ VoidBeforeRun
  BY <1>1, Unproved DEF TargetFrozen, VoidBeforeRun, End
<1>2. CASE \/ Patch \/ LoopRun \/ LoopRollback \/ WallHolds \/ VerifyRun
           \/ Rollback
  <2>1. /\ pc \notin {"reproduce", "done"} /\ pc' \notin {"reproduce", "done"}
        /\ UNCHANGED <<spec, lock, outcome>>
    BY <1>2 DEF Patch, LoopRun, LoopRollback, WallHolds, VerifyRun, Rollback
  <2>2. QED
    BY <2>1, WallStays
<1>3. CASE Touch \/ Restore
  <2>1. /\ pc \notin {"reproduce", "done"} /\ pc' = pc
        /\ UNCHANGED <<spec, lock, outcome>>
    BY <1>3 DEF Touch, Restore, Runs
  <2>2. QED
    BY <2>1, WallStays
<1>4. QED
  BY <1>1, <1>2, <1>3

LEMMA WallConclude == ASSUME WallInv, Conclude PROVE WallInv'
<1>1. /\ pc = "verdict" /\ UNCHANGED <<spec, lock, content>>
      /\ \/ \E is : End("verify", is)
         \/ /\ Violations(lock.files, content) = {}
            /\ \E is : End("rollback", is)
  BY DEF Conclude
<1>2. ASSUME NEW is, End("verify", is) PROVE WallInv'
  BY <1>1, <1>2, Unproved DEF End
<1>3. CASE /\ Violations(lock.files, content) = {}
           /\ \E is : End("rollback", is)
  <2>1. Locked' /\ Violations(lock.files, content)' = {}
    BY <1>1, <1>3
       DEF WallInv, Locked, CommandShape, ProtectedFiles, ArvoCompat, Violations
  <2>2. pc' = "done"
    BY <1>3 DEF End
  <2>3. QED
    BY <1>1, <2>1, <2>2 DEF WallInv
<1>4. QED
  BY <1>1, <1>2, <1>3

LEMMA WallSteps == ASSUME WallInv, [Next]_vars PROVE WallInv'
<1>1. CASE UNCHANGED vars
  <2>1. UNCHANGED <<spec, pc, content, lock, outcome>>
    BY <1>1 DEF vars
  <2>2. QED
    BY <2>1 DEF WallInv, Locked, CommandShape, ProtectedFiles, ArvoCompat,
                Violations
<1>2. QED
  BY <1>1, WallReproduce, WallLegs, WallConclude DEF Next

\* A command that is not exempt runs a frozen file, or one of its name.
LEMMA NamesFrozen ==
  ASSUME spec \in Stored, CommandShape(spec), ~ArvoCompat(spec)
  PROVE  \E f \in ProtectedFiles(spec) : Base[f] = Base[spec.runs]
<1>. DEFINE last == spec.command[Len(spec.command)]
<1>1. spec.command # <<>> /\ ReferencesFrozen(last, spec.reproducer)
  BY DEF CommandShape
<1>2. PICK i \in DOMAIN last :
        last[i].t = "path" /\ \E f \in spec.reproducer : last[i].base = Base[f]
  BY <1>1 DEF ReferencesFrozen
<1>3. last[i].base = Base[spec.runs]
  BY <1>1, <1>2, StoredSpecs DEF RunsWhatItNames
<1>4. QED
  BY <1>2, <1>3 DEF ProtectedFiles

(***************************************************************************)
(* The two comparisons see what lies between them: a deciding run of        *)
(* anything but the frozen script leaves a script that is not the frozen    *)
(* one, until something puts it back.                                       *)
(***************************************************************************)
RanFrozen(L) ==
  ~restored /\ content[spec.runs] = "frozen" => \A l \in L : ran[l] = "frozen"

Deciding == {"verify", "rollback"}

SwapInv ==
  /\ DOMAIN ran = Legs /\ DOMAIN content = Files /\ spec.runs \in Files
  /\ pc = "rollback" => RanFrozen({"verify"})
  /\ pc = "verdict" /\ seen["verify"] = "green" => RanFrozen(Deciding)
  /\ outcome = Proved => RanFrozen(Deciding)

LEMMA SwapInit == Init => SwapInv
<1>. SUFFICES ASSUME Init PROVE SwapInv
  OBVIOUS
<1>1. /\ spec \in Stored /\ pc = "reproduce" /\ outcome = Open
      /\ ran = [l \in Legs |-> "none"] /\ DOMAIN content = Files
  BY DEF Init
<1>2. Open # Proved
  BY DEF Open, Proved
<1>3. QED
  BY <1>1, <1>2, StoredSpecs DEF SwapInv

\* Where no script is run and none is put back.
LEMMA SwapStays ==
  ASSUME SwapInv, UNCHANGED <<spec, ran, restored>>, DOMAIN content' = Files,
         content'[spec.runs] = "frozen" => content[spec.runs] = "frozen",
         \/ UNCHANGED <<pc, seen, outcome>>
         \/ pc' \notin {"rollback", "verdict"} /\ outcome' # Proved
  PROVE  SwapInv'
BY DEF SwapInv, RanFrozen

LEMMA SwapWrites == ASSUME SwapInv, Touch \/ Restore PROVE SwapInv'
<1>1. CASE Touch
  <2>1. PICK f : /\ content[f] = "frozen"
                 /\ content' = [content EXCEPT ![f] = "touched"]
    BY <1>1 DEF Touch
  <2>2. /\ DOMAIN content' = Files
        /\ content'[spec.runs] = "frozen" => content[spec.runs] = "frozen"
    BY <2>1 DEF SwapInv
  <2>3. UNCHANGED <<spec, ran, restored, pc, seen, outcome>>
    BY <1>1 DEF Touch
  <2>4. QED
    BY <2>2, <2>3, SwapStays
<1>2. CASE Restore
  <2>1. PICK f : /\ content' = [content EXCEPT ![f] = "frozen"]
                 /\ restored' = (restored \/ f = spec.runs)
    BY <1>2 DEF Restore
  <2>2. UNCHANGED <<spec, ran, pc, seen, outcome>>
    BY <1>2 DEF Restore
  <2>3. CASE f = spec.runs
    <3>1. restored'
      BY <2>1, <2>3
    <3>2. QED
      BY <2>1, <2>2, <3>1 DEF SwapInv, RanFrozen
  <2>4. CASE f # spec.runs
    <3>1. /\ content'[spec.runs] = content[spec.runs] /\ DOMAIN content' = Files
          /\ restored' => restored
      BY <2>1, <2>4 DEF SwapInv
    <3>2. restored => restored'
      BY <2>1
    <3>3. QED
      BY <2>2, <3>1, <3>2 DEF SwapInv, RanFrozen
  <2>5. QED
    BY <2>3, <2>4
<1>3. QED
  BY <1>1, <1>2

LEMMA SwapLegs ==
  ASSUME WallInv, SwapInv, VerifyRun \/ Rollback PROVE SwapInv'
<1>1. outcome' # Proved
  <2>1. pc # "done" /\ outcome' = outcome
    BY DEF VerifyRun, Rollback
  <2>2. QED
    BY <2>1 DEF WallInv, Open, Proved
<1>2. CASE VerifyRun
  <2>1. /\ UNCHANGED <<spec, content, restored>>
        /\ ran' = [ran EXCEPT !["verify"] = content[spec.runs]]
        /\ pc' = IF seen'["verify"] = "green" THEN "rollback" ELSE "verdict"
    BY <1>2 DEF VerifyRun, Run
  <2>2. ran'["verify"] = content[spec.runs] /\ DOMAIN ran' = Legs
    BY <2>1 DEF SwapInv, Legs
  <2>3. QED
    BY <1>1, <2>1, <2>2 DEF SwapInv, RanFrozen
<1>3. CASE Rollback
  <2>1. /\ UNCHANGED <<spec, content, restored>>
        /\ ran' = [ran EXCEPT !["rollback"] = content[spec.runs]]
        /\ pc = "rollback" /\ pc' = "verdict"
    BY <1>3 DEF Rollback, Run
  <2>2. /\ ran'["rollback"] = content[spec.runs] /\ DOMAIN ran' = Legs
        /\ ran'["verify"] = ran["verify"]
    BY <2>1 DEF SwapInv, Legs
  <2>3. QED
    BY <1>1, <2>1, <2>2 DEF SwapInv, RanFrozen, Deciding
<1>4. QED
  BY <1>2, <1>3

LEMMA SwapConclude == ASSUME SwapInv, Conclude PROVE SwapInv'
<1>1. /\ pc = "verdict" /\ pc' = "done"
      /\ UNCHANGED <<spec, content, ran, restored, seen>>
      /\ seen["verify"] = "green" \/ outcome'.at = "verify"
  BY DEF Conclude, End
<1>2. outcome' = Proved => seen["verify"] = "green"
  BY <1>1 DEF Proved
<1>3. QED
  BY <1>1, <1>2 DEF SwapInv, RanFrozen

LEMMA SwapSteps == ASSUME WallInv, SwapInv, [Next]_vars PROVE SwapInv'
<1>1. CASE Reproduce \/ Patch \/ LoopRun \/ LoopRollback
  <2>1. PICK g \in [Legs -> {"none", content[spec.runs]} \cup {ran[l] : l \in Legs}] :
          ran' = g
    BY <1>1 DEF Reproduce, Patch, LoopRun, LoopRollback, Run, SwapInv
  <2>2. /\ UNCHANGED <<spec, content>> /\ pc # "done"
        /\ pc' \notin {"rollback", "verdict"}
        /\ outcome' = outcome \/ outcome'.at = "reproduce"
    BY <1>1 DEF Reproduce, Patch, LoopRun, LoopRollback, End
  <2>3. outcome' # Proved
    BY <2>2 DEF WallInv, Open, Proved
  <2>4. QED
    BY <2>1, <2>2, <2>3 DEF SwapInv
<1>2. CASE ReproduceRaises \/ TargetFrozen \/ VoidBeforeRun
  <2>1. /\ UNCHANGED <<spec, content, ran, restored>> /\ pc' = "done"
        /\ outcome'.at # "rollback"
    BY <1>2 DEF ReproduceRaises, TargetFrozen, VoidBeforeRun, End
  <2>2. outcome' # Proved
    BY <2>1 DEF Proved
  <2>3. QED
    BY <2>1, <2>2 DEF SwapInv
<1>3. CASE WallHolds
  <2>1. /\ UNCHANGED <<spec, content, ran, outcome>>
        /\ pc = "verify" /\ pc' = "verify_run"
    BY <1>3 DEF WallHolds
  <2>2. outcome' # Proved
    BY <2>1 DEF WallInv, Open, Proved
  <2>3. QED
    BY <2>1, <2>2 DEF SwapInv
<1>4. CASE VerifyRun \/ Rollback
  BY <1>4, SwapLegs
<1>5. CASE Conclude
  BY <1>5, SwapConclude
<1>6. CASE Touch \/ Restore
  BY <1>6, SwapWrites
<1>7. CASE UNCHANGED vars
  <2>1. UNCHANGED <<spec, content, ran, restored, pc, seen, outcome>>
    BY <1>7 DEF vars
  <2>2. QED
    BY <2>1, SwapStays DEF SwapInv
<1>8. QED
  BY <1>1, <1>2, <1>3, <1>4, <1>5, <1>6, <1>7 DEF Next

\* The runs that decide a proved chain are runs of the script it was frozen
\* with, unless something put it back between the comparisons: the shape
\* check and the freeze before the patch and the comparisons on both sides of
\* the runs leave no other way (stages.py:1751-1754, 3705, 4056-4071).
THEOREM VerdictsAreWalled == Spec => []VerdictIsWalled
<1>1. WallInv /\ SwapInv => VerdictIsWalled
  <2>. SUFFICES ASSUME WallInv, SwapInv, outcome = Proved, ~restored,
                       \/ spec.runs \in DOMAIN lock.files
                       \/ /\ ~ArvoCompat(spec)
                          /\ \A f \in DOMAIN lock.files : Base[f] # Base[spec.runs]
                PROVE  ran["verify"] = "frozen" /\ ran["rollback"] = "frozen"
    BY DEF VerdictIsWalled
  <2>1. Locked /\ Violations(lock.files, content) = {} /\ spec \in Stored
    BY DEF WallInv
  <2>2. spec.runs \in DOMAIN lock.files
    BY <2>1, NamesFrozen DEF Locked
  <2>3. content[spec.runs] = lock.files[spec.runs]
    BY <2>1, <2>2 DEF Violations
  <2>4. content[spec.runs] = "frozen"
    BY <2>1, <2>2, <2>3 DEF Locked
  <2>5. QED
    BY <2>4 DEF SwapInv, RanFrozen, Deciding
<1>2. QED
  BY <1>1, WallInit, WallSteps, SwapInit, SwapSteps, PTL DEF Spec

-----------------------------------------------------------------------------
(* What every leg was read as: the run of the leg under the lock that was  *)
(* there; the rollback legs run the original text again.                   *)

Back == {"loop_rollback", "rollback"}

Read(l) == Seen(l, out[l])

LockAt(l) == IF l = "reproduce" THEN NoLock ELSE lock

\* What the lock was made of.
FirstRed ==
  LET first == out["reproduce"]
      r == ClassifyRepro(spec, NoLock, first, Tail8000(first.lines))
  IN  /\ first \in Outputs[spec.kind]
      /\ ~first.late /\ r.state = "red"
      /\ lock.token = r.id
      /\ lock.config = IF spec.kind = "http" THEN VerdictConfig(spec, r.status)
                                             ELSE NoConfig

\* A script that is there now was there, and the frozen one, at reproduce.
FirstFrozen ==
  content[spec.runs] \in {"frozen", "touched"} => ran["reproduce"] = "frozen"

LegsInv ==
  /\ spec \in Stored
  /\ out \in [Legs -> Outputs[spec.kind] \cup {NoRun}]
  /\ DOMAIN seen = Legs /\ seen = [l \in Legs |-> seen[l]]
  /\ pc = "reproduce" => /\ lock = NoLock
                         /\ \A l \in Legs : /\ out[l] = NoRun /\ seen[l] = "none"
                                          /\ ran[l] = "none"
  /\ pc \notin {"reproduce", "done"} \/ lock # NoLock => FirstRed
  /\ DOMAIN ran = Legs /\ DOMAIN content = Files
  /\ pc \notin {"reproduce", "done"} => FirstFrozen
  /\ \A l \in Back : ran[l] = "frozen" => out[l] = out["reproduce"]
  /\ \A l \in Legs :
       \/ seen[l] = "none" /\ ran[l] = "none"
       \/ /\ out[l] # NoRun
          /\ seen[l] = ClassifyRepro(spec, LockAt(l), out[l], Read(l)).state

\* Without a lock nothing is compared.
LEMMA NoLockYet == PristineToken(NoLock) = NoToken
BY DEF PristineToken, NoLock

\* The same run is read as red again: the identity of the lock is its own.
LEMMA ReadAgain ==
  ASSUME FirstRed, lock # NoLock, Identified, spec.kind \in {"sanitizer", "http"}
  PROVE  ClassifyRepro(spec, lock, out["reproduce"],
                       Tail8000(out["reproduce"].lines)).state = "red"
<1>. DEFINE first == out["reproduce"]
            lines == Tail8000(first.lines)
<1>1. CASE spec.kind = "sanitizer"
  <2>1. DedupToken(lines) # NoToken
    BY <1>1 DEF Identified, Seen, LoopLegs
  <2>2. ~first.late /\ ClassifySanitizer(first, lines, NoToken) = "red"
    BY <1>1, NoLockYet DEF FirstRed, ClassifyRepro, ReadSanitizer
  <2>3. Marker(lines)
    BY <2>2 DEF ClassifySanitizer
  <2>4. lock.token = DedupToken(lines)
    BY <1>1, <2>1 DEF FirstRed, ClassifyRepro, ReadSanitizer
  <2>5. ClassifySanitizer(first, lines, lock.token) = "red"
    BY <2>1, <2>2, <2>3, <2>4 DEF ClassifySanitizer
  <2>6. QED
    BY <1>1, <2>5 DEF ClassifyRepro, ReadSanitizer, PristineToken
<1>2. CASE spec.kind = "http"
  <2>. DEFINE ev == ParseHttp(lines)
              config == VerdictConfig(spec, ev.status)
  <2>1. /\ ReadHttp(spec, NoLock, lines).state = "red"
        /\ ReadHttp(spec, NoLock, lines).id = HttpId(ev.status, spec.rules)
        /\ ReadHttp(spec, NoLock, lines).status = ev.status
        /\ ReadHttp(spec, NoLock, lines).state
             \in {ClassifyHttp(ev, NoConfig, spec.rules), "harness"}
    BY <1>2, NoLockYet DEF FirstRed, ClassifyRepro, ReadHttp
  <2>2. ClassifyHttp(ev, NoConfig, spec.rules) = "red"
    BY <2>1
  <2>3. ev.status # "0" /\ Hit(ev, spec.rules)
    <3>. HIDE DEF ev
    <3>1. QED
      BY <2>2 DEF ClassifyHttp
  <2>4. lock.token = HttpId(ev.status, spec.rules) /\ lock.config = config
    BY <1>2, <2>1 DEF FirstRed, ClassifyRepro
  <2>5. lock.token # NoToken
    <3>1. DOMAIN HttpId(ev.status, spec.rules) = {"status", "rules"}
      BY DEF HttpId
    <3>2. DOMAIN NoToken = {"by", "id"}
      BY DEF NoToken
    <3>3. QED
      BY <2>4, <3>1, <3>2
  <2>6. config # NoConfig
    <3>1. DOMAIN config = {"status", "rules", "id", "green", "negative"}
      BY DEF VerdictConfig
    <3>2. DOMAIN NoConfig = {"id"}
      BY DEF NoConfig
    <3>3. QED
      BY <3>1, <3>2
  <2>7. /\ config.rules = spec.rules
        /\ config.id = HttpId(ev.status, spec.rules)
    BY DEF VerdictConfig
  <2>8. ClassifyHttp(ev, config, spec.rules) = "red"
    <3>. HIDE DEF ev, config
    <3>1. QED
      BY <2>3, <2>6, <2>7 DEF ClassifyHttp
  <2>9. ReadHttp(spec, lock, lines).state = "red"
    <3>. HIDE DEF config
    <3>1. PristineToken(lock) = lock.token
      BY DEF PristineToken
    <3>2. QED
      BY <2>4, <2>5, <2>6, <2>7, <2>8, <3>1 DEF ReadHttp
  <2>10. QED
    BY <1>2, <2>9 DEF ClassifyRepro
<1>3. QED
  BY <1>1, <1>2

LEMMA WholeTail ==
  ASSUME NEW T, NEW lines \in Seq(T), Len(lines) <= Window
  PROVE  Tail8000(lines) = lines
<1>1. ~(Len(lines) > Window)
  BY VerdictAssumption, LenProperties
<1>2. Tail8000(lines) = SubSeq(lines, 1, Len(lines))
  BY <1>1 DEF Tail8000
<1>3. QED
  BY <1>2, SubSeqFull

LEMMA LegsInit == Init => LegsInv
<1>. SUFFICES ASSUME Init PROVE LegsInv
  OBVIOUS
<1>1. /\ spec \in Stored /\ pc = "reproduce" /\ lock = NoLock
      /\ out = [l \in Legs |-> NoRun] /\ seen = [l \in Legs |-> "none"]
      /\ ran = [l \in Legs |-> "none"] /\ DOMAIN content = Files
  BY DEF Init
<1>2. Back \subseteq Legs
  BY DEF Back, Legs
<1>3. QED
  BY <1>1, <1>2 DEF LegsInv

\* Where neither the lock nor the legs change.
LEMMA LegsStays ==
  ASSUME LegsInv, UNCHANGED <<spec, lock, out, seen, ran>>,
         DOMAIN content' = Files, FirstFrozen => FirstFrozen',
         pc # "done", pc' # "reproduce", pc = "reproduce" => pc' = "done"
  PROVE  LegsInv'
<1>1. FirstRed => FirstRed'
  BY DEF FirstRed
<1>2. \A l \in Legs : Read(l)' = Read(l) /\ LockAt(l)' = LockAt(l)
  BY DEF Read, LockAt
<1>3. QED
  BY <1>1, <1>2 DEF LegsInv

LEMMA LegsReproduce ==
  ASSUME WallInv, LegsInv, Reproduce PROVE LegsInv'
<1>1. /\ pc = "reproduce" /\ UNCHANGED <<spec, content>>
      /\ lock = NoLock /\ Back \subseteq Legs \ {"reproduce"}
      /\ \A l \in Legs : out[l] = NoRun /\ seen[l] = "none" /\ ran[l] = "none"
  BY DEF Reproduce, LegsInv, Back, Legs
<1>2. PICK run \in Outputs[spec.kind] :
        /\ Run("reproduce", run)
        /\ LET r == ReadingOf("reproduce", run)
               red == ~run.late /\ r.state = "red"
               end(is) == End("reproduce", is) /\ UNCHANGED lock
           IN  \/ run.late /\ end("timeout")
               \/ ~run.late /\ r.state # "red" /\ end(r.state)
               \/ red /\ ~CommandShape(spec) /\ end("command_shape_invalid")
               \/ /\ red /\ CommandShape(spec) /\ ~CanFreeze(spec, content)
                  /\ end("wall_not_established")
               \/ /\ red /\ CommandShape(spec) /\ CanFreeze(spec, content)
                  /\ pc' = "patch" /\ lock' = MakeLock(r) /\ UNCHANGED outcome
  BY DEF Reproduce
<1>. DEFINE r == ReadingOf("reproduce", run)
<1>3. \/ pc' = "done" /\ lock' = NoLock
      \/ /\ ~run.late /\ r.state = "red"
         /\ pc' = "patch" /\ lock' = MakeLock(r)
  BY <1>1, <1>2 DEF End
<1>4. /\ out' = [out EXCEPT !["reproduce"] = run]
      /\ seen' = [seen EXCEPT !["reproduce"] = r.state]
      /\ ran' = [ran EXCEPT !["reproduce"] = content[spec.runs]]
  BY <1>2 DEF Run
<1>5. /\ out' \in [Legs -> Outputs[spec.kind] \cup {NoRun}]
      /\ out'["reproduce"] = run
      /\ \A l \in Back : out'[l] = NoRun
      /\ \A l \in Legs \ {"reproduce"} : seen'[l] = "none"
      /\ seen'["reproduce"] = r.state
      /\ DOMAIN seen' = Legs /\ seen' = [l \in Legs |-> seen'[l]]
      /\ DOMAIN ran' = Legs /\ ran'["reproduce"] = content[spec.runs]
      /\ \A l \in Legs \ {"reproduce"} : ran'[l] = "none"
      /\ DOMAIN content' = Files
  <2>1. "reproduce" \in Legs
    BY DEF Legs
  <2>. HIDE DEF r
  <2>2. QED
    BY <1>1, <1>4, <2>1 DEF LegsInv
<1>. DEFINE Ran == /\ FirstFrozen'
                   /\ \A l \in Back : ran'[l] = "frozen"
                                       => out'[l] = out'["reproduce"]
<1>11. Ran
  <2>1. content \in [Files -> {"frozen", "missing"}] /\ spec.runs \in Files
    BY <1>1, StoredSpecs DEF WallInv
  <2>2. QED
    BY <1>1, <1>5, <2>1 DEF FirstFrozen
<1>6. r = ClassifyRepro(spec, NoLock, run, Tail8000(run.lines))
  BY <1>1 DEF ReadingOf, Seen, LoopLegs
<1>7. ASSUME NEW l \in Legs
      PROVE  \/ seen'[l] = "none" /\ ran'[l] = "none"
             \/ /\ out'[l] # NoRun
                /\ seen'[l] = ClassifyRepro(spec', LockAt(l)', out'[l], Read(l)').state
  <2>1. CASE l = "reproduce"
    <3>1. LockAt(l)' = NoLock /\ Read(l)' = Tail8000(run.lines) /\ run # NoRun
      BY <1>5, <2>1, RunsAreRuns DEF LockAt, Read, Seen, LoopLegs, LegsInv
    <3>. HIDE DEF r
    <3>2. QED
      BY <1>1, <1>5, <1>6, <2>1, <3>1
  <2>2. CASE l # "reproduce"
    BY <1>5, <2>2
  <2>3. QED
    BY <2>1, <2>2
<1>8. CASE pc' = "done" /\ lock' = NoLock
  BY <1>1, <1>5, <1>7, <1>8, <1>11 DEF LegsInv
<1>9. CASE /\ ~run.late /\ r.state = "red"
           /\ pc' = "patch" /\ lock' = MakeLock(r)
  <2>1. /\ lock'.token = r.id
        /\ lock'.config = IF spec.kind = "http" THEN VerdictConfig(spec, r.status)
                                                ELSE NoConfig
    BY <1>9 DEF MakeLock
  <2>. HIDE DEF r
  <2>2. FirstRed'
    BY <1>1, <1>5, <1>6, <1>9, <2>1 DEF FirstRed
  <2>3. QED
    BY <1>1, <1>5, <1>7, <1>9, <1>11, <2>2 DEF LegsInv
<1>10. QED
  BY <1>3, <1>8, <1>9

\* The frozen reproducer on the original text can only run as it did.
LEMMA SameRun ==
  ASSUME LegsInv, FirstRed, FirstFrozen, content[spec.runs] = "frozen",
         NEW l \in Back, NEW run \in MayRun(l)
  PROVE  run = out["reproduce"]
<1>. DEFINE same == {out[k] : k \in {m \in Legs : /\ Patched(m) = Patched(l)
                                                /\ ran[m] = "frozen"}}
<1>1. Patched(l) = FALSE /\ Patched("reproduce") = FALSE /\ "reproduce" \in Legs
  BY DEF Patched, Back, Legs
<1>2. ran["reproduce"] = "frozen"
  BY DEF FirstFrozen
<1>3. out["reproduce"] \in same
  BY <1>1, <1>2
<1>4. \A k \in Legs : Patched(k) = FALSE => k = "reproduce" \/ k \in Back
  BY DEF Patched, Legs, Back
<1>5. \A x \in same : x = out["reproduce"]
  BY <1>1, <1>4 DEF LegsInv
<1>6. run \in same
  BY <1>3 DEF MayRun
<1>7. QED
  BY <1>5, <1>6

LEMMA LegsRuns ==
  ASSUME LegsInv, NEW l \in Legs \ {"reproduce"},
         NEW run \in Outputs[spec.kind], Run(l, run),
         pc \notin {"reproduce", "done"}, pc' # "reproduce",
         UNCHANGED <<spec, lock, content>>
  PROVE  LegsInv'
<1>1. /\ out' = [out EXCEPT ![l] = run] /\ run \in MayRun(l)
      /\ ran' = [ran EXCEPT ![l] = content[spec.runs]]
      /\ seen' = [seen EXCEPT ![l] = ReadingOf(l, run).state]
  BY DEF Run
<1>2. /\ out' \in [Legs -> Outputs[spec.kind] \cup {NoRun}]
      /\ DOMAIN seen' = Legs /\ seen' = [k \in Legs |-> seen'[k]]
      /\ out'[l] = run /\ seen'[l] = ReadingOf(l, run).state
      /\ DOMAIN ran' = Legs /\ ran'[l] = content[spec.runs]
      /\ \A k \in Legs \ {l} : /\ out'[k] = out[k] /\ seen'[k] = seen[k]
                              /\ ran'[k] = ran[k]
      /\ out'["reproduce"] = out["reproduce"]
      /\ ran'["reproduce"] = ran["reproduce"]
  <2>1. "reproduce" \in Legs
    BY DEF Legs
  <2>2. QED
    BY <1>1, <2>1 DEF LegsInv
<1>3. FirstRed /\ FirstRed'
  BY <1>2 DEF LegsInv, FirstRed
<1>4. Back \subseteq Legs /\ run # NoRun
  BY RunsAreRuns DEF Back, Legs, LegsInv
<1>5. FirstFrozen /\ FirstFrozen'
  BY <1>2 DEF LegsInv, FirstFrozen
<1>6. ASSUME NEW k \in Back, ran'[k] = "frozen"
      PROVE  out'[k] = out'["reproduce"]
  <2>1. CASE k = l
    <3>1. run = out["reproduce"]
      BY <1>1, <1>2, <1>3, <1>5, <1>6, <2>1, SameRun
    <3>2. QED
      BY <1>2, <2>1, <3>1
  <2>2. CASE k # l
    BY <1>2, <1>4, <1>6, <2>2 DEF LegsInv
  <2>3. QED
    BY <2>1, <2>2
<1>7. ASSUME NEW k \in Legs
      PROVE  \/ seen'[k] = "none" /\ ran'[k] = "none"
             \/ /\ out'[k] # NoRun
                /\ seen'[k] = ClassifyRepro(spec', LockAt(k)', out'[k], Read(k)').state
  <2>1. CASE k = l
    <3>1. ReadingOf(l, run) = ClassifyRepro(spec, lock, run, Seen(l, run))
      BY DEF ReadingOf
    <3>2. Seen(l, run) = Read(k)' /\ LockAt(k)' = lock
      BY <1>2, <2>1 DEF Read, LockAt, Seen
    <3>3. QED
      BY <1>2, <1>4, <2>1, <3>1, <3>2
  <2>2. CASE k # l
    <3>1. Read(k)' = Read(k) /\ LockAt(k)' = LockAt(k) /\ k \in Legs \ {l}
      BY <1>2, <2>2 DEF Read, LockAt, Seen
    <3>2. QED
      BY <1>2, <3>1 DEF LegsInv
  <2>3. QED
    BY <2>1, <2>2
<1>8. DOMAIN content' = Files
  BY DEF LegsInv
<1>9. QED
  BY <1>2, <1>3, <1>5, <1>6, <1>7, <1>8 DEF LegsInv

LEMMA LegsPatch == ASSUME LegsInv, Patch PROVE LegsInv'
<1>1. /\ pc = "patch" /\ pc' \in {"loop", "verify"}
      /\ out' = [out EXCEPT !["loop"] = NoRun, !["loop_rollback"] = NoRun]
      /\ seen' = [seen EXCEPT !["loop"] = "none", !["loop_rollback"] = "none"]
      /\ ran' = [ran EXCEPT !["loop"] = "none", !["loop_rollback"] = "none"]
      /\ UNCHANGED <<spec, content, lock>>
  BY DEF Patch
<1>2. {"reproduce", "loop", "loop_rollback", "rollback"} \subseteq Legs
  BY DEF Legs
<1>3. /\ out' \in [Legs -> Outputs[spec.kind] \cup {NoRun}]
      /\ DOMAIN seen' = Legs /\ seen' = [k \in Legs |-> seen'[k]]
      /\ out'["reproduce"] = out["reproduce"]
      /\ out'["rollback"] = out["rollback"]
      /\ seen'["rollback"] = seen["rollback"]
      /\ out'["loop_rollback"] = NoRun /\ seen'["loop_rollback"] = "none"
      /\ DOMAIN ran' = Legs /\ ran'["loop_rollback"] = "none"
      /\ ran'["rollback"] = ran["rollback"]
      /\ ran'["reproduce"] = ran["reproduce"]
  BY <1>1, <1>2 DEF LegsInv
<1>4. FirstRed'
  BY <1>1, <1>3 DEF LegsInv, FirstRed
<1>5. FirstFrozen' /\ DOMAIN content' = Files
  BY <1>1, <1>3 DEF LegsInv, FirstFrozen
<1>6. ASSUME NEW k \in Back, ran'[k] = "frozen"
      PROVE  out'[k] = out'["reproduce"]
  BY <1>3, <1>6 DEF LegsInv, Back
<1>7. ASSUME NEW k \in Legs
      PROVE  \/ seen'[k] = "none" /\ ran'[k] = "none"
             \/ /\ out'[k] # NoRun
                /\ seen'[k] = ClassifyRepro(spec', LockAt(k)', out'[k], Read(k)').state
  <2>1. CASE k \in {"loop", "loop_rollback"}
    BY <1>1, <1>2, <2>1 DEF LegsInv
  <2>2. CASE k \notin {"loop", "loop_rollback"}
    <3>1. out'[k] = out[k] /\ seen'[k] = seen[k] /\ ran'[k] = ran[k]
      BY <1>1, <2>2 DEF LegsInv
    <3>2. Read(k)' = Read(k) /\ LockAt(k)' = LockAt(k)
      BY <1>1, <3>1 DEF Read, LockAt, Seen
    <3>3. QED
      BY <1>1, <3>1, <3>2 DEF LegsInv
  <2>3. QED
    BY <2>1, <2>2
<1>8. QED
  BY <1>1, <1>3, <1>4, <1>5, <1>6, <1>7 DEF LegsInv

LEMMA LegsStill ==
  ASSUME LegsInv, UNCHANGED <<spec, pc, content, lock, out, seen, ran>>
  PROVE  LegsInv'
<1>1. FirstRed' = FirstRed /\ FirstFrozen' = FirstFrozen
  BY DEF FirstRed, FirstFrozen
<1>2. \A l \in Legs : Read(l)' = Read(l) /\ LockAt(l)' = LockAt(l)
  BY DEF Read, LockAt
<1>3. QED
  BY <1>1, <1>2 DEF LegsInv

LEMMA LegsWrites == ASSUME LegsInv, Touch \/ Restore PROVE LegsInv'
<1>1. /\ pc \notin {"reproduce", "done"}
      /\ UNCHANGED <<spec, pc, lock, out, seen, ran>>
      /\ \E f, c : /\ content[f] \in {"frozen", "touched"}
                  /\ content' = [content EXCEPT ![f] = c]
  BY DEF Touch, Restore, Runs
<1>2. PICK f, c : /\ content[f] \in {"frozen", "touched"}
                  /\ content' = [content EXCEPT ![f] = c]
  BY <1>1
<1>3. DOMAIN content' = Files /\ spec.runs \in Files
  BY <1>2, StoredSpecs DEF LegsInv
<1>4. f # spec.runs => content'[spec.runs] = content[spec.runs]
  BY <1>2, <1>3 DEF LegsInv
<1>5. FirstFrozen => FirstFrozen'
  BY <1>1, <1>2, <1>4 DEF FirstFrozen
<1>6. QED
  BY <1>1, <1>3, <1>5, LegsStays

LEMMA LegsSteps == ASSUME WallInv, LegsInv, [Next]_vars PROVE LegsInv'
<1>1. CASE Reproduce
  BY <1>1, LegsReproduce
<1>2. CASE Patch
  BY <1>2, LegsPatch
<1>3. CASE LoopRun \/ LoopRollback \/ VerifyRun \/ Rollback
  <2>1. PICK l \in Legs \ {"reproduce"}, run \in Outputs[spec.kind] : Run(l, run)
    BY <1>3 DEF LoopRun, LoopRollback, VerifyRun, Rollback, Legs
  <2>2. /\ pc \notin {"reproduce", "done"} /\ pc' # "reproduce"
        /\ UNCHANGED <<spec, lock, content>>
    BY <1>3 DEF LoopRun, LoopRollback, VerifyRun, Rollback
  <2>3. QED
    BY <2>1, <2>2, LegsRuns
<1>4. CASE \/ ReproduceRaises \/ TargetFrozen \/ VoidBeforeRun \/ WallHolds
           \/ Conclude
  <2>1. /\ pc # "done" /\ pc' # "reproduce"
        /\ pc # "reproduce" \/ pc' = "done"
        /\ UNCHANGED <<spec, lock, out, seen, content, ran>>
    BY <1>4 DEF ReproduceRaises, TargetFrozen, VoidBeforeRun, WallHolds,
                Conclude, End
  <2>2. DOMAIN content' = Files /\ (FirstFrozen => FirstFrozen')
    BY <2>1 DEF LegsInv, FirstFrozen
  <2>3. QED
    BY <2>1, <2>2, LegsStays
<1>5. CASE Touch \/ Restore
  BY <1>5, LegsWrites
<1>6. CASE UNCHANGED vars
  <2>1. UNCHANGED <<spec, pc, content, lock, out, seen, ran>>
    BY <1>6 DEF vars
  <2>2. QED
    BY <2>1, LegsStill
<1>7. QED
  BY <1>1, <1>2, <1>3, <1>4, <1>5, <1>6 DEF Next

\* Reverting the patch brings the bug back: whatever the reproducer printed
\* first, a run of the frozen script on the original text is read as red
\* again in verify and, where the first output fits in the tail, in the loop
\* (stages.py:2335-2371, 4028-4050).
THEOREM RollbackReadsRed == Spec => []RedAgain
<1>1. LegsInv => RedAgain
  <2>. SUFFICES ASSUME LegsInv, Identified PROVE
         /\ ran["rollback"] = "frozen" => seen["rollback"] = "red"
         /\ ran["loop_rollback"] = "frozen" /\ Fits(out["reproduce"])
              => seen["loop_rollback"] = "red"
    BY DEF RedAgain
  <2>1. FirstRed /\ lock # NoLock /\ spec \in Stored
    BY DEF LegsInv, Identified
  <2>2. ClassifyRepro(spec, lock, out["reproduce"],
                      Tail8000(out["reproduce"].lines)).state = "red"
    BY <2>1, ReadAgain, StoredSpecs
  <2>3. \A l \in Back : /\ l \in Legs /\ LockAt(l) = lock
                        /\ l = "rollback" => Read(l) = Tail8000(out[l].lines)
                        /\ l = "loop_rollback" => Read(l) = out[l].lines
    BY DEF Back, Legs, LockAt, Read, Seen, LoopLegs
  <2>4. ran["rollback"] = "frozen" => seen["rollback"] = "red"
    BY <2>2, <2>3 DEF LegsInv, Back
  <2>5. ASSUME ran["loop_rollback"] = "frozen", Fits(out["reproduce"])
        PROVE  seen["loop_rollback"] = "red"
    <3>1. Tail8000(out["reproduce"].lines) = out["reproduce"].lines
      BY <2>1, <2>5, RunsAreRuns, WholeTail DEF Fits, FirstRed
    <3>2. QED
      BY <2>2, <2>3, <2>5, <3>1 DEF LegsInv, Back
  <2>6. QED
    BY <2>4, <2>5
<1>2. QED
  BY <1>1, WallInit, WallSteps, LegsInit, LegsSteps, PTL DEF Spec
-----------------------------------------------------------------------------
(* Types                                                                   *)

\* Every reading is one of the four states.
LEMMA ReadingTyped ==
  ASSUME NEW s, NEW held, NEW run, NEW lines
  PROVE  ClassifyRepro(s, held, run, lines).state \in States
<1>1. ClassifySanitizer(run, lines, PristineToken(held)) \in States
  <2>. DEFINE t == DedupToken(lines)
  <2>1. t = DedupToken(lines)
    OBVIOUS
  <2>. HIDE DEF t
  <2>2. QED
    BY <2>1 DEF ClassifySanitizer, States
<1>2. ASSUME NEW ev, NEW config, NEW rules
      PROVE  ClassifyHttp(ev, config, rules) \in States
  BY DEF ClassifyHttp, States
<1>3. ReadHttp(s, held, lines).state \in States
  <2>. DEFINE config == IF PristineToken(held) = NoToken
                        THEN NoConfig ELSE held.config
              rules == IF config = NoConfig THEN s.rules ELSE config.rules
              read == ClassifyHttp(ParseHttp(lines), config, rules)
  <2>1. read \in States
    BY <1>2
  <2>2. ReadHttp(s, held, lines).state \in {read, "harness"}
    BY DEF ReadHttp
  <2>3. QED
    BY <2>1, <2>2 DEF States
<1>4. QED
  BY <1>1, <1>3 DEF ClassifyRepro, ReadSanitizer

\* A lock is never taken for the absence of one.
LEMMA LocksDiffer ==
  ASSUME NEW r
  PROVE  DOMAIN MakeLock(r) = {"token", "config", "files"} /\ MakeLock(r) # NoLock
<1>1. DOMAIN MakeLock(r) = {"token", "config", "files"}
  BY DEF MakeLock
<1>2. DOMAIN NoLock = {"token"}
  BY DEF NoLock
<1>3. QED
  BY <1>1, <1>2

TypeInv ==
  /\ TypeOK
  /\ pc # "done" => outcome = Open

LEMMA TypeInit == Init => TypeInv
<1>. SUFFICES ASSUME Init PROVE TypeInv
  OBVIOUS
<1>1. /\ spec \in Stored /\ source \in Sources /\ pc = "reproduce"
      /\ reply = <<>> /\ lock = NoLock /\ outcome = Open
      /\ out = [l \in Legs |-> NoRun] /\ seen = [l \in Legs |-> "none"]
      /\ ran = [l \in Legs |-> "none"] /\ restored = FALSE
  BY DEF Init
<1>2. content \in [Files -> Contents]
  BY DEF Init, Contents
<1>3. "reproduce" \in Steps /\ "none" \in States
  BY DEF Steps, Legs, States
<1>4. QED
  BY <1>1, <1>2, <1>3 DEF TypeInv, TypeOK

\* A leg's run and its reading have their types.
LEMMA RunTyped ==
  ASSUME TypeInv, NEW l \in Legs, NEW run \in Outputs[spec.kind], Run(l, run)
  PROVE  /\ out' \in [Legs -> Outputs[spec.kind] \cup {NoRun}]
         /\ seen' \in [Legs -> States]
         /\ ran' \in [Legs -> Contents \cup {"none"}]
<1>1. ReadingOf(l, run).state \in States
  BY ReadingTyped DEF ReadingOf
<1>2. content[spec.runs] \in Contents
  BY StoredSpecs DEF TypeInv, TypeOK
<1>3. QED
  BY <1>1, <1>2 DEF Run, TypeInv, TypeOK

\* A stage that ends the finding without a reading.
LEMMA EndTyped ==
  ASSUME TypeInv, pc # "done", NEW at, NEW is, End(at, is),
         (at = "reproduce") = (pc = "reproduce"),
         UNCHANGED <<spec, source, reply, content, lock, restored>>,
         ran' \in [Legs -> Contents \cup {"none"}],
         out' \in [Legs -> Outputs[spec.kind] \cup {NoRun}],
         seen' \in [Legs -> States]
  PROVE  TypeInv'
<1>1. pc' = "done" /\ outcome'.at = at
  BY DEF End
<1>2. (lock = NoLock) = (pc = "reproduce")
  BY DEF TypeInv, TypeOK, Open
<1>3. QED
  BY <1>1, <1>2 DEF TypeInv, TypeOK, Steps

LEMMA TypeReproduce == ASSUME TypeInv, Reproduce PROVE TypeInv'
<1>1. /\ pc = "reproduce"
      /\ UNCHANGED <<spec, source, reply, content, restored>>
      /\ "reproduce" \in Legs
  BY DEF Reproduce, Legs
<1>2. PICK run \in Outputs[spec.kind] :
        /\ Run("reproduce", run)
        /\ LET r == ReadingOf("reproduce", run)
               red == ~run.late /\ r.state = "red"
               end(is) == End("reproduce", is) /\ UNCHANGED lock
           IN  \/ run.late /\ end("timeout")
               \/ ~run.late /\ r.state # "red" /\ end(r.state)
               \/ red /\ ~CommandShape(spec) /\ end("command_shape_invalid")
               \/ /\ red /\ CommandShape(spec) /\ ~CanFreeze(spec, content)
                  /\ end("wall_not_established")
               \/ /\ red /\ CommandShape(spec) /\ CanFreeze(spec, content)
                  /\ pc' = "patch" /\ lock' = MakeLock(r) /\ UNCHANGED outcome
  BY DEF Reproduce
<1>3. /\ out' \in [Legs -> Outputs[spec.kind] \cup {NoRun}]
      /\ seen' \in [Legs -> States]
      /\ ran' \in [Legs -> Contents \cup {"none"}]
  BY <1>1, <1>2, RunTyped
<1>4. ASSUME NEW is, End("reproduce", is), UNCHANGED lock PROVE TypeInv'
  BY <1>1, <1>3, <1>4, EndTyped
<1>5. ASSUME NEW r, pc' = "patch", lock' = MakeLock(r), UNCHANGED outcome
      PROVE  TypeInv'
  <2>1. DOMAIN lock' = {"token", "config", "files"} /\ lock' # NoLock
    BY <1>5, LocksDiffer
  <2>2. outcome = Open /\ Open.at # "reproduce"
    BY <1>1 DEF TypeInv, Open
  <2>3. QED
    BY <1>1, <1>3, <1>5, <2>1, <2>2 DEF TypeInv, TypeOK, Steps
<1>6. QED
  BY <1>2, <1>4, <1>5

LEMMA TypeSteps == ASSUME TypeInv, [Next]_vars PROVE TypeInv'
<1>1. CASE Reproduce
  BY <1>1, TypeReproduce
<1>2. CASE ReproduceRaises \/ TargetFrozen \/ VoidBeforeRun \/ Conclude
  <2>1. /\ pc # "done"
        /\ \E at, is : End(at, is) /\ (at = "reproduce") = (pc = "reproduce")
        /\ UNCHANGED <<spec, source, reply, content, lock, out, seen, ran,
                       restored>>
    BY <1>2 DEF ReproduceRaises, TargetFrozen, VoidBeforeRun, Conclude
  <2>2. /\ out' \in [Legs -> Outputs[spec.kind] \cup {NoRun}]
        /\ seen' \in [Legs -> States]
        /\ ran' \in [Legs -> Contents \cup {"none"}]
    BY <2>1 DEF TypeInv, TypeOK
  <2>3. QED
    BY <2>1, <2>2, EndTyped
<1>3. CASE Patch
  <2>1. /\ pc = "patch" /\ pc' \in {"loop", "verify"} /\ reply' \in Replies
        /\ UNCHANGED <<spec, source, content, lock, outcome, restored>>
        /\ out' = [out EXCEPT !["loop"] = NoRun, !["loop_rollback"] = NoRun]
        /\ seen' = [seen EXCEPT !["loop"] = "none", !["loop_rollback"] = "none"]
        /\ ran' = [ran EXCEPT !["loop"] = "none", !["loop_rollback"] = "none"]
    BY <1>3 DEF Patch
  <2>2. /\ out' \in [Legs -> Outputs[spec.kind] \cup {NoRun}]
        /\ seen' \in [Legs -> States]
        /\ ran' \in [Legs -> Contents \cup {"none"}]
    BY <2>1 DEF TypeInv, TypeOK, States
  <2>3. QED
    BY <2>1, <2>2 DEF TypeInv, TypeOK, Steps, Legs
<1>4. CASE LoopRun \/ LoopRollback \/ VerifyRun \/ Rollback
  <2>1. PICK l \in Legs, run \in Outputs[spec.kind] : Run(l, run)
    BY <1>4 DEF LoopRun, LoopRollback, VerifyRun, Rollback, Legs
  <2>2. /\ pc \notin {"reproduce", "done"}
        /\ pc' \in {"patch", "loop_rollback", "verify", "rollback", "verdict"}
        /\ UNCHANGED <<spec, source, reply, content, lock, outcome, restored>>
    BY <1>4 DEF LoopRun, LoopRollback, VerifyRun, Rollback
  <2>3. /\ out' \in [Legs -> Outputs[spec.kind] \cup {NoRun}]
        /\ seen' \in [Legs -> States]
        /\ ran' \in [Legs -> Contents \cup {"none"}]
    BY <2>1, RunTyped
  <2>4. QED
    BY <2>2, <2>3 DEF TypeInv, TypeOK, Steps, Legs
<1>5. CASE WallHolds
  <2>1. /\ pc = "verify" /\ pc' = "verify_run" /\ restored' = FALSE
        /\ UNCHANGED <<spec, source, reply, content, lock, out, seen, outcome,
                       ran>>
    BY <1>5 DEF WallHolds
  <2>2. QED
    BY <2>1 DEF TypeInv, TypeOK, Steps
<1>6. CASE Touch \/ Restore
  <2>1. /\ UNCHANGED <<spec, source, pc, reply, lock, out, seen, outcome, ran>>
        /\ \E f, c : c \in Contents /\ content' = [content EXCEPT ![f] = c]
        /\ restored' \in BOOLEAN
    BY <1>6 DEF Touch, Restore, Contents, TypeInv, TypeOK
  <2>2. content' \in [Files -> Contents]
    BY <2>1 DEF TypeInv, TypeOK
  <2>3. QED
    BY <2>1, <2>2 DEF TypeInv, TypeOK
<1>7. CASE UNCHANGED vars
  BY <1>7 DEF vars, TypeInv, TypeOK
<1>8. QED
  BY <1>1, <1>2, <1>3, <1>4, <1>5, <1>6, <1>7 DEF Next

\* The spec, the pod's files, the runs and their readings have their types,
\* and there is a lock exactly when reproduce let the finding through
\* (stages.py:1613-1834).
THEOREM VerdictTyped == Spec => []TypeOK
<1>1. TypeInv => TypeOK
  BY DEF TypeInv
<1>2. QED
  BY <1>1, TypeInit, TypeSteps, PTL DEF Spec
-----------------------------------------------------------------------------
(* What the parsers take from an output.                                   *)

LineType == [k : LineKinds, n : STRING, v : STRING]

Outs == Seq(LineType)

LEMMA TailTyped == ASSUME NEW lines \in Outs PROVE Tail8000(lines) \in Outs
<1>1. Window \in Nat /\ Len(lines) \in Nat
  BY VerdictAssumption, LenProperties DEF Outs
<1>. DEFINE from == IF Len(lines) > Window THEN Len(lines) - Window + 1 ELSE 1
<1>2. from \in 1..(Len(lines) + 1)
  BY <1>1, VerdictAssumption
<1>. HIDE DEF from
<1>3. \A i \in from..Len(lines) : lines[i] \in LineType
  BY <1>1, <1>2, ElementOfSeq DEF Outs
<1>4. SubSeq(lines, from, Len(lines)) \in Seq(LineType)
  BY <1>1, <1>2, SubSeqProperties DEF Outs
<1>5. QED
  BY <1>4 DEF Tail8000, from, Outs

LEMMA SeenTyped ==
  ASSUME spec \in Stored, NEW l, NEW run \in Outputs[spec.kind]
  PROVE  run.lines \in Outs /\ Seen(l, run) \in Outs
<1>1. run.lines \in Outs
  BY RunsAreRuns DEF Outs, LineType
<1>2. QED
  BY <1>1, TailTyped DEF Seen

\* The first line of the kinds, and none of them before it.
LEMMA NextOfFinds ==
  ASSUME NEW lines \in Outs, NEW i \in Nat, NEW K
  PROVE  /\ NextOf(lines, i, K) \in Nat
         /\ \/ /\ NextOf(lines, i, K) = Len(lines) + 1
               /\ \A p \in i..Len(lines) : lines[p].k \notin K
            \/ /\ NextOf(lines, i, K) \in i..Len(lines)
               /\ lines[NextOf(lines, i, K)].k \in K
               /\ \A p \in i..(NextOf(lines, i, K) - 1) : lines[p].k \notin K
<1>. DEFINE P == {p \in i..Len(lines) : lines[p].k \in K}
<1>1. Len(lines) \in Nat
  BY LenProperties DEF Outs
<1>2. CASE P = {}
  <2>1. NextOf(lines, i, K) = Len(lines) + 1
    BY <1>2 DEF NextOf
  <2>2. QED
    BY <1>1, <1>2, <2>1
<1>3. CASE P # {}
  <2>. DEFINE n == CHOOSE p \in P : \A q \in P : p <= q
  <2>1. NextOf(lines, i, K) = n
    BY <1>3 DEF NextOf
  <2>2. P \subseteq Nat
    BY <1>1
  <2>3. n \in P /\ \A q \in P : n <= q
    <3>. HIDE DEF P
    <3>1. \E m \in P : \A q \in P : m <= q
      BY <1>3, <2>2, NatMin
    <3>2. QED
      BY <3>1
  <2>. HIDE DEF n
  <2>4. n \in i..Len(lines) /\ lines[n].k \in K
    BY <2>3
  <2>5. \A p \in i..(n - 1) : lines[p].k \notin K
    BY <1>1, <2>3, <2>4
  <2>6. QED
    BY <1>1, <2>1, <2>4, <2>5
<1>4. QED
  BY <1>2, <1>3

\* An identity is that of a crash in the output.
LEMMA TokenIsCrash ==
  ASSUME NEW lines \in Outs, DedupToken(lines) # NoToken
  PROVE  DedupToken(lines).id \in Crashes(lines)
<1>. DEFINE token == NextOf(lines, 1, {"token"})
            summary == NextOf(lines, 1, {"summary"})
<1>1. /\ Len(lines) \in Nat /\ DOMAIN lines = 1..Len(lines)
      /\ token \in Nat /\ summary \in Nat
      /\ token <= Len(lines) => token \in 1..Len(lines) /\ lines[token].k = "token"
      /\ summary <= Len(lines) =>
           summary \in 1..Len(lines) /\ lines[summary].k = "summary"
  <2>1. Len(lines) \in Nat /\ DOMAIN lines = 1..Len(lines)
    BY LenProperties DEF Outs
  <2>2. QED
    BY <2>1, NextOfFinds
<1>2. DedupToken(lines) = CASE token <= Len(lines) -> [by |-> "token", id |-> lines[token].v]
        [] token > Len(lines) /\ summary <= Len(lines) ->
             [by |-> "summary", id |-> lines[summary].v]
        [] OTHER -> NoToken
  BY DEF DedupToken
<1>. HIDE DEF token, summary
<1>3. \/ token <= Len(lines) /\ DedupToken(lines).id = lines[token].v
      \/ summary <= Len(lines) /\ DedupToken(lines).id = lines[summary].v
  BY <1>1, <1>2
<1>4. QED
  BY <1>1, <1>3 DEF Crashes

(***************************************************************************)
(* Where the parts of an exchange begin.                                   *)
(***************************************************************************)
StatusAt(lines) == NextOf(lines, 1, {"status"})
BlankAt(lines) == NextOf(lines, StatusAt(lines) + 1, {"blank"})
BodyAt(lines) == NextOf(lines, BlankAt(lines), LineKinds \ {"blank"})
TrailerAt(lines) == NextOf(lines, BodyAt(lines), TrailerKinds)

Body(lines) == {p \in BodyAt(lines)..(TrailerAt(lines) - 1) : lines[p].k # "blank"}

Json(lines) ==
  {[at |-> p, n |-> lines[p].n, v |-> lines[p].v] :
     p \in {q \in Body(lines) : Body(lines) = {q} /\ lines[q].k = "json"}}

LEMMA Layout ==
  ASSUME NEW lines \in Outs, ParseHttp(lines).status # "0"
  PROVE  /\ Len(lines) \in Nat /\ DOMAIN lines = 1..Len(lines)
         /\ StatusAt(lines) \in 1..Len(lines)
         /\ BlankAt(lines) \in (StatusAt(lines) + 1)..(Len(lines) + 1)
         /\ BodyAt(lines) \in BlankAt(lines)..(Len(lines) + 1)
         /\ TrailerAt(lines) \in BodyAt(lines)..(Len(lines) + 1)
         /\ ParseHttp(lines) =
              [status   |-> lines[StatusAt(lines)].v,
               headers  |-> Between(lines, StatusAt(lines) + 1,
                                    BlankAt(lines) - 1, {"kv"}),
               body     |-> {lines[p] : p \in Body(lines)},
               channels |-> Json(lines) \cup Trailer(lines, TrailerAt(lines))]
<1>1. Len(lines) \in Nat /\ DOMAIN lines = 1..Len(lines)
  BY LenProperties DEF Outs
<1>2. ~(StatusAt(lines) > Len(lines))
  BY DEF ParseHttp, StatusAt
<1>3. StatusAt(lines) \in 1..Len(lines)
  BY <1>1, <1>2, NextOfFinds DEF StatusAt
<1>4. BlankAt(lines) \in (StatusAt(lines) + 1)..(Len(lines) + 1)
  <2>1. StatusAt(lines) + 1 \in Nat
    BY <1>3
  <2>2. QED
    BY <1>1, <1>3, <2>1, NextOfFinds DEF BlankAt
<1>5. BodyAt(lines) \in BlankAt(lines)..(Len(lines) + 1)
  <2>1. BlankAt(lines) \in Nat
    BY <1>1, <1>3, <1>4
  <2>2. QED
    BY <1>1, <1>3, <1>4, <2>1, NextOfFinds DEF BodyAt
<1>6. TrailerAt(lines) \in BodyAt(lines)..(Len(lines) + 1)
  <2>1. BodyAt(lines) \in Nat
    BY <1>1, <1>3, <1>4, <1>5
  <2>2. QED
    BY <1>1, <1>3, <1>4, <1>5, <2>1, NextOfFinds DEF TrailerAt
<1>7. ParseHttp(lines) =
        [status   |-> lines[StatusAt(lines)].v,
         headers  |-> Between(lines, StatusAt(lines) + 1,
                              BlankAt(lines) - 1, {"kv"}),
         body     |-> {lines[p] : p \in Body(lines)},
         channels |-> Json(lines) \cup Trailer(lines, TrailerAt(lines))]
  BY <1>2 DEF ParseHttp, StatusAt, BlankAt, BodyAt, TrailerAt, Body, Json
<1>8. QED
  BY <1>1, <1>3, <1>4, <1>5, <1>6, <1>7
-----------------------------------------------------------------------------
(* A red reading is of the frozen bug.                                     *)

\* A stored spec's rules are those of a spec.
LEMMA StoredRules ==
  ASSUME NEW s \in Stored, NEW r \in s.rules
  PROVE  r.pattern \notin LineKinds
<1>1. PICK t \in Specs : s.rules = t.rules
  BY VerdictAssumption
     DEF Stored, By, LoadSpec, TargetSpecSave, FinalSpec, SpecFields
<1>2. QED
  BY <1>1, VerdictAssumption

\* What a channel holds is written in the output.
LEMMA ChannelIsWritten ==
  ASSUME NEW lines \in Outs, ParseHttp(lines).status # "0",
         NEW c \in ParseHttp(lines).channels
  PROVE  \E p \in DOMAIN lines : c.v \in {lines[p].v, lines[p].k}
<1>1. /\ DOMAIN lines = 1..Len(lines) /\ Len(lines) \in Nat
      /\ StatusAt(lines) \in Nat /\ BlankAt(lines) \in Nat
      /\ BodyAt(lines) \in Nat /\ TrailerAt(lines) \in Nat
      /\ 1 <= BodyAt(lines) /\ 1 <= TrailerAt(lines)
      /\ TrailerAt(lines) <= Len(lines) + 1
      /\ c \in Json(lines) \cup Trailer(lines, TrailerAt(lines))
  BY Layout
<1>2. CASE c \in Json(lines)
  <2>1. PICK p \in Body(lines) : c.v = lines[p].v
    BY <1>2 DEF Json
  <2>2. p \in DOMAIN lines
    BY <1>1 DEF Body
  <2>3. QED
    BY <2>1, <2>2
<1>3. CASE c \in Trailer(lines, TrailerAt(lines))
  <2>. DEFINE waits == Waiting(lines, TrailerAt(lines))
              Value == {[at |-> p, n |-> waits[p], v |-> Whole(lines[p])] :
                          p \in {q \in TrailerAt(lines)..Len(lines) :
                                   waits[q] # "" /\ lines[q].k # "blank"}}
              Plainly == {[at |-> p, n |-> lines[p].n, v |-> lines[p].v] :
                            p \in {q \in TrailerAt(lines)..Len(lines) :
                                     waits[q] = "" /\ lines[q].k \in {"pw", "kv"}}}
  <2>4. c \in Value \cup Plainly
    BY <1>3 DEF Trailer
  <2>. HIDE DEF waits
  <2>1. PICK p \in TrailerAt(lines)..Len(lines) :
          c.v = lines[p].v \/ c.v = Whole(lines[p])
    <3>1. CASE c \in Value
      <4>1. PICK p \in TrailerAt(lines)..Len(lines) :
              c = [at |-> p, n |-> waits[p], v |-> Whole(lines[p])]
        BY <3>1, Zenon
      <4>2. QED
        BY <4>1
    <3>2. CASE c \in Plainly
      <4>1. PICK p \in TrailerAt(lines)..Len(lines) :
              c = [at |-> p, n |-> lines[p].n, v |-> lines[p].v]
        BY <3>2, Zenon
      <4>2. QED
        BY <4>1
    <3>3. QED
      BY <2>4, <3>1, <3>2
  <2>2. p \in DOMAIN lines
    BY <1>1
  <2>3. QED
    BY <2>1, <2>2 DEF Whole
<1>4. QED
  BY <1>1, <1>2, <1>3

\* A hit has the evidence of its rule somewhere in the output.
LEMMA HitIsWritten ==
  ASSUME NEW lines \in Outs, ParseHttp(lines).status # "0",
         NEW rules, \A r \in rules : r.pattern \notin LineKinds,
         Hit(ParseHttp(lines), rules)
  PROVE  \E r \in rules : InLines(lines, r.pattern)
<1>. DEFINE ev == ParseHttp(lines)
            All == {lines[i] : i \in DOMAIN lines}
<1>1. PICK r \in rules : RuleHits(r, ev)
  BY DEF Hit
<1>2. ev.body \subseteq All /\ ev.headers \subseteq All
  <2>1. /\ DOMAIN lines = 1..Len(lines) /\ Len(lines) \in Nat
        /\ StatusAt(lines) \in Nat /\ BlankAt(lines) \in Nat
        /\ BodyAt(lines) \in Nat /\ TrailerAt(lines) \in Nat
        /\ 1 <= BodyAt(lines) /\ TrailerAt(lines) <= Len(lines) + 1
        /\ BlankAt(lines) <= Len(lines) + 1
    BY Layout
  <2>2. ev.body = {lines[p] : p \in Body(lines)}
    BY Layout
  <2>3. ev.headers = Between(lines, StatusAt(lines) + 1, BlankAt(lines) - 1, {"kv"})
    BY Layout
  <2>4. Body(lines) \subseteq DOMAIN lines
    BY <2>1 DEF Body
  <2>5. (StatusAt(lines) + 1)..(BlankAt(lines) - 1) \subseteq DOMAIN lines
    BY <2>1
  <2>6. ev.body \subseteq All
    BY <2>2, <2>4
  <2>7. ev.headers \subseteq All
    BY <2>3, <2>5 DEF Between
  <2>8. QED
    BY <2>6, <2>7
<1>3. \A c \in ev.channels : c.v = r.pattern => Mentions(All, r.pattern)
  <2>. SUFFICES ASSUME NEW c \in ev.channels, c.v = r.pattern
                PROVE  Mentions(All, r.pattern)
    OBVIOUS
  <2>1. PICK p \in DOMAIN lines : r.pattern \in {lines[p].v, lines[p].k}
    BY ChannelIsWritten
  <2>2. lines[p].k \in LineKinds
    <3>1. lines \in [DOMAIN lines -> LineType]
      BY LenProperties DEF Outs
    <3>2. lines[p] \in LineType
      BY <3>1
    <3>3. QED
      BY <3>2 DEF LineType
  <2>3. lines[p].v = r.pattern
    BY <1>1, <2>1, <2>2
  <2>4. QED
    BY <2>3 DEF Mentions
<1>. HIDE DEF ev, All
<1>4. Mentions(All, r.pattern)
  BY <1>1, <1>2, <1>3 DEF RuleHits, HasChannel, Mentions
<1>5. QED
  BY <1>4 DEF InLines, All

\* An HTTP reading in one piece: without a lock the spec's rules decide, and
\* with one the frozen identity too; the rules of the lock are the spec's.
LEMMA HttpReading ==
  ASSUME LegsInv, spec.kind = "http", NEW l \in Legs, seen[l] # "none"
  PROVE  \E config :
           LET ev == ParseHttp(Read(l))
               state == ClassifyHttp(ev, config, spec.rules)
           IN  /\ \/ LockAt(l) = NoLock /\ config = NoConfig
                  \/ /\ config # NoConfig
                     /\ config.id =
                          HttpId(ParseHttp(Read("reproduce")).status, spec.rules)
               /\ seen[l] = IF state = "green" /\ ParseMiss(ev, spec.rules, Read(l))
                            THEN "harness" ELSE state
<1>. DEFINE ev == ParseHttp(Read(l))
            held == LockAt(l)
            Reads(config) ==
              seen[l] = IF /\ ClassifyHttp(ev, config, spec.rules) = "green"
                           /\ ParseMiss(ev, spec.rules, Read(l))
                        THEN "harness" ELSE ClassifyHttp(ev, config, spec.rules)
<1>1. seen[l] = ReadHttp(spec, held, Read(l)).state
  BY DEF LegsInv, ClassifyRepro
<1>2. CASE held = NoLock
  <2>1. Reads(NoConfig)
    BY <1>1, <1>2, NoLockYet DEF ReadHttp
  <2>2. QED
    BY <1>2, <2>1
<1>3. CASE held # NoLock
  <2>1. held = lock /\ FirstRed
    BY <1>3 DEF LockAt, LegsInv
  <2>. DEFINE first == Tail8000(out["reproduce"].lines)
              status == ParseHttp(first).status
  <2>2. first = Read("reproduce")
    BY DEF Read, Seen, LoopLegs
  <2>3. /\ ReadHttp(spec, NoLock, first).status = status
        /\ ReadHttp(spec, NoLock, first).id = HttpId(status, spec.rules)
    BY NoLockYet DEF ReadHttp
  <2>4. /\ lock.config = VerdictConfig(spec, status)
        /\ lock.token = HttpId(status, spec.rules)
    BY <2>1, <2>3 DEF FirstRed, ClassifyRepro
  <2>. HIDE DEF status
  <2>5. /\ lock.config.rules = spec.rules
        /\ lock.config.id = HttpId(status, spec.rules)
        /\ DOMAIN lock.config = {"status", "rules", "id", "green", "negative"}
        /\ DOMAIN lock.token = {"status", "rules"}
    BY <2>4 DEF VerdictConfig, HttpId
  <2>6. DOMAIN NoConfig = {"id"} /\ DOMAIN NoToken = {"by", "id"}
    BY DEF NoConfig, NoToken
  <2>7. lock.config # NoConfig /\ lock.token # NoToken
    BY <2>5, <2>6
  <2>8. Reads(lock.config)
    BY <1>1, <2>1, <2>5, <2>7 DEF ReadHttp, PristineToken
  <2>9. QED
    BY <2>2, <2>5, <2>7, <2>8 DEF status
<1>4. QED
  BY <1>2, <1>3

\* A sanitizer reading after the freeze compares with the frozen identity.
LEMMA SanitizerRed ==
  ASSUME LegsInv, spec.kind = "sanitizer", Identified,
         NEW l \in Legs, seen[l] = "red"
  PROVE  Crashes(Read(l)) \cap Crashes(Read("reproduce")) # {}
<1>1. FirstRed /\ lock # NoLock /\ spec \in Stored
  BY DEF Identified, LegsInv
<1>2. DedupToken(Read("reproduce")) # NoToken
  BY DEF Identified, Read
<1>3. Read("reproduce") \in Outs
  BY <1>1, SeenTyped DEF Read, FirstRed
<1>4. DedupToken(Read("reproduce")).id \in Crashes(Read("reproduce"))
  BY <1>2, <1>3, TokenIsCrash
<1>5. CASE l = "reproduce"
  BY <1>4, <1>5
<1>6. CASE l # "reproduce"
  <2>1. lock.token = DedupToken(Read("reproduce"))
    BY <1>1, <1>2 DEF FirstRed, ClassifyRepro, ReadSanitizer, Read, Seen, LoopLegs
  <2>2. out[l] \in Outputs[spec.kind]
    BY DEF LegsInv
  <2>3. Read(l) \in Outs
    BY <1>1, <2>2, SeenTyped DEF Read
  <2>4. ClassifySanitizer(out[l], Read(l), lock.token) = "red"
    BY <1>6 DEF LegsInv, LockAt, ClassifyRepro, ReadSanitizer, PristineToken
  <2>5. DedupToken(Read(l)) = lock.token
    <3>. DEFINE t == DedupToken(Read(l))
    <3>1. lock.token # NoToken
      BY <1>2, <2>1
    <3>2. t = DedupToken(Read(l))
      OBVIOUS
    <3>. HIDE DEF t
    <3>3. QED
      BY <2>4, <3>1, <3>2 DEF ClassifySanitizer
  <2>6. DedupToken(Read(l)).id \in Crashes(Read(l))
    BY <1>2, <2>1, <2>3, <2>5, TokenIsCrash
  <2>7. QED
    BY <1>4, <2>1, <2>5, <2>6
<1>7. QED
  BY <1>5, <1>6

LEMMA HttpRed ==
  ASSUME LegsInv, spec.kind = "http", Identified,
         NEW l \in Legs, seen[l] = "red"
  PROVE  /\ ParseHttp(Read(l)).status = ParseHttp(Read("reproduce")).status
         /\ \E r \in spec.rules : InLines(Read(l), r.pattern)
<1>. DEFINE ev == ParseHttp(Read(l))
            first == ParseHttp(Read("reproduce")).status
<1>1. PICK config :
        /\ \/ LockAt(l) = NoLock /\ config = NoConfig
           \/ config # NoConfig /\ config.id = HttpId(first, spec.rules)
        /\ ClassifyHttp(ev, config, spec.rules) = "red"
  BY HttpReading
<1>2. LockAt(l) = NoLock => l = "reproduce"
  BY DEF Identified, LockAt
<1>3. ev.status # "0" /\ Hit(ev, spec.rules) /\ ev.status = first
  <2>. HIDE DEF ev, first
  <2>1. /\ ev.status # "0" /\ Hit(ev, spec.rules)
        /\ config = NoConfig \/ HttpId(ev.status, spec.rules) = config.id
    BY <1>1 DEF ClassifyHttp
  <2>2. CASE l = "reproduce"
    BY <2>1, <2>2 DEF ev, first
  <2>3. CASE l # "reproduce"
    <3>1. HttpId(ev.status, spec.rules).status = HttpId(first, spec.rules).status
      BY <1>1, <1>2, <2>1, <2>3
    <3>2. QED
      BY <2>1, <3>1 DEF HttpId
  <2>4. QED
    BY <2>2, <2>3
<1>4. spec \in Stored /\ out[l] \in Outputs[spec.kind]
  BY DEF LegsInv
<1>5. Read(l) \in Outs
  BY <1>4, SeenTyped DEF Read
<1>6. QED
  BY <1>3, <1>4, <1>5, StoredRules, HitIsWritten

\* What is red after the freeze is the bug that reproduce saw: no other crash
\* and no other response passes for it, in no leg and after any number of
\* patches (stages.py:104-107, states.py:180-213, 505-530).
THEOREM RedIsTheBug == Spec => []RedIsTracked
<1>1. LegsInv => RedIsTracked
  <2>. SUFFICES ASSUME LegsInv, Identified, NEW l \in Legs, seen[l] = "red"
                PROVE  SameBug(Read(l), Read("reproduce"))
    BY DEF RedIsTracked, Read
  <2>1. spec.kind \in {"sanitizer", "http"}
    BY StoredSpecs DEF LegsInv
  <2>2. QED
    BY <2>1, SanitizerRed, HttpRed DEF SameBug
<1>2. QED
  BY <1>1, WallInit, WallSteps, LegsInit, LegsSteps, PTL DEF Spec
-----------------------------------------------------------------------------
(* A green reading of an exchange that the parser sees whole.              *)

LEMMA LineTyped ==
  ASSUME NEW lines \in Outs, NEW p \in DOMAIN lines
  PROVE  lines[p] \in LineType /\ lines[p].k \in LineKinds
<1>1. lines \in [DOMAIN lines -> LineType]
  BY LenProperties DEF Outs
<1>2. lines[p] \in LineType
  BY <1>1
<1>3. QED
  BY <1>2 DEF LineType

\* There is one first line of the kinds.
LEMMA NextOfIs ==
  ASSUME NEW lines \in Outs, NEW i \in Nat, NEW K, NEW m \in Nat,
         \/ /\ m = Len(lines) + 1 /\ \A p \in i..Len(lines) : lines[p].k \notin K
         \/ /\ m \in i..Len(lines) /\ lines[m].k \in K
            /\ \A p \in i..(m - 1) : lines[p].k \notin K
  PROVE  NextOf(lines, i, K) = m
<1>1. Len(lines) \in Nat
  BY LenProperties DEF Outs
<1>. DEFINE n == NextOf(lines, i, K)
<1>2. /\ n \in Nat
      /\ \/ n = Len(lines) + 1 /\ \A p \in i..Len(lines) : lines[p].k \notin K
         \/ /\ n \in i..Len(lines) /\ lines[n].k \in K
            /\ \A p \in i..(n - 1) : lines[p].k \notin K
  BY NextOfFinds
<1>. HIDE DEF n
<1>3. n \in i..Len(lines) => ~(n < m)
  BY <1>1, <1>2
<1>4. m \in i..Len(lines) => ~(m < n)
  BY <1>1, <1>2
<1>5. n = m
  BY <1>1, <1>2, <1>3, <1>4
<1>6. QED
  BY <1>5 DEF n

\* f says for each position from from on which separator waits before it.
Waits(lines, from, f) ==
  f = [p \in from..(Len(lines) + 1) |->
         IF p = from THEN ""
         ELSE LET l == lines[p - 1]
              IN  CASE l.k = "blank" -> f[p - 1]
                    [] l.k = "sep" /\ f[p - 1] = "" -> l.n
                    [] OTHER -> ""]

\* Where no separator is, none waits.
LEMMA NoneWaits ==
  ASSUME NEW lines, NEW len \in Nat, len = Len(lines),
         NEW from \in Nat, from <= len + 1,
         \A p \in from..len : lines[p].k # "sep",
         NEW f, Waits(lines, from, f)
  PROVE  \A p \in from..(len + 1) : f[p] = ""
<1>. DEFINE Free(p) == f[p] = ""
<1>1. from \in from..(len + 1) /\ Free(from)
  <2>1. from \in from..(len + 1)
    OBVIOUS
  <2>2. QED
    BY <2>1 DEF Waits
<1>2. ASSUME NEW p \in (from + 1)..(len + 1), Free(p - 1) PROVE Free(p)
  <2>1. p \in from..(len + 1) /\ p # from /\ p - 1 \in from..len
    OBVIOUS
  <2>2. lines[p - 1].k # "sep"
    BY <2>1
  <2>3. f[p] = LET l == lines[p - 1]
               IN  CASE l.k = "blank" -> f[p - 1]
                     [] l.k = "sep" /\ f[p - 1] = "" -> l.n
                     [] OTHER -> ""
    BY <2>1 DEF Waits
  <2>4. QED
    BY <1>2, <2>2, <2>3
<1>. HIDE DEF Free
<1>3. \A p \in from..(len + 1) : Free(p)
  <2>. DEFINE Bad == {p \in from..(len + 1) : ~Free(p)}
  <2>1. SUFFICES ASSUME Bad # {} PROVE FALSE
    OBVIOUS
  <2>2. Bad \subseteq Nat
    OBVIOUS
  <2>3. PICK m \in Bad : \A p \in Bad : m <= p
    <3>. HIDE DEF Bad
    <3>1. QED
      BY <2>1, <2>2, NatMin
  <2>4. m # from
    BY <1>1, <2>3
  <2>5. m \in (from + 1)..(len + 1) /\ m - 1 \in from..(len + 1) /\ ~(m <= m - 1)
    BY <2>3, <2>4
  <2>6. Free(m - 1)
    BY <2>3, <2>5
  <2>7. QED
    BY <1>2, <2>3, <2>5, <2>6
<1>4. QED
  BY <1>3 DEF Free

\* Where no separator is, no line is taken as the value of one.
LEMMA NothingWaits ==
  ASSUME NEW lines \in Outs, NEW from \in Nat, from <= Len(lines) + 1,
         \A p \in from..Len(lines) : lines[p].k # "sep"
  PROVE  \A p \in from..Len(lines) : Waiting(lines, from)[p] = ""
<1>1. Len(lines) \in Nat
  BY LenProperties DEF Outs
<1>. DEFINE none == [p \in from..(Len(lines) + 1) |-> ""]
<1>2. Waits(lines, from, none)
  <2>1. ASSUME NEW p \in from..(Len(lines) + 1), p # from
        PROVE  p - 1 \in from..(Len(lines) + 1) /\ lines[p - 1].k # "sep"
    BY <1>1, <2>1
  <2>2. ASSUME NEW p \in from..(Len(lines) + 1)
        PROVE  "" = IF p = from THEN ""
                    ELSE LET l == lines[p - 1]
                         IN  CASE l.k = "blank" -> none[p - 1]
                               [] l.k = "sep" /\ none[p - 1] = "" -> l.n
                               [] OTHER -> ""
    BY <2>1
  <2>3. QED
    BY <2>2 DEF Waits
<1>3. Waiting(lines, from) = CHOOSE f : Waits(lines, from, f)
  BY DEF Waiting, Waits
<1>4. Waits(lines, from, Waiting(lines, from))
  BY <1>2, <1>3
<1>5. \A p \in from..(Len(lines) + 1) : Waiting(lines, from)[p] = ""
  BY <1>1, <1>4, NoneWaits
<1>6. \A p \in from..Len(lines) : p \in from..(Len(lines) + 1)
  BY <1>1
<1>7. QED
  BY <1>5, <1>6, Zenon

\* Without separators the trailer's channels are its named lines.
LEMMA PlainTrailer ==
  ASSUME NEW lines \in Outs, NEW from \in Nat, 1 <= from,
         from <= Len(lines) + 1,
         \A p \in from..Len(lines) : lines[p].k \in {"pw", "kv"}
  PROVE  Trailer(lines, from) =
           {[at |-> p, n |-> lines[p].n, v |-> lines[p].v] : p \in from..Len(lines)}
<1>. DEFINE waits == Waiting(lines, from)
            Value == {q \in from..Len(lines) : waits[q] # "" /\ lines[q].k # "blank"}
            Names == {q \in from..Len(lines) :
                        waits[q] = "" /\ lines[q].k \in {"pw", "kv"}}
<1>1. Trailer(lines, from) =
        {[at |-> p, n |-> waits[p], v |-> Whole(lines[p])] : p \in Value}
        \cup {[at |-> p, n |-> lines[p].n, v |-> lines[p].v] : p \in Names}
  BY DEF Trailer
<1>2. \A p \in from..Len(lines) : waits[p] = ""
  BY NothingWaits
<1>. HIDE DEF waits
<1>3. Value = {} /\ Names = from..Len(lines)
  BY <1>2
<1>. HIDE DEF Value, Names
<1>4. QED
  BY <1>1, <1>3
\* The channel of a line.
ChannelOf(lines, p) == [at |-> p, n |-> lines[p].n, v |-> lines[p].v]

\* How a plain exchange is cut: status line, headers, blank lines, body, and
\* a trailer of named lines: text is in the body, a channel is a named line.
LEMMA PlainLayout ==
  ASSUME NEW lines \in Outs, Plain(lines), ParseHttp(lines).status # "0"
  PROVE  /\ \A i \in DOMAIN lines : lines[i].k = "text" => i \in Body(lines)
         /\ \A c \in ParseHttp(lines).channels :
              \E p \in DOMAIN lines :
                lines[p].k \in Named /\ c = ChannelOf(lines, p)
<1>. DEFINE len == Len(lines)
            blank == NextOf(lines, 1, {"blank"})
            stop == NextOf(lines, blank, TrailerKinds)
<1>1. /\ len \in Nat /\ DOMAIN lines = 1..len
      /\ StatusAt(lines) \in 1..len
      /\ BlankAt(lines) \in (StatusAt(lines) + 1)..(len + 1)
      /\ BodyAt(lines) \in BlankAt(lines)..(len + 1)
      /\ TrailerAt(lines) \in BodyAt(lines)..(len + 1)
      /\ ParseHttp(lines).channels = Json(lines) \cup Trailer(lines, TrailerAt(lines))
  BY Layout
<1>2. /\ blank \in Nat /\ blank \in 1..(len + 1)
      /\ \A p \in 1..(blank - 1) : lines[p].k \notin {"blank"}
      /\ blank = len + 1 \/ lines[blank].k = "blank"
  <2>1. /\ blank \in Nat
        /\ \/ blank = len + 1 /\ \A p \in 1..len : lines[p].k \notin {"blank"}
           \/ /\ blank \in 1..len /\ lines[blank].k \in {"blank"}
              /\ \A p \in 1..(blank - 1) : lines[p].k \notin {"blank"}
    BY NextOfFinds
  <2>. HIDE DEF blank
  <2>2. QED
    BY <1>1, <2>1
<1>3. /\ stop \in Nat /\ stop \in blank..(len + 1)
      /\ \A p \in blank..(stop - 1) : lines[p].k \notin TrailerKinds
      /\ stop = len + 1 \/ lines[stop].k \in TrailerKinds
  BY <1>1, <1>2, NextOfFinds
<1>4. /\ blank # 1
      /\ \A i \in 1..(blank - 1) : lines[i].k = (IF i = 1 THEN "status" ELSE "kv")
      /\ \A i \in stop..len : lines[i].k \in {"pw", "kv"}
  BY DEF Plain
<1>. HIDE DEF blank, stop, len
<1>5. StatusAt(lines) = 1
  <2>1. 1 \in 1..(blank - 1) /\ lines[1].k = "status"
    BY <1>2, <1>4
  <2>2. 1 \in 1..len /\ \A p \in 1..(1 - 1) : FALSE
    BY <1>1
  <2>3. QED
    BY <2>1, <2>2, NextOfIs DEF StatusAt, len
<1>6. BlankAt(lines) = blank
  <2>1. 2 \in Nat /\ StatusAt(lines) + 1 = 2 /\ blank \in 2..(len + 1)
    BY <1>2, <1>4, <1>5
  <2>2. \A p \in 2..(blank - 1) : lines[p].k \notin {"blank"}
    BY <1>2
  <2>3. \/ blank = len + 1 /\ \A p \in 2..len : lines[p].k \notin {"blank"}
        \/ /\ blank \in 2..len /\ lines[blank].k \in {"blank"}
           /\ \A p \in 2..(blank - 1) : lines[p].k \notin {"blank"}
    BY <1>1, <1>2, <2>1, <2>2
  <2>4. QED
    BY <1>2, <2>1, <2>3, NextOfIs DEF BlankAt, len
<1>7. \A p \in blank..(BodyAt(lines) - 1) : lines[p].k = "blank"
  <2>1. \A p \in blank..(BodyAt(lines) - 1) : lines[p].k \notin LineKinds \ {"blank"}
    BY <1>1, <1>2, <1>6, NextOfFinds DEF BodyAt, len
  <2>2. \A p \in blank..(BodyAt(lines) - 1) : p \in DOMAIN lines
    BY <1>1, <1>2, <1>6
  <2>3. QED
    BY <2>1, <2>2, LineTyped
<1>8. TrailerAt(lines) = stop
  <2>1. BodyAt(lines) \in Nat /\ BodyAt(lines) \in blank..(len + 1)
    BY <1>1, <1>2, <1>6
  <2>2. stop \in BodyAt(lines)..(len + 1)
    <3>1. SUFFICES ASSUME stop < BodyAt(lines) PROVE FALSE
      BY <1>1, <1>3, <2>1
    <3>2. stop # len + 1 /\ stop \in blank..(BodyAt(lines) - 1)
      BY <1>1, <1>2, <1>3, <2>1, <3>1
    <3>3. lines[stop].k = "blank" /\ lines[stop].k \in TrailerKinds
      BY <1>3, <1>7, <3>2
    <3>4. QED
      BY <3>3 DEF TrailerKinds
  <2>3. \A p \in BodyAt(lines)..(stop - 1) : lines[p].k \notin TrailerKinds
    BY <1>2, <1>3, <2>1
  <2>4. \/ /\ stop = len + 1
           /\ \A p \in BodyAt(lines)..len : lines[p].k \notin TrailerKinds
        \/ /\ stop \in BodyAt(lines)..len /\ lines[stop].k \in TrailerKinds
           /\ \A p \in BodyAt(lines)..(stop - 1) : lines[p].k \notin TrailerKinds
    BY <1>1, <1>3, <2>1, <2>2, <2>3
  <2>5. QED
    BY <1>3, <2>1, <2>4, NextOfIs DEF TrailerAt, len
<1>9. Trailer(lines, stop) = {ChannelOf(lines, p) : p \in stop..len}
  <2>1. 1 <= stop /\ stop <= Len(lines) + 1
    BY <1>1, <1>2, <1>3 DEF len
  <2>2. QED
    BY <1>3, <1>4, <2>1, PlainTrailer DEF ChannelOf, len
<1>10. Json(lines) = {ChannelOf(lines, p) :
                        p \in {q \in Body(lines) : Body(lines) = {q}
                                                   /\ lines[q].k = "json"}}
  BY DEF Json, ChannelOf
<1>11. Body(lines) \subseteq DOMAIN lines
  BY <1>1, <1>2, <1>3, <1>6, <1>8 DEF Body
<1>12. ASSUME NEW c \in ParseHttp(lines).channels
       PROVE  \E p \in DOMAIN lines : lines[p].k \in Named /\ c = ChannelOf(lines, p)
  <2>1. c \in Json(lines) \cup Trailer(lines, stop)
    BY <1>1, <1>8
  <2>2. CASE c \in Json(lines)
    <3>1. PICK p \in Body(lines) : lines[p].k = "json" /\ c = ChannelOf(lines, p)
      BY <1>10, <2>2
    <3>2. QED
      BY <1>11, <3>1 DEF Named
  <2>3. CASE c \in Trailer(lines, stop)
    <3>1. PICK p \in stop..len : c = ChannelOf(lines, p)
      BY <1>9, <2>3
    <3>2. p \in DOMAIN lines /\ lines[p].k \in {"pw", "kv"}
      BY <1>1, <1>2, <1>3, <1>4, <1>6, <1>8
    <3>3. QED
      BY <3>1, <3>2 DEF Named
  <2>4. QED
    BY <2>1, <2>2, <2>3
<1>13. ASSUME NEW i \in DOMAIN lines, lines[i].k = "text"
       PROVE  i \in Body(lines)
  <2>1. i \notin 1..(blank - 1) /\ i \notin stop..len
    BY <1>4, <1>13
  <2>2. i \notin blank..(BodyAt(lines) - 1)
    BY <1>7, <1>13
  <2>3. i \in BodyAt(lines)..(TrailerAt(lines) - 1)
    BY <1>1, <1>2, <1>3, <1>6, <1>8, <2>1, <2>2
  <2>4. QED
    BY <1>13, <2>3 DEF Body
<1>14. QED
  BY <1>12, <1>13
\* No report is in what a sanitizer reading calls green.
LEMMA SanitizerGreen ==
  ASSUME LegsInv, spec.kind = "sanitizer", NEW l \in Legs, seen[l] = "green"
  PROVE  ~Sign(Read(l))
<1>1. ClassifySanitizer(out[l], Read(l), PristineToken(LockAt(l))) = "green"
  BY DEF LegsInv, ClassifyRepro, ReadSanitizer
<1>2. ~Marker(Read(l))
  <2>. DEFINE token == DedupToken(Read(l))
              lines == Read(l)
  <2>1. token = DedupToken(lines)
    OBVIOUS
  <2>. HIDE DEF token, lines
  <2>2. ~Marker(lines)
    BY <1>1, <2>1 DEF ClassifySanitizer, lines
  <2>3. QED
    BY <2>2 DEF lines
<1>3. QED
  BY <1>2 DEF Marker, Sign

\* No pattern and no value of a rule is in a plain exchange that is read as
\* green: what the program writes, the parser finds or the backstop misses.
LEMMA HttpGreen ==
  ASSUME LegsInv, spec.kind = "http", NEW l \in Legs, seen[l] = "green",
         Plain(Read(l))
  PROVE  ~Sign(Read(l))
<1>. DEFINE lines == Read(l)
            ev == ParseHttp(lines)
<1>1. ev.status # "0" /\ ~Hit(ev, spec.rules) /\ ~ParseMiss(ev, spec.rules, lines)
  <2>1. PICK config : /\ ClassifyHttp(ev, config, spec.rules) = "green"
                      /\ ~ParseMiss(ev, spec.rules, lines)
    BY HttpReading
  <2>. HIDE DEF ev
  <2>2. QED
    BY <2>1 DEF ClassifyHttp
<1>2. lines \in Outs
  <2>1. spec \in Stored /\ out[l] \in Outputs[spec.kind]
    BY DEF LegsInv
  <2>2. QED
    BY <2>1, SeenTyped DEF Read
<1>3. /\ Plain(lines) /\ DOMAIN lines \subseteq Nat
      /\ \A i \in DOMAIN lines : lines[i].k = "text" => i \in Body(lines)
      /\ \A c \in ev.channels : \E p \in DOMAIN lines :
           lines[p].k \in Named /\ c = ChannelOf(lines, p)
      /\ ev.body = {lines[p] : p \in Body(lines)}
  BY <1>1, <1>2, PlainLayout, Layout
<1>4. SUFFICES ASSUME NEW r \in spec.rules, NEW i \in DOMAIN lines,
                      lines[i].v = r.pattern,
                      \/ r.kind = "body" /\ lines[i].k = "text"
                      \/ /\ r.kind \in {"flag", "channel"}
                         /\ lines[i].k \in Named /\ lines[i].n = r.name
               PROVE  RuleHits(r, ev)
  BY <1>1 DEF Hit, Sign, Named
<1>. HIDE DEF lines, ev
<1>5. CASE r.kind = "body" /\ lines[i].k = "text"
  <2>1. lines[i] \in ev.body
    BY <1>3, <1>5
  <2>2. QED
    BY <1>4, <1>5, <2>1 DEF RuleHits, Mentions
<1>6. CASE /\ r.kind \in {"flag", "channel"}
           /\ lines[i].k \in Named /\ lines[i].n = r.name
  <2>1. ASSUME NEW c \in ev.channels, c.n = r.name PROVE c = ChannelOf(lines, i)
    <3>1. PICK p \in DOMAIN lines : lines[p].k \in Named /\ c = ChannelOf(lines, p)
      BY <1>3
    <3>2. lines[p].n = lines[i].n
      BY <1>6, <2>1, <3>1 DEF ChannelOf
    <3>3. p = i
      BY <1>3, <1>6, <3>1, <3>2 DEF Plain
    <3>4. QED
      BY <3>1, <3>3
  <2>2. InLines(lines, r.name)
    BY <1>6 DEF InLines, Mentions
  <2>3. PICK c \in ev.channels : c.n = r.name
    BY <1>1, <2>2 DEF ParseMiss, ChannelNames
  <2>4. c.v = r.pattern /\ c.at \in Nat
    BY <1>3, <1>4, <2>1, <2>3 DEF ChannelOf
  <2>5. \A d \in ev.channels : d.n = r.name => d.at <= c.at
    <3>1. \A d \in ev.channels : d.n = r.name => d.at = c.at
      BY <2>1, <2>3
    <3>2. QED
      BY <2>4, <3>1
  <2>6. HasChannel(ev, r.name, r.pattern)
    BY <2>3, <2>4, <2>5 DEF HasChannel
  <2>7. QED
    BY <1>6, <2>6 DEF RuleHits
<1>7. QED
  BY <1>4, <1>5, <1>6

\* Green is affirmative: whatever a program prints, an output that the leg
\* reads whole and the parser sees whole shows no sign of the bug
\* (states.py:543-600, stages.py:77-95, http_parse.py:18-105).
THEOREM GreenShowsNoSign == Spec => []GreenIsAffirmative
<1>1. LegsInv => GreenIsAffirmative
  <2>. SUFFICES ASSUME LegsInv, NEW l \in Legs, seen[l] = "green",
                       Fits(out[l]) \/ l \in LoopLegs,
                       spec.kind = "http" => Plain(out[l].lines)
                PROVE  ~Sign(out[l].lines)
    BY DEF GreenIsAffirmative
  <2>1. spec \in Stored /\ out[l] \in Outputs[spec.kind]
    BY DEF LegsInv
  <2>2. Read(l) = out[l].lines
    <3>1. out[l].lines \in Outs
      BY <2>1, SeenTyped
    <3>2. CASE l \in LoopLegs
      BY <3>2 DEF Read, Seen
    <3>3. CASE Fits(out[l])
      BY <3>1, <3>3, WholeTail DEF Fits, Read, Seen, Outs
    <3>4. QED
      BY <3>2, <3>3
  <2>3. spec.kind \in {"sanitizer", "http"}
    BY <2>1, StoredSpecs
  <2>4. QED
    BY <2>2, <2>3, SanitizerGreen, HttpGreen
<1>2. QED
  BY <1>1, WallInit, WallSteps, LegsInit, LegsSteps, PTL DEF Spec
-----------------------------------------------------------------------------
(* Edits: a block that counts once stands in one place.                    *)

Text == Seq(STRING)

LEMMA Part ==
  ASSUME NEW t \in Text, NEW m \in Nat, NEW n \in Nat, 1 <= m, n <= Len(t)
  PROVE  /\ SubSeq(t, m, n) \in Text
         /\ Len(SubSeq(t, m, n)) = IF m <= n THEN n - m + 1 ELSE 0
         /\ \A i \in 1..(n - m + 1) : SubSeq(t, m, n)[i] = t[m + i - 1]
<1>1. Len(t) \in Nat
  BY LenProperties DEF Text
<1>2. \A i \in m..n : t[i] \in STRING
  BY <1>1, ElementOfSeq DEF Text
<1>3. QED
  BY <1>2, SubSeqProperties DEF Text

\* The n elements from p on.
LEMMA PartAt ==
  ASSUME NEW t \in Text, NEW p \in Nat, NEW n \in Nat,
         1 <= p, 1 <= n, p + n - 1 <= Len(t)
  PROVE  \A i \in 1..n : SubSeq(t, p, p + n - 1)[i] = t[p + i - 1]
<1>. DEFINE e == p + n - 1
<1>1. e \in Nat /\ e <= Len(t) /\ e - p + 1 = n
  OBVIOUS
<1>. HIDE DEF e
<1>2. \A i \in 1..(e - p + 1) : SubSeq(t, p, e)[i] = t[p + i - 1]
  BY ONLY <1>1, Part, t \in Text, p \in Nat, 1 <= p
<1>3. \A i \in 1..n : SubSeq(t, p, e)[i] = t[p + i - 1]
  BY ONLY <1>1, <1>2
<1>4. QED
  BY ONLY <1>3 DEF e

\* Two places of a search that are closer than its length: it overlaps.
LEMMA Overlapping ==
  ASSUME NEW t \in Text, NEW s \in Text,
         NEW p \in Places(t, s), NEW q \in Places(t, s),
         p < q, q < p + Len(s)
  PROVE  Overlaps(s)
<1>. DEFINE n == Len(s)
            k == p + n - q
<1>1. /\ n \in Nat /\ Len(t) \in Nat
      /\ p \in 1..Len(t) /\ q \in 1..Len(t)
      /\ p + n - 1 <= Len(t) /\ q + n - 1 <= Len(t)
      /\ SubSeq(t, p, p + n - 1) = s /\ SubSeq(t, q, q + n - 1) = s
  BY LenProperties DEF Text, Places, At
<1>. HIDE DEF n
<1>2. p < q /\ q < p + n
  BY DEF n
<1>3. k \in 1..(n - 1) /\ p + n - 1 \in Nat /\ q + n - 1 \in Nat
  BY <1>1, <1>2
<1>4. \A i \in 1..n : s[i] = t[p + i - 1] /\ s[i] = t[q + i - 1]
  <2>1. p \in Nat /\ q \in Nat /\ 1 <= p /\ 1 <= q
        /\ 1 <= n
    BY <1>1, <1>3
  <2>2. \A i \in 1..n : SubSeq(t, p, p + n - 1)[i] = t[p + i - 1]
    BY <1>1, <2>1, PartAt
  <2>3. \A i \in 1..n : SubSeq(t, q, q + n - 1)[i] = t[q + i - 1]
    BY <1>1, <2>1, PartAt
  <2>4. QED
    BY <1>1, <2>2, <2>3
<1>. DEFINE head == SubSeq(s, 1, k)
            tail == SubSeq(s, n - k + 1, n)
<1>5. /\ k \in Nat /\ 1 \in Nat /\ k <= n /\ n - k + 1 \in Nat
      /\ 1 <= n - k + 1 /\ n <= n /\ n - (n - k + 1) + 1 = k /\ k - 1 + 1 = k
      /\ 1 <= k /\ n - k + 1 <= n
  BY <1>1, <1>3
<1>6. head \in Text /\ Len(head) = k /\ \A i \in 1..k : head[i] = s[1 + i - 1]
  BY <1>5, Part DEF n
<1>7. /\ tail \in Text /\ Len(tail) = k
      /\ \A i \in 1..k : tail[i] = s[(n - k + 1) + i - 1]
  BY <1>1, <1>5, Part DEF n
<1>. HIDE DEF head, tail
<1>8. \A i \in 1..k : head[i] = tail[i]
  <2>. SUFFICES ASSUME NEW i \in 1..k PROVE head[i] = tail[i]
    OBVIOUS
  <2>1. /\ 1 + i - 1 = i /\ i \in 1..n /\ (n - k + 1) + i - 1 \in 1..n
        /\ p + ((n - k + 1) + i - 1) - 1 = q + i - 1
    BY <1>1, <1>3
  <2>2. head[i] = t[q + i - 1]
    BY <1>4, <1>6, <2>1
  <2>3. tail[i] = t[p + ((n - k + 1) + i - 1) - 1]
    BY <1>4, <1>7, <2>1
  <2>4. QED
    BY <2>1, <2>2, <2>3
<1>9. head = tail
  BY <1>6, <1>7, <1>8, SeqEqual DEF Text
<1>10. QED
  BY <1>3, <1>9 DEF Overlaps, n, head, tail

\* What a count at position i knows: nothing found, something found, and of
\* one that was found where it stands.
Counts == [n : Nat, next : Nat]

Found(t, s, i, c) ==
  /\ c \in Counts
  /\ c.n = 0 => c.next = 1 /\ \A p \in Places(t, s) : i < p
  /\ c.n # 0 => Places(t, s) # {}
  /\ c.n = 1 => \/ Overlaps(s)
                \/ \E p \in Places(t, s) :
                     /\ p <= i /\ c.next = p + Len(s)
                     /\ \A q \in Places(t, s) : q <= i => q = p

\* One position on.
Scanned(t, s, i, c) ==
  IF i >= c.next /\ At(t, s, i) THEN [n |-> c.n + 1, next |-> i + Len(s)] ELSE c

Scans(t, s, f) ==
  f = [i \in 0..Len(t) |->
         IF i = 0 THEN [n |-> 0, next |-> 1] ELSE Scanned(t, s, i, f[i - 1])]

LEMMA FoundOn ==
  ASSUME NEW t \in Text, NEW s \in Text, NEW i \in 1..Len(t),
         NEW c, Found(t, s, i - 1, c)
  PROVE  Found(t, s, i, Scanned(t, s, i, c))
<1>1. /\ Len(t) \in Nat /\ Len(s) \in Nat /\ i \in Nat
      /\ c.n \in Nat /\ c.next \in Nat /\ c \in Counts
      /\ Places(t, s) \subseteq 1..Len(t)
  BY LenProperties DEF Text, Found, Counts, Places
<1>2. i \in Places(t, s) <=> At(t, s, i)
  BY DEF Places
<1>3. CASE i >= c.next /\ At(t, s, i)
  <2>. DEFINE d == [n |-> c.n + 1, next |-> i + Len(s)]
  <2>1. d \in Counts /\ d.n = c.n + 1 /\ d.next = i + Len(s) /\ d.n # 0
    BY <1>1 DEF Counts
  <2>2. i \in Places(t, s)
    BY <1>2, <1>3
  <2>. HIDE DEF d
  <2>3. ASSUME d.n = 1 PROVE \A q \in Places(t, s) : q <= i => q = i
    <3>1. c.n = 0
      BY <1>1, <2>1, <2>3
    <3>2. \A q \in Places(t, s) : i - 1 < q
      BY <3>1 DEF Found
    <3>3. QED
      BY <1>1, <3>2
  <2>4. Found(t, s, i, d)
    BY <1>1, <2>1, <2>2, <2>3 DEF Found
  <2>5. QED
    BY <1>3, <2>4 DEF Scanned, d
<1>4. CASE ~(i >= c.next /\ At(t, s, i))
  <2>1. ASSUME c.n = 0 PROVE c.next = 1 /\ \A p \in Places(t, s) : i < p
    <3>1. c.next = 1 /\ \A p \in Places(t, s) : i - 1 < p
      BY <2>1 DEF Found
    <3>2. i \notin Places(t, s)
      BY <1>1, <1>2, <1>4, <3>1
    <3>3. QED
      BY <1>1, <3>1, <3>2
  <2>2. ASSUME c.n = 1, ~Overlaps(s)
        PROVE  \E p \in Places(t, s) :
                 /\ p <= i /\ c.next = p + Len(s)
                 /\ \A q \in Places(t, s) : q <= i => q = p
    <3>1. PICK p \in Places(t, s) :
            /\ p <= i - 1 /\ c.next = p + Len(s)
            /\ \A q \in Places(t, s) : q <= i - 1 => q = p
      BY <2>2 DEF Found
    <3>2. i \notin Places(t, s)
      <4>1. SUFFICES ASSUME i \in Places(t, s) PROVE FALSE
        OBVIOUS
      <4>2. i < p + Len(s) /\ p < i
        BY <1>1, <1>2, <1>4, <3>1, <4>1
      <4>3. QED
        BY <2>2, <4>1, <4>2, Overlapping
    <3>3. p <= i /\ \A q \in Places(t, s) : q <= i => q <= i - 1
      BY <1>1, <3>1, <3>2
    <3>4. QED
      BY <3>1, <3>3
  <2>3. Found(t, s, i, c)
    BY <1>1, <2>1, <2>2 DEF Found
  <2>4. QED
    BY <1>4, <2>3 DEF Scanned
<1>5. QED
  BY <1>3, <1>4
LEMMA CountExists ==
  ASSUME NEW t \in Text, NEW s \in Text
  PROVE  Scans(t, s, Scan(t, s))
<1>1. Len(t) \in Nat /\ Len(s) \in Nat
  BY LenProperties DEF Text
<1>. DEFINE first == [n |-> 0, next |-> 1]
            step == [i \in 1..Len(t) |-> [c \in Counts |-> Scanned(t, s, i, c)]]
<1>2. first \in Counts
  BY DEF Counts
<1>3. step \in [1..Len(t) -> [Counts -> Counts]]
  <2>1. ASSUME NEW i \in 1..Len(t), NEW c \in Counts
        PROVE  Scanned(t, s, i, c) \in Counts
    BY <1>1 DEF Scanned, Counts
  <2>2. QED
    BY <2>1
<1>4. PICK f \in [0..Len(t) -> Counts] :
        f[0] = first /\ \A i \in 1..Len(t) : f[i] = step[i][f[i - 1]]
  <2>. HIDE DEF first, step
  <2>1. PICK f : Follow(Len(t), Counts, first, step, f)
    BY <1>1, <1>2, <1>3, Recursion
  <2>2. QED
    BY <2>1 DEF Follow
<1>5. ASSUME NEW i \in 1..Len(t) PROVE f[i] = Scanned(t, s, i, f[i - 1])
  <2>1. i - 1 \in 0..Len(t)
    BY <1>1
  <2>2. f[i - 1] \in Counts
    BY <1>4, <2>1
  <2>3. QED
    BY <1>4, <2>2
<1>6. Scans(t, s, f)
  <2>1. ASSUME NEW i \in 0..Len(t)
        PROVE  f[i] = IF i = 0 THEN first ELSE Scanned(t, s, i, f[i - 1])
    BY <1>1, <1>4, <1>5
  <2>2. f = [i \in 0..Len(t) |-> f[i]]
    BY <1>4
  <2>3. QED
    BY <2>1, <2>2 DEF Scans
<1>7. Scan(t, s) = CHOOSE g : Scans(t, s, g)
  BY DEF Scan, Scans, Scanned
<1>8. QED
  BY <1>6, <1>7

\* A search that does not overlap and counts once stands in one place; one
\* that counts at all stands somewhere.
LEMMA CountFinds ==
  ASSUME NEW t \in Text, NEW s \in Text
  PROVE  /\ Count(t, s) \in Nat
         /\ Count(t, s) # 0 => Places(t, s) # {}
         /\ Count(t, s) = 1 =>
              Overlaps(s) \/ \E p \in Places(t, s) : Places(t, s) = {p}
<1>. DEFINE w == Scan(t, s)
            Good == {i \in 0..Len(t) : Found(t, s, i, w[i])}
<1>1. Len(t) \in Nat /\ Places(t, s) \subseteq 1..Len(t)
  BY LenProperties DEF Text, Places
<1>2. Scans(t, s, w)
  BY CountExists
<1>. HIDE DEF w
<1>3. w[0] = [n |-> 0, next |-> 1]
  BY <1>1, <1>2 DEF Scans
<1>4. 0 \in Good
  <2>1. /\ w[0].n = 0 /\ w[0].next = 1 /\ w[0] \in Counts
    BY <1>3 DEF Counts
  <2>2. \A p \in Places(t, s) : 0 < p
    BY <1>1
  <2>3. Found(t, s, 0, w[0])
    BY <2>1, <2>2 DEF Found
  <2>4. QED
    BY <1>1, <2>3
<1>5. \A i \in 1..Len(t) : i - 1 \in Good => i \in Good
  <2>. SUFFICES ASSUME NEW i \in 1..Len(t), i - 1 \in Good PROVE i \in Good
    OBVIOUS
  <2>1. i \in 0..Len(t) /\ i # 0
    BY <1>1
  <2>2. w[i] = Scanned(t, s, i, w[i - 1])
    BY <1>2, <2>1 DEF Scans
  <2>3. QED
    BY <2>1, <2>2, FoundOn
<1>6. Len(t) \in Good
  <2>. HIDE DEF Good
  <2>1. 0..Len(t) \subseteq Good
    BY <1>1, <1>4, <1>5, UpTo
  <2>2. QED
    BY <1>1, <2>1
<1>. DEFINE c == w[Len(t)]
<1>7. Found(t, s, Len(t), c) /\ Count(t, s) = c.n
  BY <1>6 DEF Count, w
<1>. HIDE DEF c
<1>8. c.n \in Nat
  BY <1>7 DEF Found, Counts
<1>9. c.n # 0 => Places(t, s) # {}
  BY <1>7 DEF Found
<1>10. ASSUME c.n = 1, ~Overlaps(s)
       PROVE  \E p \in Places(t, s) : Places(t, s) = {p}
  <2>1. PICK p \in Places(t, s) : \A q \in Places(t, s) : q <= Len(t) => q = p
    BY <1>7, <1>10 DEF Found
  <2>2. QED
    BY <1>1, <2>1
<1>11. QED
  BY <1>7, <1>8, <1>9, <1>10

-----------------------------------------------------------------------------
(* A reply that applies: every one of its blocks did.                      *)

Block == [search : Text, replace : Text]

Edited == [text : Text, error : {"none", "not_found", "ambiguous"}]

LEMMA ReplaceTyped ==
  ASSUME NEW r \in Edited, NEW b \in Block PROVE Replace(r, b) \in Edited
<1>. DEFINE t == r.text
            s == b.search
            n == Count(t, s)
            new == ReplaceFirst(t, s, b.replace)
<1>1. t \in Text /\ s \in Text /\ b.replace \in Text
  BY DEF Edited, Block
<1>2. n \in Nat /\ (n # 0 => Places(t, s) # {})
  BY <1>1, CountFinds
<1>3. ASSUME n # 0 PROVE new \in Text
  <2>. DEFINE i == CHOOSE p \in Places(t, s) : \A q \in Places(t, s) : p <= q
  <2>1. Places(t, s) \subseteq Nat /\ Places(t, s) # {}
    BY <1>2, <1>3 DEF Places
  <2>2. i \in Places(t, s)
    BY <2>1, NatMin
  <2>3. /\ i \in 1..Len(t) /\ Len(t) \in Nat /\ Len(s) \in Nat
    BY <1>1, <2>2, LenProperties DEF Places, Text
  <2>4. new = SubSeq(t, 1, i - 1) \o b.replace \o SubSeq(t, i + Len(s), Len(t))
    BY DEF ReplaceFirst
  <2>. HIDE DEF i, new
  <2>5. SubSeq(t, 1, i - 1) \in Text
    BY <1>1, <2>3, Part
  <2>6. SubSeq(t, i + Len(s), Len(t)) \in Text
    <3>1. i + Len(s) \in Nat /\ 1 <= i + Len(s) /\ Len(t) <= Len(t)
      BY <2>3
    <3>2. QED
      BY <1>1, <2>3, <3>1, Part
  <2>7. QED
    BY <1>1, <2>4, <2>5, <2>6, ConcatProperties DEF Text
<1>. HIDE DEF n, new
<1>4. \/ Replace(r, b) = r
      \/ Replace(r, b) = [r EXCEPT !.error = "not_found"]
      \/ Replace(r, b) = [r EXCEPT !.error = "ambiguous"]
      \/ n # 0 /\ Replace(r, b) = [r EXCEPT !.text = new]
  BY DEF Replace, n, new
<1>5. QED
  BY <1>3, <1>4 DEF Edited

\* What was applied without an error counted once.
LEMMA ReplaceOnce ==
  ASSUME NEW r \in Edited, NEW b \in Block, Replace(r, b).error = "none"
  PROVE  r.error = "none" /\ Count(r.text, b.search) = 1
<1>. DEFINE n == Count(r.text, b.search)
<1>1. n \in Nat
  BY CountFinds DEF Edited, Block
<1>2. Replace(r, b) =
        CASE r.error # "none" -> r
          [] r.error = "none" /\ n = 0 -> [r EXCEPT !.error = "not_found"]
          [] r.error = "none" /\ n > 1 -> [r EXCEPT !.error = "ambiguous"]
          [] OTHER -> [r EXCEPT !.text = ReplaceFirst(r.text, b.search, b.replace)]
  BY DEF Replace
<1>. HIDE DEF n
<1>3. r.error = "none"
  BY <1>2
<1>4. n # 0 /\ ~(n > 1)
  BY <1>2, <1>3 DEF Edited
<1>5. n = 1
  BY <1>1, <1>4
<1>6. QED
  BY <1>3, <1>5 DEF n

Blockwise(reply0, i, r) ==
  IF i \in Parse(reply0) THEN Replace(r, reply0[i]) ELSE r

Applies(source0, reply0, f) ==
  f = [i \in 0..Len(reply0) |->
         IF i = 0 THEN [text |-> source0, error |-> "none"]
         ELSE Blockwise(reply0, i, f[i - 1])]
\* The text after every block: typed, and each follows from the one before.
LEMMA AppliedStepwise ==
  ASSUME NEW source0 \in Text, NEW reply0 \in Seq(Block)
  PROVE  LET a == Applied(source0, reply0)
         IN  /\ \A i \in 0..Len(reply0) : a[i] \in Edited
             /\ a[0] = [text |-> source0, error |-> "none"]
             /\ \A i \in 1..Len(reply0) : a[i] = Blockwise(reply0, i, a[i - 1])
<1>. DEFINE n == Len(reply0)
            first == [text |-> source0, error |-> "none"]
            step == [i \in 1..n |-> [r \in Edited |-> Blockwise(reply0, i, r)]]
            a == Applied(source0, reply0)
<1>1. n \in Nat /\ first \in Edited
  BY LenProperties DEF Edited
<1>2. ASSUME NEW i \in 1..n, NEW r \in Edited
      PROVE  Blockwise(reply0, i, r) \in Edited
  <2>1. reply0[i] \in Block
    BY ElementOfSeq
  <2>2. QED
    BY <2>1, ReplaceTyped DEF Blockwise
<1>3. step \in [1..n -> [Edited -> Edited]]
  BY <1>2
<1>4. PICK f \in [0..n -> Edited] :
        f[0] = first /\ \A i \in 1..n : f[i] = step[i][f[i - 1]]
  <2>. HIDE DEF first, step, n
  <2>1. PICK f : Follow(n, Edited, first, step, f)
    BY <1>1, <1>3, Recursion
  <2>2. QED
    BY <2>1 DEF Follow
<1>5. ASSUME NEW i \in 1..n PROVE f[i] = Blockwise(reply0, i, f[i - 1])
  <2>1. i - 1 \in 0..n
    BY <1>1
  <2>2. f[i - 1] \in Edited
    BY <1>4, <2>1
  <2>3. QED
    BY <1>4, <2>2
<1>6. Applies(source0, reply0, f)
  <2>1. ASSUME NEW i \in 0..n
        PROVE  f[i] = IF i = 0 THEN first ELSE Blockwise(reply0, i, f[i - 1])
    BY <1>1, <1>4, <1>5
  <2>2. f = [i \in 0..n |-> f[i]]
    BY <1>4
  <2>3. QED
    BY <2>1, <2>2 DEF Applies
<1>7. a = CHOOSE g : Applies(source0, reply0, g)
  <2>. DEFINE Body0(g) ==
        [i \in 0..n |->
           CASE i = 0 -> [text |-> source0, error |-> "none"]
             [] i > 0 /\ i \in Parse(reply0) -> Replace(g[i - 1], reply0[i])
             [] OTHER -> g[i - 1]]
  <2>1. a = CHOOSE g : g = Body0(g)
    BY DEF Applied
  <2>2. ASSUME NEW g PROVE Applies(source0, reply0, g) <=> g = Body0(g)
    <3>1. \A i \in 0..n : i = 0 \/ (i > 0 /\ i # 0)
      BY <1>1
    <3>2. ASSUME NEW i \in 0..n
          PROVE  (IF i = 0 THEN [text |-> source0, error |-> "none"]
                  ELSE Blockwise(reply0, i, g[i - 1])) =
                 (CASE i = 0 -> [text |-> source0, error |-> "none"]
                    [] i > 0 /\ i \in Parse(reply0) -> Replace(g[i - 1], reply0[i])
                    [] OTHER -> g[i - 1])
      BY <3>1 DEF Blockwise
    <3>3. QED
      BY <3>2 DEF Applies
  <2>. HIDE DEF Body0
  <2>3. QED
    BY <2>1, <2>2
<1>8. Applies(source0, reply0, a)
  BY <1>6, <1>7
<1>. HIDE DEF a
<1>9. a[0] = first
  BY <1>1, <1>8 DEF Applies
<1>10. ASSUME NEW i \in 1..n PROVE a[i] = Blockwise(reply0, i, a[i - 1])
  <2>1. i \in 0..n /\ i # 0
    BY <1>1
  <2>2. QED
    BY <1>8, <2>1 DEF Applies
<1>. DEFINE Good == {i \in 0..n : a[i] \in Edited}
<1>11. 0 \in Good
  BY <1>1, <1>9
<1>12. \A i \in 1..n : i - 1 \in Good => i \in Good
  <2>. SUFFICES ASSUME NEW i \in 1..n, i - 1 \in Good PROVE i \in Good
    OBVIOUS
  <2>1. i \in 0..n
    BY <1>1
  <2>2. QED
    BY <1>2, <1>10, <2>1
<1>13. 0..n \subseteq Good
  <2>. HIDE DEF Good, n
  <2>1. QED
    BY <1>1, <1>11, <1>12, UpTo
<1>14. \A i \in 0..n : a[i] \in Edited
  BY <1>13
<1>15. QED
  BY <1>9, <1>10, <1>14 DEF a

\* Once there is an error it stays: without one at the end, every block of
\* the reply was applied without one.
LEMMA NoErrorBefore ==
  ASSUME NEW source0 \in Text, NEW reply0 \in Seq(Block),
         Applied(source0, reply0)[Len(reply0)].error = "none",
         NEW k \in 1..Len(reply0)
  PROVE  Applied(source0, reply0)[k].error = "none"
<1>. DEFINE n == Len(reply0)
            a == Applied(source0, reply0)
            Fails(i) == a[i].error # "none"
<1>1. n \in Nat
  BY LenProperties
<1>2. ASSUME NEW i \in 1..n, Fails(i - 1) PROVE Fails(i)
  <2>1. a[i] = Blockwise(reply0, i, a[i - 1]) /\ a[i - 1] \in Edited
    <3>1. i - 1 \in 0..n
      BY <1>1
    <3>2. QED
      BY <3>1, AppliedStepwise
  <2>2. reply0[i] \in Block
    BY ElementOfSeq
  <2>. DEFINE r == a[i - 1]
  <2>3. r \in Edited /\ r.error # "none" /\ a[i] = Blockwise(reply0, i, r)
    BY <1>2, <2>1
  <2>. HIDE DEF r, a
  <2>4. a[i] = r
    BY <2>3 DEF Blockwise, Replace
  <2>5. QED
    BY <2>3, <2>4
<1>. HIDE DEF Fails
<1>3. SUFFICES ASSUME Fails(k) PROVE FALSE
  BY DEF Fails
<1>. DEFINE Good == {i \in 0..n : k <= i => Fails(i)}
<1>4. 0 \in Good
  BY <1>1
<1>5. \A i \in 1..n : i - 1 \in Good => i \in Good
  <2>. SUFFICES ASSUME NEW i \in 1..n, i - 1 \in Good PROVE i \in Good
    OBVIOUS
  <2>1. i \in 0..n /\ (k <= i => k <= i - 1 \/ k = i)
    BY <1>1
  <2>2. k <= i => Fails(i)
    BY <1>2, <1>3, <2>1
  <2>3. QED
    BY <2>1, <2>2
<1>6. 0..n \subseteq Good
  <2>. HIDE DEF Good, n
  <2>1. QED
    BY <1>1, <1>4, <1>5, UpTo
<1>7. Fails(n)
  BY <1>1, <1>6
<1>8. QED
  BY <1>7 DEF Fails
\* A reply that applies changes the text, without an error in any block.
LEMMA AppliedCleanly ==
  ASSUME NEW source0, NEW reply0, Apply(source0, reply0).error = "none"
  PROVE  /\ reply0 # NotText
         /\ Applied(source0, reply0)[Len(reply0)].error = "none"
         /\ Apply(source0, reply0).text # source0
<1>. DEFINE r == Applied(source0, reply0)[Len(reply0)]
            Wrong(e) == [text |-> source0, error |-> e]
<1>1. \A e : Wrong(e).error = e
  OBVIOUS
<1>2. reply0 # NotText
  BY DEF Apply
<1>3. Apply(source0, reply0) =
        CASE Parse(reply0) = {} -> Wrong("no_blocks")
          [] Parse(reply0) # {} /\ r.error # "none" -> Wrong(r.error)
          [] Parse(reply0) # {} /\ r.text = source0 -> Wrong("unchanged")
          [] OTHER -> r
  BY <1>2 DEF Apply
<1>. HIDE DEF r, Wrong
<1>4. /\ Apply(source0, reply0) # Wrong("no_blocks")
      /\ Apply(source0, reply0) # Wrong("unchanged")
      /\ r.error # "none" => Apply(source0, reply0) # Wrong(r.error)
  BY <1>1
<1>5. Parse(reply0) # {} /\ r.error = "none"
  <2>1. Parse(reply0) # {}
    BY <1>3, <1>4
  <2>2. ASSUME r.error # "none", r.text = source0 PROVE FALSE
    BY <1>3, <1>4, <2>1, <2>2
  <2>3. ASSUME r.error # "none", r.text # source0 PROVE FALSE
    BY <1>3, <1>4, <2>1, <2>3
  <2>4. QED
    BY <2>1, <2>2, <2>3
<1>6. r.text # source0 /\ Apply(source0, reply0) = r
  BY <1>3, <1>4, <1>5
<1>7. QED
  BY <1>2, <1>5, <1>6 DEF r

EditInv ==
  /\ source \in Sources
  /\ \/ reply = <<>>
     \/ /\ reply \in Replies
        /\ Apply(source, reply).error = "none"
        /\ text = Apply(source, reply).text

LEMMA EditSteps == ASSUME EditInv, [Next]_vars PROVE EditInv'
<1>1. CASE Patch
  BY <1>1 DEF Patch, EditInv
<1>2. CASE UNCHANGED <<source, reply, text>>
  BY <1>2 DEF EditInv
<1>3. QED
  BY <1>1, <1>2
     DEF Next, vars, ReproduceRaises, Reproduce, TargetFrozen, LoopRun,
         LoopRollback, VoidBeforeRun, WallHolds, VerifyRun, Rollback, Conclude,
         Touch, Restore

\* No patch is put in an arbitrary one of several places: every block of a
\* reply that was applied, to the text as the blocks before it left it, named
\* one place, or a search that overlaps a copy of itself (edit.py:115-155).
THEOREM EditsAreLocated == Spec => []EditIsLocated
<1>1. Init => EditInv
  BY DEF Init, EditInv
<1>2. EditInv => EditIsLocated
  <2>. SUFFICES ASSUME EditInv, reply # <<>>
                PROVE  /\ text # source
                       /\ \A i \in Parse(reply) :
                            LET s == reply[i].search
                                b == Before(source, reply, i)
                            IN  Overlaps(s) \/ \E p \in Places(b, s) :
                                                 Places(b, s) = {p}
    BY DEF EditIsLocated
  <2>1. /\ reply # NotText /\ text # source
        /\ Applied(source, reply)[Len(reply)].error = "none"
    BY AppliedCleanly DEF EditInv
  <2>2. source \in Text /\ reply \in Seq(Block)
    BY <2>1, VerdictAssumption DEF EditInv, Text, Block
  <2>3. ASSUME NEW i \in Parse(reply)
        PROVE  Count(Before(source, reply, i), reply[i].search) = 1
    <3>1. i \in 1..Len(reply) /\ Len(reply) \in Nat
      BY <2>2, LenProperties DEF Parse
    <3>2. i - 1 \in 0..Len(reply)
      BY <3>1
    <3>. DEFINE r == Applied(source, reply)[i - 1]
    <3>3. /\ r \in Edited /\ reply[i] \in Block
          /\ Applied(source, reply)[i] = Replace(r, reply[i])
      BY <2>2, <3>1, <3>2, AppliedStepwise, ElementOfSeq DEF Blockwise
    <3>4. Applied(source, reply)[i].error = "none"
      BY <2>1, <2>2, <3>1, NoErrorBefore
    <3>5. Count(r.text, reply[i].search) = 1
      <4>. HIDE DEF r
      <4>1. QED
        BY <3>3, <3>4, ReplaceOnce
    <3>6. QED
      BY <3>5 DEF Before
  <2>4. ASSUME NEW i \in Parse(reply)
        PROVE  Before(source, reply, i) \in Text /\ reply[i].search \in Text
    <3>1. i \in 1..Len(reply) /\ Len(reply) \in Nat
      BY <2>2, LenProperties DEF Parse
    <3>2. i - 1 \in 0..Len(reply)
      BY <3>1
    <3>3. Applied(source, reply)[i - 1] \in Edited /\ reply[i] \in Block
      BY <2>2, <3>1, <3>2, AppliedStepwise, ElementOfSeq
    <3>4. QED
      BY <3>3 DEF Before, Edited, Block
  <2>5. QED
    BY <2>1, <2>3, <2>4, CountFinds
<1>3. QED
  BY <1>1, <1>2, EditSteps, PTL DEF Spec
=============================================================================
