------------------------------ MODULE Verdict -------------------------------
(***************************************************************************)
(* How one finding's bug is judged, from the reproducer's first run to the *)
(* verdict: reproduce reads an output, checks the command and freezes the  *)
(* identity, the rules and the hashes (the reproducer_lock); patch applies *)
(* the model's edit and may test it in the loop; verify compares hashes,   *)
(* reads the patched run, reverts and reads again.  The wall, the          *)
(* classifier and the edit blocks are the modules this one extends.        *)
(*                                                                         *)
(* Builds, tests, retries and parked findings are in Pipeline and FixLoop. *)
(* A program is assumed to answer alike each time it runs on the same text *)
(* with the same reproducer; a reproducer that was written to may say      *)
(* anything.  Between any two steps the patched program or its build may   *)
(* write to a file, or put back what it has written over.                  *)
(***************************************************************************)
EXTENDS Edit, Reading, Wall

CONSTANTS
  Specs,         \* specs that a finding can have at reproduce
  Outputs,       \* function: per kind, runs [lines, code, late] of a program
  Sources,       \* texts of the file to patch
  Replies,       \* replies of the model: sequences of blocks, or NotText
  NoRun          \* nothing has run at this leg

\* The fields of a spec that a verdict depends on, with what the model adds:
\* who wrote it, what the command runs, and which files of the pod may be
\* missing or written to.
SpecFields ==
  {"author", "kind", "command", "runs", "reproducer", "suite", "target",
   "compat", "ingestCompat", "mayMiss", "mayTouch", "rules", "green",
   "negative"}

\* A path in the segment that decides is the file the command runs.
RunsWhatItNames(s) ==
  LET last == s.command[Len(s.command)]
  IN  s.command # <<>> =>
        \A i \in DOMAIN last : last[i].t = "path" => last[i].base = Base[s.runs]

\* No pattern is the name of a kind of line, which stands for marker text.
ASSUME VerdictAssumption ==
  /\ \A s \in Specs :
       /\ DOMAIN s = SpecFields
       /\ s.kind \in {"sanitizer", "http"}
       /\ s.reproducer \cup s.suite \cup {s.runs, s.target} \subseteq Files
       /\ RunsWhatItNames(s)
       /\ \A r \in s.rules : r.pattern \notin LineKinds
  /\ \A k \in {"sanitizer", "http"} :
       /\ NoRun \notin Outputs[k]
       /\ \A run \in Outputs[k] :
            run.lines \in Seq([k : LineKinds, n : STRING, v : STRING])
  /\ Sources \subseteq Seq(STRING)
  /\ \A p \in Replies \ {NotText} :
       p \in Seq([search : Seq(STRING), replace : Seq(STRING)])
  /\ Window \in Nat \ {0}

Legs == {"reproduce", "loop", "loop_rollback", "verify", "rollback"}

Steps == Legs \cup {"patch", "verify_run", "verdict", "done"}

VARIABLES
  spec,          \* the finding's spec
  source,        \* the file to patch, before any patch
  pc,            \* the next step
  reply, text,   \* the reply that was applied, and the patched text
  content,       \* contents of the pod's files: "frozen", "touched", "missing"
  lock,          \* the reproducer_lock
  out,           \* the raw output of each leg
  seen,          \* the state each leg was read as
  outcome,       \* how the finding was judged, and where
  ran,           \* history: what the script held when each leg ran it
  restored       \* history: verify compared the hashes, and since then the
                 \* script was put back to what it was frozen as

vars == <<spec, source, pc, reply, text, content, lock, out, seen, outcome,
          ran, restored>>

Open == [at |-> "none", is |-> "open"]
Proved == [at |-> "rollback", is |-> "proved"]

(***************************************************************************)
(* How a spec gets to reproduce: read from a target file at ingest, which  *)
(* always makes it an operator's (the compat flag); saved by the operator  *)
(* at localize, without that flag and otherwise unchecked; or made and     *)
(* validated by provision.                                                 *)
(***************************************************************************)
ValidHttp(s) == s.rules # {} /\ \A r \in s.rules : r.kind \in RuleKinds

By(author) == {s \in Specs : s.author = author}

LoadSpec(s) == [s EXCEPT !.compat = TRUE, !.ingestCompat = TRUE]

TargetSpecSave(s) == [s EXCEPT !.compat = FALSE]

FinalSpec(s) == [s EXCEPT !.compat = FALSE]

Stored ==
  {LoadSpec(s) : s \in By("ingest")}
  \cup {TargetSpecSave(s) : s \in By("operator")}
  \cup {FinalSpec(s) : s \in {p \in By("provision") : ValidHttp(p)}}

Init ==
  /\ spec \in Stored
  /\ source \in Sources
  /\ content \in {[f \in Files |-> IF f \in M THEN "missing" ELSE "frozen"] :
                    M \in SUBSET spec.mayMiss}
  /\ pc = "reproduce"
  /\ reply = <<>> /\ text = source
  /\ lock = NoLock
  /\ out = [l \in Legs |-> NoRun]
  /\ seen = [l \in Legs |-> "none"]
  /\ outcome = Open
  /\ ran = [l \in Legs |-> "none"] /\ restored = FALSE

End(at, is) == pc' = "done" /\ outcome' = [at |-> at, is |-> is]

(***************************************************************************)
(* What a leg sees: the loop reads the whole output, reproduce and verify  *)
(* its tail.                                                               *)
(***************************************************************************)
LoopLegs == {"loop", "loop_rollback"}

Seen(leg, run) ==
  IF leg \in LoopLegs THEN run.lines ELSE Tail8000(run.lines)

ReadingOf(leg, run) ==
  ClassifyRepro(spec, lock, run, Seen(leg, run))

Patched(leg) == leg \in {"loop", "verify"}

\* The runs that a leg can have: that of the same text with the frozen
\* reproducer, or any if there was none or the reproducer is another now.
MayRun(leg) ==
  LET same == {out[l] : l \in {k \in Legs : /\ Patched(k) = Patched(leg)
                                           /\ ran[k] = "frozen"}}
  IN  IF same = {} \/ content[spec.runs] # "frozen" THEN Outputs[spec.kind]
                                                    ELSE same

Run(leg, run) ==
  /\ run \in MayRun(leg)
  /\ ran' = [ran EXCEPT ![leg] = content[spec.runs]]
  /\ out' = [out EXCEPT ![leg] = run]
  /\ seen' = [seen EXCEPT ![leg] = ReadingOf(leg, run).state]

(***************************************************************************)
(* reproduce                                                               *)
(***************************************************************************)
\* Mutant: the lock keeps the identity and the rules, not the hashes.
LockWithoutHashes(r) ==
  [token |-> r.id, config |-> IF spec.kind = "http"
                              THEN VerdictConfig(spec, r.status) ELSE NoConfig]

\* The lock of a red reading: identity, verdict_config and hashes.
MakeLock(r) ==
  [token  |-> r.id,
   config |-> IF spec.kind = "http" THEN VerdictConfig(spec, r.status)
                                    ELSE NoConfig,
   files  |-> Freeze(spec, content)]

\* The classifier refuses to read without rules, after the run.
NoRules == spec.kind = "http" /\ spec.rules = {}

ReproduceRaises ==
  /\ pc = "reproduce" /\ NoRules
  /\ End("reproduce", "raised")
  /\ UNCHANGED <<spec, source, reply, text, content, lock, out, seen, ran,
                 restored>>

Reproduce ==
  /\ pc = "reproduce" /\ ~NoRules
  /\ \E run \in Outputs[spec.kind] :
       /\ Run("reproduce", run)
       /\ LET r == ReadingOf("reproduce", run)
              red == ~run.late /\ r.state = "red"
              end(is) == End("reproduce", is) /\ UNCHANGED lock
          IN  \/ run.late /\ end("timeout")
              \/ ~run.late /\ r.state # "red" /\ end(r.state)
              \/ red /\ ~CommandShape(spec) /\ end("command_shape_invalid")
              \/ /\ red /\ CommandShape(spec) /\ ~CanFreeze(spec, content)
                 /\ end("wall_not_established")
              \/ /\ red /\ CommandShape(spec) /\ CanFreeze(spec, content)
                 /\ pc' = "patch" /\ lock' = MakeLock(r) /\ UNCHANGED outcome
  /\ UNCHANGED <<spec, source, reply, text, content, restored>>

(***************************************************************************)
(* patch: the target may not be frozen, the reply must apply; then it is   *)
(* tested in the loop or goes to verify as it is.                          *)
(***************************************************************************)
TargetFrozen ==
  /\ pc = "patch" /\ IsProtected(spec.target, lock.files)
  /\ End("patch", "target_frozen")
  /\ UNCHANGED <<spec, source, reply, text, content, lock, out, seen, ran,
                 restored>>

Patch ==
  /\ pc = "patch" /\ ~IsProtected(spec.target, lock.files)
  /\ \E p \in Replies, next \in {"loop", "verify"} :
       LET r == Apply(source, p)
       IN  /\ r.error = "none"
           /\ reply' = p /\ text' = r.text
           /\ pc' = next
  /\ out' = [out EXCEPT !["loop"] = NoRun, !["loop_rollback"] = NoRun]
  /\ seen' = [seen EXCEPT !["loop"] = "none", !["loop_rollback"] = "none"]
  /\ ran' = [ran EXCEPT !["loop"] = "none", !["loop_rollback"] = "none"]
  /\ UNCHANGED <<spec, source, content, lock, outcome, restored>>

LoopRun ==
  /\ pc = "loop"
  /\ \E run \in Outputs[spec.kind] : Run("loop", run)
  /\ pc' = IF seen'["loop"] = "green" THEN "loop_rollback" ELSE "patch"
  /\ UNCHANGED <<spec, source, reply, text, content, lock, outcome, restored>>

\* A chain that is not proved here is fed back to the model.
LoopRollback ==
  /\ pc = "loop_rollback"
  /\ \E run \in Outputs[spec.kind] : Run("loop_rollback", run)
  /\ pc' = IF seen'["loop_rollback"] = "red" THEN "verify" ELSE "patch"
  /\ UNCHANGED <<spec, source, reply, text, content, lock, outcome, restored>>

(***************************************************************************)
(* verify: the hashes are compared; then the patched tree is built and run *)
(* and, on green, the reverted one; then the hashes are compared again     *)
(* before anything is concluded.                                           *)
(***************************************************************************)
VoidBeforeRun ==
  /\ pc = "verify" /\ Violations(lock.files, content) # {}
  /\ End("verify", "wall_violated_before_build")
  /\ UNCHANGED <<spec, source, reply, text, content, lock, out, seen, ran,
                 restored>>

WallHolds ==
  /\ pc = "verify" /\ Violations(lock.files, content) = {}
  /\ pc' = "verify_run" /\ restored' = FALSE
  /\ UNCHANGED <<spec, source, reply, text, content, lock, out, seen, outcome,
                 ran>>

VerifyRun ==
  /\ pc = "verify_run"
  /\ \E run \in Outputs[spec.kind] : Run("verify", run)
  /\ pc' = IF seen'["verify"] = "green" THEN "rollback" ELSE "verdict"
  /\ UNCHANGED <<spec, source, reply, text, content, lock, outcome, restored>>

Rollback ==
  /\ pc = "rollback"
  /\ \E run \in Outputs[spec.kind] : Run("rollback", run)
  /\ pc' = "verdict"
  /\ UNCHANGED <<spec, source, reply, text, content, lock, outcome, restored>>

Conclude ==
  /\ pc = "verdict"
  /\ LET held == Violations(lock.files, content) = {}
         late == out["verify"].late
         state == seen["verify"]
     IN  \/ ~held /\ End("verify", "wall_violated_during_execution")
         \/ held /\ late /\ End("verify", "timeout")
         \/ held /\ ~late /\ state # "green" /\ End("verify", state)
         \/ /\ held /\ ~late /\ state = "green"
            /\ End("rollback", IF seen["rollback"] = "red" THEN "proved"
                               ELSE "not_red_again")
  /\ UNCHANGED <<spec, source, reply, text, content, lock, out, seen, ran,
                 restored>>

(***************************************************************************)
(* External: the patched program or its build writes to a file of the pod, *)
(* or puts back what was there.                                            *)
(***************************************************************************)
Runs == pc \in Steps \ {"reproduce", "done"}

Touch ==
  /\ Runs
  /\ \E f \in spec.mayTouch :
       /\ content[f] = "frozen"
       /\ content' = [content EXCEPT ![f] = "touched"]
  /\ UNCHANGED <<spec, source, pc, reply, text, lock, out, seen, outcome, ran,
                 restored>>

Restore ==
  /\ Runs
  /\ \E f \in spec.mayTouch :
       /\ content[f] = "touched"
       /\ content' = [content EXCEPT ![f] = "frozen"]
       /\ restored' = (restored \/ f = spec.runs)
  /\ UNCHANGED <<spec, source, pc, reply, text, lock, out, seen, outcome, ran>>

Next ==
  \/ ReproduceRaises
  \/ Reproduce
  \/ TargetFrozen
  \/ Patch
  \/ LoopRun
  \/ LoopRollback
  \/ VoidBeforeRun
  \/ WallHolds
  \/ VerifyRun
  \/ Rollback
  \/ Conclude
  \/ Touch
  \/ Restore

Spec == Init /\ [][Next]_vars
-----------------------------------------------------------------------------
Contents == {"frozen", "touched", "missing"}

States == {"none", "red", "green", "different", "harness"}

\* Every variable has its type.
TypeOK ==
  /\ spec \in Stored
  /\ source \in Sources
  /\ pc \in Steps
  /\ reply \in Replies \cup {<<>>}
  /\ content \in [Files -> Contents]
  /\ lock = NoLock \/ DOMAIN lock = {"token", "config", "files"}
  /\ out \in [Legs -> Outputs[spec.kind] \cup {NoRun}]
  /\ seen \in [Legs -> States]
  /\ (lock = NoLock) = (pc = "reproduce" \/ outcome.at = "reproduce")
  /\ ran \in [Legs -> Contents \cup {"none"}]
  /\ restored \in BOOLEAN

-----------------------------------------------------------------------------
\* The whole output is in the tail that reproduce and verify read.
Fits(run) == Len(run.lines) <= Window

\* The first reading of the bug has an identity to compare with.
Identified ==
  /\ lock # NoLock
  /\ spec.kind = "sanitizer" =>
       DedupToken(Seen("reproduce", out["reproduce"])) # NoToken

(***************************************************************************)
(* Reverting the patch brings the bug back: a rollback leg that ran the    *)
(* frozen script is read as red again, if the crash has an identity; that  *)
(* of the loop, which reads more of an output than reproduce did, if the   *)
(* output of reproduce fits in the tail.  Writes that were undone before   *)
(* the leg ran leave no trace in it.                                       *)
(***************************************************************************)
RedAgain ==
  Identified =>
    /\ ran["rollback"] = "frozen" => seen["rollback"] = "red"
    /\ ran["loop_rollback"] = "frozen" /\ Fits(out["reproduce"])
         => seen["loop_rollback"] = "red"

\* What identifies a crash in an output, wherever it stands.
Crashes(lines) ==
  {lines[i].v : i \in {j \in DOMAIN lines : lines[j].k \in {"token", "summary"}}}

SameBug(lines, first) ==
  IF spec.kind = "sanitizer" THEN Crashes(lines) \cap Crashes(first) # {}
  ELSE /\ ParseHttp(lines).status = ParseHttp(first).status
       /\ \E r \in spec.rules : InLines(lines, r.pattern)

\* A red reading after the freeze is of the bug that reproduce saw: a crash
\* with one of its identities, or its status with the evidence of a rule.
RedIsTracked ==
  Identified =>
    \A l \in Legs : seen[l] = "red" => SameBug(Seen(l, out[l]),
                                             Seen("reproduce", out["reproduce"]))

\* A sign of the bug in an output, read without the parser: a report, or a
\* rule's pattern where the program writes what the rule looks at.
Sign(lines) ==
  IF spec.kind = "sanitizer"
  THEN \E i \in DOMAIN lines : lines[i].k \in {"error", "summary"}
  ELSE \E r \in spec.rules, i \in DOMAIN lines :
         /\ lines[i].v = r.pattern
         /\ \/ r.kind = "body" /\ lines[i].k = "text"
            \/ /\ r.kind \in {"flag", "channel"}
               /\ lines[i].k \in {"pw", "kv", "json"} /\ lines[i].n = r.name

\* A proved chain's patched run does not show the bug any more (states.py:
\* green is affirmative evidence for each rule, not silent absence).
ProvedShowsNoSign == outcome = Proved => ~Sign(out["verify"].lines)

\* The lines with a name of their own.
Named == {"pw", "kv", "json"}

\* The parser sees the whole exchange: a status line and headers up to the
\* blank line, nothing of the body behind a line that looks like a side
\* channel, and no name twice.
Plain(lines) ==
  LET blank == NextOf(lines, 1, {"blank"})
      stop  == NextOf(lines, blank, TrailerKinds)
  IN  /\ blank # 1
      /\ \A i \in 1..(blank - 1) :
           lines[i].k = (IF i = 1 THEN "status" ELSE "kv")
      /\ \A i \in stop..Len(lines) : lines[i].k \in {"pw", "kv"}
      /\ \A i, j \in DOMAIN lines :
           /\ lines[i].k \in Named /\ lines[j].k \in Named
           /\ lines[i].n = lines[j].n
           => i = j

\* The same where the output fits in what the leg reads and is laid out as
\* the parser expects: no report, no pattern, no value of a rule is missed.
GreenIsAffirmative ==
  \A l \in Legs :
    /\ seen[l] = "green"
    /\ Fits(out[l]) \/ l \in LoopLegs
    /\ spec.kind = "http" => Plain(out[l].lines)
    => ~Sign(out[l].lines)

(***************************************************************************)
(* Both runs that decide a proved chain, patched and reverted, executed    *)
(* the script that was frozen before the patch: shape check, freeze and    *)
(* the two comparisons together (stages.py: the guard that keeps the       *)
(* frozen set and the verdict-deciding command the same thing).  Builds    *)
(* and runs lie between the comparisons, so this needs that nothing put    *)
(* the script back in between; and a declared script, or a command that is *)
(* not exempt and no frozen file of another directory has its name.        *)
(***************************************************************************)
VerdictIsWalled ==
  /\ outcome = Proved /\ ~restored
  /\ \/ spec.runs \in DOMAIN lock.files
     \/ /\ ~ArvoCompat(spec)
        /\ \A f \in DOMAIN lock.files : Base[f] # Base[spec.runs]
  => ran["verify"] = "frozen" /\ ran["rollback"] = "frozen"

\* Each block that was applied named exactly one place of the text it was
\* applied to, unless its search can overlap itself, and together they
\* changed the text (edit.py: anything not exactly locatable is refused).
EditIsLocated ==
  reply # <<>> =>
    /\ text # source
    /\ \A i \in Parse(reply) :
         LET s == reply[i].search
         IN  Overlaps(s) \/ \E p \in Places(Before(source, reply, i), s) :
                              Places(Before(source, reply, i), s) = {p}

=============================================================================
