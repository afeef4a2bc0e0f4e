------------------------------ MODULE Reading -------------------------------
(***************************************************************************)
(* The four-state classifier (states.py, http_parse.py and _classify_repro *)
(* of stages.py): what one execution of the reproducer is read as.  An     *)
(* output is a sequence of lines [k, n, v]: a kind, a name and a value.    *)
(* A pattern matches a line that has it as its name or value.  Endpoint,   *)
(* method, timings and the 32 kB limit on the body are left out: the first *)
(* two are those of the one spec a finding has from reproduce on.          *)
(***************************************************************************)
EXTENDS Naturals, Sequences

CONSTANTS
  Window,        \* lines that tail(8000) keeps of an output
  AnyOther       \* expected_green_statuses not declared

Tail8000(lines) ==
  SubSeq(lines, IF Len(lines) > Window THEN Len(lines) - Window + 1 ELSE 1,
         Len(lines))

\* The lines from position i to position j that are of one of the kinds.
Between(lines, i, j, kinds) == {lines[p] : p \in {q \in i..j : lines[q].k \in kinds}}

\* The first position from i on that holds one of the kinds, or past the end.
NextOf(lines, i, kinds) ==
  LET P == {p \in i..Len(lines) : lines[p].k \in kinds}
  IN  IF P = {} THEN Len(lines) + 1 ELSE CHOOSE p \in P : \A q \in P : p <= q

(***************************************************************************)
(* Sanitizer output: a report is an "error" line, a "token" line           *)
(* (DEDUP_TOKEN) and a "summary" line, each of which may be missing.       *)
(***************************************************************************)
\* Mutant: only the SUMMARY line marks a report.
MarkerOfSummary(lines) == \E i \in DOMAIN lines : lines[i].k = "summary"

Marker(lines) == \E i \in DOMAIN lines : lines[i].k \in {"error", "summary"}

NoToken == [by |-> "none", id |-> ""]

\* The text "(none)" that a reading reports when there is no token.
NoneText == [by |-> "text", id |-> "(none)"]

\* The first DEDUP_TOKEN, else the function and file of the first SUMMARY.
DedupToken(lines) ==
  LET token   == NextOf(lines, 1, {"token"})
      summary == NextOf(lines, 1, {"summary"})
  IN  CASE token <= Len(lines) -> [by |-> "token", id |-> lines[token].v]
        [] token > Len(lines) /\ summary <= Len(lines) ->
             [by |-> "summary", id |-> lines[summary].v]
        [] OTHER -> NoToken

\* Mutant: any crash counts as the tracked bug.
AnyCrash(run, lines, pristine) ==
  CASE run.late -> "harness"
    [] ~run.late /\ Marker(lines) -> "red"
    [] OTHER -> IF run.code = 0 THEN "green" ELSE "harness"

ClassifySanitizer(run, lines, pristine) ==
  LET token == DedupToken(lines)
  IN  CASE run.late -> "harness"
        [] ~run.late /\ Marker(lines) ->
             IF pristine = NoToken \/ (token # NoToken /\ token = pristine)
             THEN "red" ELSE "different"
        [] OTHER -> IF run.code = 0 THEN "green" ELSE "harness"

(***************************************************************************)
(* One HTTP exchange: a "status" line, header lines up to a "blank" one,   *)
(* the body, and the trailer that begins at the first line that looks like *)
(* a side channel: "pw" (#PW_SC name=value), "sep" (---NAME---) or "kv"    *)
(* (name: value).  A body that is one "json" line is a channel as well.    *)
(***************************************************************************)
TrailerKinds == {"pw", "sep", "kv"}

LineKinds == {"error", "token", "summary", "status", "blank", "text", "json",
              "pw", "sep", "kv"}

\* A line as the value of a separator: of a marker line, all of its text.
Whole(l) == IF l.k = "text" THEN l.v ELSE l.k

\* The name of the separator that waits for its value before position p.
Waiting(lines, stop) ==
  LET name[p \in stop..(Len(lines) + 1)] ==
        IF p = stop THEN ""
        ELSE LET l == lines[p - 1]
             IN  CASE l.k = "blank" -> name[p - 1]
                   [] l.k = "sep" /\ name[p - 1] = "" -> l.n
                   [] OTHER -> ""
  IN  name

\* The channels of the trailer; a separator takes the next line as its value.
Trailer(lines, stop) ==
  LET waits == Waiting(lines, stop)
      Value(p) == waits[p] # "" /\ lines[p].k # "blank"
      Named(p) == waits[p] = "" /\ lines[p].k \in {"pw", "kv"}
  IN  {[at |-> p, n |-> waits[p], v |-> Whole(lines[p])] :
         p \in {q \in stop..Len(lines) : Value(q)}}
      \cup {[at |-> p, n |-> lines[p].n, v |-> lines[p].v] :
              p \in {q \in stop..Len(lines) : Named(q)}}

ParseHttp(lines) ==
  LET h     == NextOf(lines, 1, {"status"})
      j     == NextOf(lines, h + 1, {"blank"})
      start == NextOf(lines, j, LineKinds \ {"blank"})
      stop  == NextOf(lines, start, TrailerKinds)
      text  == {p \in start..(stop - 1) : lines[p].k # "blank"}
      json  == {[at |-> p, n |-> lines[p].n, v |-> lines[p].v] :
                  p \in {q \in text : text = {q} /\ lines[q].k = "json"}}
  IN  IF h > Len(lines)
      THEN [status |-> "0", headers |-> {}, body |-> {}, channels |-> {}]
      ELSE [status   |-> lines[h].v,
            headers  |-> Between(lines, h + 1, j - 1, {"kv"}),
            body     |-> {lines[p] : p \in text},
            channels |-> json \cup Trailer(lines, stop)]

ChannelNames(ev) == {c.n : c \in ev.channels}

\* dict(side_channel): the last value under a name.
HasChannel(ev, n, v) ==
  \E c \in ev.channels :
    /\ c.n = n /\ c.v = v
    /\ \A d \in ev.channels : d.n = n => d.at <= c.at

Mentions(found, word) == \E l \in found : word \in {l.n, l.v}

InLines(lines, word) == Mentions({lines[i] : i \in DOMAIN lines}, word)

RuleKinds == {"body", "header", "flag", "channel"}

RuleHits(r, ev) ==
  CASE r.kind = "body"   -> Mentions(ev.body, r.pattern)
    [] r.kind = "header" -> Mentions(ev.headers, r.pattern)
    [] OTHER             -> HasChannel(ev, r.name, r.pattern)

Unreached(r, ev) ==
  CASE r.kind = "body"   -> ev.body = {}
    [] r.kind = "header" -> ev.headers = {}
    [] r.kind = "flag"   -> r.name \notin ChannelNames(ev)
    [] OTHER             -> ev.channels = {}

\* identity_hash_for: equal exactly when status and rules are.
HttpId(status, rules) == [status |-> status, rules |-> rules]

\* A lock without a verdict_config.
NoConfig == [id |-> "none"]

\* Mutant: the declared red status is frozen, not the one observed.
ConfigOfDeclared(spec, status) ==
  [status |-> "200", rules |-> spec.rules, id |-> HttpId("200", spec.rules),
   green |-> spec.green, negative |-> spec.negative]

\* serialize_pristine_http, as reconstruct_pristine_http reads it back.
VerdictConfig(spec, status) ==
  [status |-> status, rules |-> spec.rules, id |-> HttpId(status, spec.rules),
   green |-> spec.green, negative |-> spec.negative]

Hit(ev, rules) == \E r \in rules : RuleHits(r, ev)

ExpectedGreen(ev, config) ==
  IF config.green = AnyOther THEN ev.status # config.status
                             ELSE ev.status \in config.green

ClassifyHttp(ev, config, rules) ==
  CASE ev.status = "0" -> "harness"
    [] ev.status # "0" /\ Hit(ev, rules) ->
         IF config = NoConfig THEN "red"
         ELSE IF HttpId(ev.status, rules) = config.id THEN "red"
                                                      ELSE "different"
    [] ev.status # "0" /\ ~Hit(ev, rules) ->
         IF (\E r \in rules : Unreached(r, ev)) THEN "harness"
         ELSE IF config = NoConfig THEN "green"
         ELSE IF /\ ExpectedGreen(ev, config)
                 /\ \A w \in config.negative : ~Mentions(ev.body, w)
              THEN "green" ELSE "harness"

\* The backstop: a rule is named in the raw output and no channel has it.
ParseMiss(ev, rules, lines) ==
  \E r \in rules : InLines(lines, r.name) /\ r.name \notin ChannelNames(ev)

(***************************************************************************)
(* _classify_repro: the reading [state, id, status] of one execution; the  *)
(* lock counts once it holds an identity.                                  *)
(***************************************************************************)
\* No reproducer_lock yet.
NoLock == [token |-> NoToken]

PristineToken(lock) == lock.token

ReadHttp(spec, lock, lines) ==
  LET ev     == ParseHttp(lines)
      config == IF PristineToken(lock) = NoToken
                THEN NoConfig ELSE lock.config
      rules  == IF config = NoConfig THEN spec.rules ELSE config.rules
      state  == ClassifyHttp(ev, config, rules)
  IN  [state  |-> IF state = "green" /\ ParseMiss(ev, spec.rules, lines)
                  THEN "harness" ELSE state,
       id     |-> HttpId(ev.status, rules),
       status |-> ev.status]

ReadSanitizer(run, lock, lines) ==
  [state  |-> ClassifySanitizer(run, lines, PristineToken(lock)),
   id     |-> IF DedupToken(lines) = NoToken THEN NoneText
                                             ELSE DedupToken(lines),
   status |-> "0"]

ClassifyRepro(spec, lock, run, lines) ==
  IF spec.kind = "http" THEN ReadHttp(spec, lock, lines)
                        ELSE ReadSanitizer(run, lock, lines)

=============================================================================
