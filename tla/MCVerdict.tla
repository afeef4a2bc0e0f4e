------------------------------ MODULE MCVerdict -----------------------------
(* Values of the constants of Verdict for TLC. *)
EXTENDS Verdict

\* script is declared; twin has its name in another directory; loose has
\* another name; src is the file to patch.
MCFiles == {"script", "twin", "loose", "src"}
MCBase == [f \in MCFiles |-> IF f = "twin" THEN "script" ELSE f]

Word(w) == [t |-> "word", base |-> w]
Path(f) == [t |-> "path", base |-> MCBase[f]]
Sh(f) == <<Word("bash"), Path(f)>>
Cd == <<Word("cd"), [t |-> "path", base |-> "opt"]>>

Posted(cmd, runs) ==
  [author |-> "operator", kind |-> "sanitizer", command |-> cmd, runs |-> runs,
   reproducer |-> {"script"}, suite |-> {}, target |-> "src",
   compat |-> FALSE, ingestCompat |-> FALSE,
   mayMiss |-> {}, mayTouch |-> {runs},
   rules |-> {}, green |-> AnyOther, negative |-> {}]

Arvo == [Posted(<<<<Word("arvo"), Word("run")>>>>, "script")
           EXCEPT !.author = "ingest"]

\* The forms a command can have, and what a spec can declare wrongly.
SanitizerSpecs ==
  {Arvo,
   Posted(<<Sh("script")>>, "script"),
   Posted(<<Cd, Sh("script")>>, "script"),
   Posted(<<Sh("twin")>>, "twin"),
   Posted(<<Sh("loose")>>, "loose"),
   Posted(<<Sh("loose"), Sh("script")>>, "script"),
   Posted(<<<<Word("bash"), [t |-> "flag", base |-> "-c"], Path("script")>>>>,
          "script"),
   Posted(<<>>, "script"),
   [Arvo EXCEPT !.command = <<Sh("loose")>>, !.runs = "loose",
                !.mayTouch = {"loose"}],
   [Arvo EXCEPT !.reproducer = {}],
   [Arvo EXCEPT !.target = "script"],
   [Arvo EXCEPT !.mayMiss = {"script"}],
   [Arvo EXCEPT !.author = "operator", !.ingestCompat = TRUE]}

Provisioned(rules, green, negative) ==
  [Posted(<<Sh("script")>>, "script") EXCEPT
     !.author = "provision", !.kind = "http", !.mayTouch = {},
     !.rules = rules, !.green = green, !.negative = negative]

Rule(k, n, p) == [kind |-> k, name |-> n, pattern |-> p]

HttpSpecs ==
  {Provisioned({Rule("body", "r", "leak")}, AnyOther, {}),
   Provisioned({Rule("body", "r", "leak")}, {"200", "403"}, {"trace"}),
   Provisioned({Rule("flag", "sc", "pwned")}, {"200"}, {}),
   Provisioned({Rule("channel", "sc", "pwned")}, AnyOther, {}),
   Provisioned({Rule("header", "h", "leak")}, {"200"}, {}),
   Provisioned({Rule("body", "r", "leak"), Rule("flag", "sc", "pwned")},
               {"200", "403"}, {}),
   Provisioned({}, AnyOther, {}),
   [Provisioned({}, AnyOther, {}) EXCEPT !.author = "operator"]}

\* A rule that looks at the body of the response.
BodySpecs == {s \in HttpSpecs : {r.kind : r \in s.rules} = {"body"}}

MCSpecs == SanitizerSpecs \cup HttpSpecs

L(k, n, v) == [k |-> k, n |-> n, v |-> v]

\* Reports with and without an identity, and other text.
Report(id) == <<L("error", "", ""), L("token", "", id), L("summary", "", id)>>
Bare == <<L("error", "", "")>>
Unnamed == <<L("error", "", ""), L("summary", "", "a")>>
Text == <<L("text", "", "done")>>
Blocks == {Report("a"), Report("b"), Bare, Unnamed, Text}

Crashing ==
  {Report("a"), Report("b"), Bare, Unnamed, Report("a") \o Report("b"),
   Report("b") \o Report("a"), Report("a") \o Text, Text \o Report("a"),
   Report("a") \o Text \o Text}

\* The exit code counts only where no report is.
SanitizerOutputs ==
  {[lines |-> ls, code |-> 0, late |-> FALSE] : ls \in Crashing \cup {Text}}
  \cup {[lines |-> Text, code |-> 1, late |-> FALSE],
        [lines |-> Report("a"), code |-> 1, late |-> TRUE]}

HttpLines ==
  {<<L("status", "", s)>> \o h \o <<L("blank", "", "")>> \o b \o t :
     s \in {"200", "403"},
     h \in {<<>>, <<L("kv", "h", "leak")>>},
     b \in {<<>>, <<L("text", "", "leak")>>, <<L("text", "", "trace")>>,
            <<L("json", "sc", "pwned")>>,
            <<L("text", "", "x"), L("kv", "css", "y"), L("text", "", "leak")>>},
     t \in {<<>>, <<L("pw", "sc", "pwned")>>, <<L("pw", "sc", "no")>>,
            <<L("kv", "other", "no")>>,
            <<L("sep", "sc", ""), L("text", "", "pwned")>>}}
  \cup {<<>>, <<L("text", "", "sc")>>}

HttpOutputs ==
  {[lines |-> ls, code |-> 0, late |-> FALSE] : ls \in HttpLines}
  \cup {[lines |-> <<L("status", "", "403"), L("blank", "", ""),
                    L("text", "", t)>>, code |-> 1, late |-> TRUE] :
           t \in {"x", "leak"}}

MCOutputs == [k \in {"sanitizer", "http"} |->
                IF k = "http" THEN HttpOutputs ELSE SanitizerOutputs]

B(s, r) == [search |-> s, replace |-> r]

MCSources == {<<"a", "b", "a", "a">>}
MCReplies ==
  {<<B(r, <<"c">>)>> : r \in {<<>>, <<"a">>, <<"b">>, <<"a", "a">>, <<"c">>}}
  \cup {<<B(<<"b">>, <<"b">>)>>,
        <<B(<<"b">>, <<"a">>), B(<<"a", "a">>, <<"c">>)>>,
        <<B(<<"b">>, <<"a">>), B(<<"a", "a", "a">>, <<"c">>)>>}
  \cup {NotText}
=============================================================================
