-------------------------------- MODULE Edit --------------------------------
(***************************************************************************)
(* SEARCH/REPLACE blocks (edit.py): a reply of the model is parsed into    *)
(* blocks, and each block must name exactly one place of the text as the   *)
(* blocks before it left it.  A text is a sequence of pieces, a block is   *)
(* [search, replace].                                                      *)
(***************************************************************************)
EXTENDS Integers, Sequences

\* A reply whose `edits` is a list or an object instead of a string.
CONSTANT NotText

\* s stands in text from position i on.
At(text, s, i) ==
  /\ i + Len(s) - 1 <= Len(text)
  /\ SubSeq(text, i, i + Len(s) - 1) = s

Places(text, s) == {i \in 1..Len(text) : At(text, s, i)}

\* Mutant: the first of several occurrences is taken.
CountAny(text, s) == IF Places(text, s) = {} THEN 0 ELSE 1

\* str.count: occurrences that do not overlap, taken from the left; next is
\* where the search goes on.
Scan(text, s) ==
  LET taken[i \in 0..Len(text)] ==
        IF i = 0 THEN [n |-> 0, next |-> 1]
        ELSE LET c == taken[i - 1]
             IN  IF i >= c.next /\ At(text, s, i)
                 THEN [n |-> c.n + 1, next |-> i + Len(s)]
                 ELSE c
  IN  taken

Count(text, s) == Scan(text, s)[Len(text)].n

\* str.replace(search, replace, 1), for a search that occurs.
ReplaceFirst(text, s, r) ==
  LET i == CHOOSE p \in Places(text, s) :
             \A q \in Places(text, s) : p <= q
  IN  SubSeq(text, 1, i - 1) \o r \o SubSeq(text, i + Len(s), Len(text))

\* The blocks of a reply that are parsed: an empty search drops its block.
Parse(reply) == {i \in DOMAIN reply : reply[i].search # <<>>}

\* One block on the evolving text; after an error nothing more is applied.
Replace(r, b) ==
  LET n == Count(r.text, b.search)
  IN  CASE r.error # "none" -> r
        [] r.error = "none" /\ n = 0 -> [r EXCEPT !.error = "not_found"]
        [] r.error = "none" /\ n > 1 -> [r EXCEPT !.error = "ambiguous"]
        [] OTHER -> [r EXCEPT
                       !.text = ReplaceFirst(r.text, b.search, b.replace)]

\* The text after each block of a reply.
Applied(source, reply) ==
  LET after[i \in 0..Len(reply)] ==
        CASE i = 0 -> [text |-> source, error |-> "none"]
          [] i > 0 /\ i \in Parse(reply) -> Replace(after[i - 1], reply[i])
          [] OTHER -> after[i - 1]
  IN  after

\* parse and apply: the new text, or the old one with the kind of the error.
Apply(source, reply) ==
  LET Wrong(e) == [text |-> source, error |-> e]
  IN  IF reply = NotText THEN Wrong("wrong_type")
      ELSE LET r == Applied(source, reply)[Len(reply)]
           IN  CASE Parse(reply) = {} -> Wrong("no_blocks")
                 [] Parse(reply) # {} /\ r.error # "none" -> Wrong(r.error)
                 [] Parse(reply) # {} /\ r.text = source -> Wrong("unchanged")
                 [] OTHER               -> r

\* The text before the i-th block of a reply that applies.
Before(source, reply, i) == Applied(source, reply)[i - 1].text

\* A search that can overlap a copy of itself.
Overlaps(s) == \E k \in 1..(Len(s) - 1) :
                 SubSeq(s, 1, k) = SubSeq(s, Len(s) - k + 1, Len(s))

=============================================================================
