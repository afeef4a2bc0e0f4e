-------------------------------- MODULE Wall --------------------------------
(***************************************************************************)
(* The reproducer wall (wall.py): which commands may decide a verdict, and *)
(* the hashes of the files they run, taken before a patch exists and       *)
(* compared after it.  A command is a sequence of segments joined by &&, a *)
(* segment a sequence of tokens [t, base]: a word, a shell metacharacter,  *)
(* an inline-code flag, or a path with the name it ends in.                *)
(***************************************************************************)
EXTENDS Naturals, Sequences, SequencesExt

CONSTANTS
  Files,         \* files of the pod that a command or a patch may name
  Base           \* function: the last part of a file's path

HasMetachar(segment) ==
  \E i \in DOMAIN segment : segment[i].t \in {"meta", "flag"}

IsCdPrefix(segment) ==
  /\ Len(segment) = 2
  /\ segment[1] = [t |-> "word", base |-> "cd"]
  /\ ~HasMetachar(segment)

\* Any token that ends in the name of a frozen file counts.
ReferencesFrozen(segment, files) ==
  \E i \in DOMAIN segment :
    segment[i].t = "path" /\ \E f \in files : segment[i].base = Base[f]

\* The exemption: target.prebuilt or the origin of an operator's target file,
\* in this spec and in the one of ingest.
ArvoCompat(spec) == spec.compat /\ spec.ingestCompat

\* Mutant: the command need not name a frozen file.
ShapeWithoutName(spec) ==
  /\ spec.command # <<>>
  /\ spec.reproducer # {}

\* validate_command_shape accepts.
CommandShape(spec) ==
  LET segments == spec.command
  IN  /\ segments # <<>>
      /\ \A i \in 1..(Len(segments) - 1) : IsCdPrefix(segments[i])
      /\ \A i \in DOMAIN segments : ~HasMetachar(segments[i])
      /\ spec.reproducer # {}
      /\ \/ ArvoCompat(spec)
         \/ ReferencesFrozen(segments[Len(segments)], spec.reproducer)

\* freeze and freeze_in_sandbox: the declared files with their contents;
\* a file that cannot be hashed refuses the wall.
ProtectedFiles(spec) == spec.reproducer \cup spec.suite

CanFreeze(spec, content) ==
  \A f \in ProtectedFiles(spec) : content[f] # "missing"

Freeze(spec, content) == [f \in ProtectedFiles(spec) |-> content[f]]

\* check and check_in_sandbox: files that are gone or differ.
Violations(frozen, content) ==
  {f \in DOMAIN frozen : content[f] # frozen[f]}

IsProtected(file, frozen) == file \in DOMAIN frozen

=============================================================================
