----------------------------- MODULE Templates -----------------------------
(***************************************************************************)
(* The template builder and the one template name it builds: a tag in the  *)
(* local image registry, which anybody can move or remove, and a row in    *)
(* pod_templates with the digest that was seen at build time.              *)
(* An image is known by its digest and by how far it is set up.            *)
(***************************************************************************)
EXTENDS Integers, Sequences

CONSTANTS
  Builders,   \* processes of build_one_template.py
  Setups,     \* how far a container is set up
  TagSetups,  \* those a recipe, or anybody, puts behind the tag
  Bare,       \* the setup of a base image
  Warm,       \* setups the template's verification command accepts
  MaxImages   \* bound: images ever made for the tag

ASSUME TemplatesAssumption ==
  /\ Bare \in Setups /\ Warm \subseteq Setups /\ TagSetups \subseteq Setups
  /\ MaxImages \in Nat

VARIABLES
  tag,      \* the image behind patchwing-template:<name>, or NoImage
  images,   \* the setups of the images ever behind the tag, by digest
  row,      \* the pod_templates row, or NoRow
  builder,  \* where each builder is
  verified, \* history: digests whose fresh pod passed the verification
  leaked,   \* history: a builder died or lost a race, podman failed it, or
            \* an image came from outside before there was a row
  raced     \* history: an image was put behind the tag after a builder read
            \* the digest there and before its verification pod was made

registry == <<tag, images, row, builder, verified, leaked, raced>>

NoImage == [digest |-> 0, setup |-> Bare]
NoRow == [digest |-> 0, ok |-> FALSE]
AtRest == [pc |-> "idle", digest |-> 0]

RegistryInit ==
  /\ tag = NoImage
  /\ images = <<>>
  /\ row = NoRow
  /\ builder = [b \in Builders |-> AtRest]
  /\ verified = {}
  /\ leaked = FALSE
  /\ raced = FALSE

At(b, pc) == builder[b].pc = pc
Move(b, pc) == builder' = [builder EXCEPT ![b].pc = pc]
GiveUpBuild(b) == builder' = [builder EXCEPT ![b] = AtRest]

\* The precheck refuses a name that has a row.
StartBuild(b) ==
  /\ At(b, "idle") /\ Len(images) < MaxImages
  /\ row = NoRow
  /\ Move(b, "building")
  /\ UNCHANGED <<tag, images, row, verified, leaked, raced>>

\* The pod cannot be made, a recipe step fails, or it declares no check.
RecipeFails(b) ==
  /\ At(b, "building")
  /\ GiveUpBuild(b)
  /\ UNCHANGED <<tag, images, row, verified, leaked, raced>>

\* The tag is mutable: it goes to another image whoever has looked at it.
PointTag(digest, setup) ==
  /\ tag' = [digest |-> digest, setup |-> setup]
  /\ raced' = (raced \/ \E b \in Builders : At(b, "verify"))

\* podman commit moves the tag to a new image.
PutImage(setup) ==
  /\ Len(images) < MaxImages
  /\ images' = Append(images, setup)
  /\ PointTag(Len(images) + 1, setup)

CommitBuild(b) ==
  /\ At(b, "building")
  /\ \E setup \in TagSetups : PutImage(setup)
  /\ Move(b, "inspect")
  /\ UNCHANGED <<row, verified, leaked>>

\* A commit that times out or fails raises ProvisionCommitFailed, which no
\* handler of build_template names; the image may be there all the same.
CommitRaises(b) ==
  /\ At(b, "building")
  /\ \/ \E setup \in TagSetups : PutImage(setup)
     \/ UNCHANGED <<tag, images, raced>>
  /\ GiveUpBuild(b)
  /\ leaked' = TRUE
  /\ UNCHANGED <<row, verified>>

\* Mutant: the failure paths forget the image.
LeaveImage == UNCHANGED tag

\* _remove_image: whatever is behind the tag by now.
RemoveImage == tag' = NoImage

\* It is best effort: podman may refuse or time out.
DropImage ==
  \/ RemoveImage /\ UNCHANGED leaked
  \/ UNCHANGED tag /\ leaked' = TRUE

Inspect(b) ==
  /\ At(b, "inspect")
  /\ tag # NoImage
  /\ builder' = [builder EXCEPT ![b] = [pc |-> "verify", digest |-> tag.digest]]
  /\ UNCHANGED <<tag, images, row, verified, leaked, raced>>

InspectFails(b) ==
  /\ At(b, "inspect")
  /\ DropImage
  /\ GiveUpBuild(b)
  /\ UNCHANGED <<images, row, verified, raced>>

\* Mutant: any output is accepted.
AnyOutput == TRUE

\* A fresh pod from the tag prints what the template expects.
OutputMatches == tag.setup \in Warm

Verify(b) ==
  /\ At(b, "verify")
  /\ tag # NoImage /\ OutputMatches
  /\ verified' = IF tag.setup \in Warm THEN verified \cup {tag.digest}
                 ELSE verified
  /\ Move(b, "persist")
  /\ UNCHANGED <<tag, images, row, leaked, raced>>

\* No pod, no output, or not the expected one.
VerifyFails(b) ==
  /\ At(b, "verify")
  /\ DropImage
  /\ GiveUpBuild(b)
  /\ UNCHANGED <<images, row, verified, raced>>

\* The name is unique in the table: a second builder's row is refused, and
\* its image stays behind the tag.
Persist(b) ==
  /\ At(b, "persist")
  /\ IF row = NoRow
     THEN /\ row' = [digest |-> builder[b].digest, ok |-> FALSE]
          /\ Move(b, "mark")
          /\ UNCHANGED leaked
     ELSE /\ GiveUpBuild(b)
          /\ leaked' = TRUE
          /\ UNCHANGED row
  /\ UNCHANGED <<tag, images, verified, raced>>

MarkVerified(b) ==
  /\ At(b, "mark")
  /\ row' = [row EXCEPT !.ok = TRUE]
  /\ GiveUpBuild(b)
  /\ UNCHANGED <<tag, images, verified, leaked, raced>>

BuilderDies(b) ==
  /\ ~At(b, "idle")
  /\ GiveUpBuild(b)
  /\ leaked' = TRUE
  /\ UNCHANGED <<tag, images, row, verified, raced>>

\* Verify-now: the stored command in a fresh pod; the row is told, the image
\* is left alone.
VerifyNow ==
  /\ row # NoRow
  /\ row' = [row EXCEPT !.ok = tag # NoImage /\ tag.setup \in Warm]
  /\ UNCHANGED <<tag, images, builder, verified, leaked, raced>>

\* Outside the program, at any time: podman rmi; podman tag and podman build,
\* which put a new image behind the tag or an earlier one.
Prune ==
  /\ tag # NoImage
  /\ tag' = NoImage
  /\ UNCHANGED <<images, row, builder, verified, leaked, raced>>

Retag ==
  /\ \/ \E setup \in TagSetups : PutImage(setup)
     \/ \E d \in DOMAIN images : PointTag(d, images[d]) /\ UNCHANGED images
  /\ leaked' = (leaked \/ row = NoRow)
  /\ UNCHANGED <<row, builder, verified>>

RegistryNext ==
  \/ \E b \in Builders :
       \/ StartBuild(b) \/ RecipeFails(b) \/ CommitBuild(b) \/ CommitRaises(b)
       \/ Inspect(b) \/ InspectFails(b) \/ Verify(b) \/ VerifyFails(b)
       \/ Persist(b) \/ MarkVerified(b) \/ BuilderDies(b)
  \/ VerifyNow \/ Prune \/ Retag

----------------------------------------------------------------------------
Image == [digest : 0..MaxImages, setup : Setups]

RegistryTypeOK ==
  /\ tag \in Image
  /\ images \in Seq(Setups) /\ Len(images) <= MaxImages
  /\ row \in [digest : 0..MaxImages, ok : BOOLEAN]
  /\ builder \in [Builders -> [pc : {"idle", "building", "inspect", "verify",
                                     "persist", "mark"},
                               digest : 0..MaxImages]]
  /\ verified \subseteq 1..MaxImages
  /\ {leaked, raced} \subseteq BOOLEAN

\* "Verify recipe works in a FRESH pod from the committed image" before the
\* row is inserted (template_builder.py:397-435): the digest a row names, with
\* any number of builders and however images come and go, is one whose fresh
\* pod passed, unless an image was put behind the tag between the inspection
\* that read the digest and the pod that was made from the same tag.
RowIsVerified == row # NoRow => raced \/ row.digest \in verified

\* "we never leave an orphaned tag without a row" (template_builder.py:60-65,
\* 288-290): a failing build takes its image with it, unless its process or
\* podman failed, it lost a race, or the image was never a builder's.
NoOrphanTag ==
  tag # NoImage /\ row = NoRow /\ (\A b \in Builders : At(b, "idle"))
    => leaked
=============================================================================
