-------------------------- MODULE ProvisionProofs ---------------------------
(***************************************************************************)
(* What provision and the template builder promise, for every set of       *)
(* setups, checks and scripts and every limit on turns, streaks and runs.  *)
(***************************************************************************)
EXTENDS Provision, SequenceTheorems, TLAPS

(***************************************************************************)
(* The registry                                                            *)
(***************************************************************************)
LEMMA Limits ==
  /\ Bare \in Setups /\ Warm \subseteq Setups /\ TagSetups \subseteq Setups
  /\ MaxImages \in Nat
  /\ MaxTurns \in Nat \ {0} /\ PerTurn \in Nat \ {0}
  /\ ForceEvery \in Nat \ {0} /\ Streak \in Nat \ {0} /\ MaxRuns \in Nat \ {0}
  /\ NoScript \notin Scripts /\ Smoke \in Checks
BY TemplatesAssumption, ProvisionAssumption

\* The tag has an image that was made, as it was made.
TagKnown ==
  tag # NoImage
    => tag.digest \in DOMAIN images /\ tag.setup = images[tag.digest]

\* Only images that are set up have been verified.
WarmKnown ==
  /\ verified \subseteq DOMAIN images
  /\ \A d \in verified : images[d] \in Warm

\* A digest somebody holds is one that was read.
PlacesKnown ==
  /\ row # NoRow => row.digest # 0
  /\ \A b \in Builders :
       /\ builder[b].pc \in {"verify", "persist"} => builder[b].digest # 0
       /\ builder[b].pc = "mark" => row # NoRow

DigestsKnown == TagKnown /\ WarmKnown /\ PlacesKnown

\* A build that fails takes its image along.
TagOwned ==
  row = NoRow /\ tag # NoImage
    => \/ leaked
       \/ \E b \in Builders : builder[b].pc \in {"inspect", "verify", "persist"}

RegInv == RegistryTypeOK /\ DigestsKnown /\ TagOwned

\* Where a builder is.
Places ==
  [pc : {"idle", "building", "inspect", "verify", "persist", "mark"},
   digest : 0..MaxImages]

Rows == [digest : 0..MaxImages, ok : BOOLEAN]

LEMMA Resting == AtRest \in Places /\ AtRest.pc = "idle"
BY Limits DEF AtRest, Places

LEMMA RegInit == RegistryInit => RegInv
<1>. SUFFICES ASSUME RegistryInit PROVE RegInv
  OBVIOUS
<1>1. /\ tag = NoImage /\ images = <<>> /\ row = NoRow /\ verified = {}
      /\ leaked = FALSE /\ raced = FALSE
      /\ builder = [b \in Builders |-> AtRest]
  BY DEF RegistryInit
<1>2. RegistryTypeOK
  <2>1. tag \in Image /\ images \in Seq(Setups) /\ Len(images) <= MaxImages
    BY <1>1, Limits DEF Image, NoImage
  <2>2. row \in [digest : 0..MaxImages, ok : BOOLEAN]
    BY <1>1, Limits DEF NoRow
  <2>3. builder \in [Builders -> Places]
    BY <1>1, Resting
  <2>4. verified \subseteq 1..MaxImages /\ {leaked, raced} \subseteq BOOLEAN
    BY <1>1
  <2>5. QED
    BY <2>1, <2>2, <2>3, <2>4 DEF RegistryTypeOK, Places
<1>3. DigestsKnown /\ TagOwned
  BY <1>1 DEF DigestsKnown, TagKnown, WarmKnown, PlacesKnown, TagOwned, AtRest
<1>4. QED
  BY <1>2, <1>3 DEF RegInv

\* A step of one builder.
BuilderStep(b) ==
  \/ StartBuild(b) \/ RecipeFails(b) \/ CommitBuild(b) \/ CommitRaises(b)
  \/ Inspect(b) \/ InspectFails(b) \/ Verify(b) \/ VerifyFails(b)
  \/ Persist(b) \/ MarkVerified(b) \/ BuilderDies(b)

\* The registry as far as it is typed and known, whoever builds.
ImagesFit ==
  /\ tag \in Image /\ images \in Seq(Setups) /\ Len(images) <= MaxImages
  /\ verified \subseteq 1..MaxImages /\ {leaked, raced} \subseteq BOOLEAN
  /\ TagKnown /\ WarmKnown

LEMMA Fitting ==
  RegistryTypeOK /\ DigestsKnown
    <=> /\ ImagesFit /\ PlacesKnown
        /\ row \in Rows /\ builder \in [Builders -> Places]
BY DEF RegistryTypeOK, DigestsKnown, ImagesFit, Rows, Places

\* A new image leaves what is known of the earlier ones.
LEMMA NewImage ==
  ASSUME ImagesFit, NEW setup \in TagSetups, PutImage(setup),
         UNCHANGED verified, leaked' \in BOOLEAN
  PROVE  ImagesFit' /\ tag' # NoImage
<1>. DEFINE n == Len(images) + 1
<1>1. /\ n \in 1..MaxImages /\ setup \in Setups /\ setup = setup
      /\ images' = Append(images, setup) /\ images \in Seq(Setups)
      /\ tag' = [digest |-> n, setup |-> setup] /\ raced' \in BOOLEAN
  BY Limits DEF PutImage, PointTag, ImagesFit
<1>2. /\ images' \in Seq(Setups) /\ Len(images') = n /\ DOMAIN images' = 1..n
      /\ images'[n] = setup /\ DOMAIN images = 1..Len(images)
      /\ \A d \in DOMAIN images : d \in DOMAIN images' /\ images'[d] = images[d]
  BY <1>1
<1>3. tag' \in Image /\ tag' # NoImage
  BY <1>1, Limits DEF Image, NoImage
<1>4. TagKnown'
  BY <1>1, <1>2 DEF TagKnown
<1>5. WarmKnown'
  BY <1>2 DEF WarmKnown, ImagesFit
<1>6. QED
  BY <1>1, <1>2, <1>3, <1>4, <1>5 DEF ImagesFit

\* So does an earlier one that comes back.
LEMMA OldImage ==
  ASSUME ImagesFit, NEW d \in DOMAIN images, PointTag(d, images[d]),
         UNCHANGED <<images, verified>>, leaked' \in BOOLEAN
  PROVE  ImagesFit'
<1>1. /\ d \in 1..MaxImages /\ images[d] \in Setups
      /\ tag' = [digest |-> d, setup |-> images[d]] /\ raced' \in BOOLEAN
  BY Limits DEF PointTag, ImagesFit
<1>2. tag' \in Image /\ TagKnown'
  BY <1>1, Limits DEF Image, TagKnown
<1>3. QED
  BY <1>1, <1>2 DEF ImagesFit, WarmKnown

LEMMA NoImageFits ==
  ASSUME ImagesFit, tag' = NoImage, UNCHANGED <<images, verified, raced>>,
         leaked' \in BOOLEAN
  PROVE  ImagesFit'
BY Limits DEF ImagesFit, TagKnown, WarmKnown, NoImage, Image

\* A builder that moves leaves the others where they are.
LEMMA BuilderMoves ==
  ASSUME builder \in [Builders -> Places], NEW b \in Builders,
         NEW at \in Places, builder' = [builder EXCEPT ![b] = at]
  PROVE  /\ builder' \in [Builders -> Places]
         /\ builder'[b] = at
         /\ \A c \in Builders : c # b => builder'[c] = builder[c]
OBVIOUS

LEMMA Moving ==
  ASSUME builder \in [Builders -> Places], NEW b \in Builders,
         NEW pc \in {"building", "inspect", "verify", "persist", "mark"},
         Move(b, pc)
  PROVE  \E at \in Places : /\ builder' = [builder EXCEPT ![b] = at]
                            /\ at.pc = pc /\ at.digest = builder[b].digest
<1>. DEFINE at == [builder[b] EXCEPT !.pc = pc]
<1>1. at \in Places /\ at.pc = pc /\ at.digest = builder[b].digest
  BY DEF Places
<1>2. builder' = [builder EXCEPT ![b] = at]
  BY DEF Move
<1>3. QED
  BY <1>1, <1>2

\* What stands when one builder moves: the images still fit, what it holds it
\* has read, and an image without a row has somebody to look after it.
LEMMA OneMoves ==
  ASSUME RegInv, NEW b \in Builders, NEW at \in Places,
         builder' = [builder EXCEPT ![b] = at],
         ImagesFit', row' \in Rows,
         row # NoRow => row' # NoRow, row' # NoRow => row'.digest # 0,
         at.pc \in {"verify", "persist"} => at.digest # 0,
         at.pc = "mark" => row' # NoRow,
         \/ leaked' \/ row' # NoRow \/ tag' = NoImage
         \/ at.pc \in {"inspect", "verify", "persist"}
         \/ /\ builder[b].pc \in {"idle", "building", "mark"}
            /\ UNCHANGED <<tag, leaked, row>>
  PROVE  RegInv'
<1>1. /\ builder \in [Builders -> Places] /\ PlacesKnown /\ TagOwned
  BY Fitting DEF RegInv
<1>2. /\ builder' \in [Builders -> Places] /\ builder'[b] = at
      /\ \A c \in Builders : c # b => builder'[c] = builder[c]
  BY <1>1, BuilderMoves
<1>3. PlacesKnown'
  BY <1>1, <1>2 DEF PlacesKnown
<1>4. RegistryTypeOK' /\ DigestsKnown'
  BY <1>2, <1>3, Fitting
       DEF RegistryTypeOK, DigestsKnown, ImagesFit, Rows, Places
<1>5. TagOwned'
  BY <1>1, <1>2 DEF TagOwned
<1>6. QED
  BY <1>4, <1>5 DEF RegInv

LEMMA FitStays ==
  ASSUME ImagesFit, UNCHANGED <<tag, images, verified, raced>>,
         leaked' \in BOOLEAN
  PROVE  ImagesFit'
BY DEF ImagesFit, TagKnown, WarmKnown

LEMMA RegBuilds ==
  ASSUME RegInv, NEW b \in Builders,
         \/ StartBuild(b) \/ RecipeFails(b) \/ Inspect(b) \/ MarkVerified(b)
         \/ BuilderDies(b)
  PROVE  RegInv'
<1>0. /\ ImagesFit /\ row \in Rows /\ PlacesKnown /\ leaked \in BOOLEAN
      /\ builder \in [Builders -> Places]
      /\ row # NoRow => row.digest # 0
  BY Fitting DEF RegInv, PlacesKnown, ImagesFit
<1>1. CASE StartBuild(b)
  <2>1. builder[b].pc = "idle" /\ Move(b, "building")
        /\ UNCHANGED <<tag, images, row, verified, leaked, raced>>
    BY <1>1 DEF StartBuild, At
  <2>2. PICK at \in Places : /\ builder' = [builder EXCEPT ![b] = at]
                             /\ at.pc = "building"
    BY <1>0, <2>1, Moving
  <2>3. ImagesFit'
    BY <1>0, <2>1, FitStays
  <2>4. QED
    BY <1>0, <2>1, <2>2, <2>3, OneMoves
<1>2. CASE RecipeFails(b)
  <2>1. builder[b].pc = "building" /\ builder' = [builder EXCEPT ![b] = AtRest]
        /\ UNCHANGED <<tag, images, row, verified, leaked, raced>>
    BY <1>2 DEF RecipeFails, At, GiveUpBuild
  <2>2. ImagesFit'
    BY <1>0, <2>1, FitStays
  <2>3. QED
    BY <1>0, <2>1, <2>2, Resting, OneMoves
<1>3. CASE Inspect(b)
  <2>0. /\ tag # NoImage
        /\ builder' = [builder EXCEPT ![b] = [pc |-> "verify",
                                              digest |-> tag.digest]]
        /\ UNCHANGED <<tag, images, row, verified, leaked, raced>>
    BY <1>3 DEF Inspect
  <2>1. [pc |-> "verify", digest |-> tag.digest] \in Places /\ tag.digest # 0
    BY <1>0, <2>0 DEF ImagesFit, TagKnown, Image, Places
  <2>2. ImagesFit'
    BY <1>0, <2>0, FitStays
  <2>3. QED
    BY <1>0, <2>0, <2>1, <2>2, OneMoves
<1>4. CASE MarkVerified(b)
  <2>1. /\ builder[b].pc = "mark" /\ row' = [row EXCEPT !.ok = TRUE]
        /\ builder' = [builder EXCEPT ![b] = AtRest]
        /\ UNCHANGED <<tag, images, verified, leaked, raced>>
    BY <1>4 DEF MarkVerified, GiveUpBuild, At
  <2>a. row \in Rows /\ row.digest # 0
    BY <1>0, <2>1 DEF PlacesKnown
  <2>2. row' \in Rows /\ row' # NoRow /\ row'.digest # 0
    BY <2>1, <2>a DEF NoRow, Rows
  <2>3. ImagesFit'
    BY <1>0, <2>1, FitStays
  <2>4. QED
    BY <2>1, <2>2, <2>3, Resting, OneMoves
<1>5. CASE BuilderDies(b)
  <2>1. /\ builder' = [builder EXCEPT ![b] = AtRest] /\ leaked' = TRUE
        /\ UNCHANGED <<tag, images, row, verified, raced>>
    BY <1>5 DEF BuilderDies, GiveUpBuild
  <2>2. ImagesFit'
    BY <1>0, <2>1, FitStays
  <2>3. QED
    BY <1>0, <2>1, <2>2, Resting, OneMoves
<1>6. QED
  BY <1>1, <1>2, <1>3, <1>4, <1>5

\* A commit: the tag moves to a new image, which its builder looks after.
LEMMA RegCommits ==
  ASSUME RegInv, NEW b \in Builders, CommitBuild(b) \/ CommitRaises(b)
  PROVE  RegInv'
<1>0. /\ ImagesFit /\ row \in Rows /\ leaked \in BOOLEAN
      /\ builder \in [Builders -> Places]
      /\ row # NoRow => row.digest # 0
  BY Fitting DEF RegInv, PlacesKnown, ImagesFit
<1>1. /\ UNCHANGED <<row, verified>>
      /\ \/ \E setup \in TagSetups : PutImage(setup)
         \/ UNCHANGED <<tag, images, raced>>
      /\ \/ Move(b, "inspect") /\ UNCHANGED leaked
         \/ GiveUpBuild(b) /\ leaked' = TRUE
  BY DEF CommitBuild, CommitRaises
<1>2. PICK at \in Places : /\ builder' = [builder EXCEPT ![b] = at]
                           /\ \/ at.pc = "inspect" /\ UNCHANGED leaked
                              \/ at.pc = "idle" /\ leaked' = TRUE
  BY <1>0, <1>1, Moving, Resting DEF GiveUpBuild
<1>3. ImagesFit'
  BY <1>0, <1>1, <1>2, NewImage, FitStays
<1>4. QED
  BY <1>0, <1>1, <1>2, <1>3, OneMoves

\* A failure takes the image away, or podman refuses.
LEMMA RegDrops ==
  ASSUME RegInv, NEW b \in Builders, InspectFails(b) \/ VerifyFails(b)
  PROVE  RegInv'
<1>0. /\ ImagesFit /\ row \in Rows /\ leaked \in BOOLEAN
      /\ row # NoRow => row.digest # 0
  BY Fitting DEF RegInv, PlacesKnown, ImagesFit
<1>1. /\ UNCHANGED <<images, row, verified, raced>>
      /\ builder' = [builder EXCEPT ![b] = AtRest]
      /\ \/ tag' = NoImage /\ leaked' = leaked
         \/ tag' = tag /\ leaked' = TRUE
  BY DEF InspectFails, VerifyFails, DropImage, RemoveImage, GiveUpBuild
<1>2. ImagesFit'
  BY <1>0, <1>1, NoImageFits, FitStays
<1>3. QED
  BY <1>0, <1>1, <1>2, Resting, OneMoves

LEMMA RegVerifies ==
  ASSUME RegInv, NEW b \in Builders, Verify(b) \/ Persist(b)
  PROVE  RegInv'
<1>0. /\ ImagesFit /\ row \in Rows /\ PlacesKnown /\ leaked \in BOOLEAN
      /\ builder \in [Builders -> Places]
      /\ row # NoRow => row.digest # 0
  BY Fitting DEF RegInv, PlacesKnown, ImagesFit
<1>1. CASE Verify(b)
  <2>1. /\ tag # NoImage /\ builder[b].pc = "verify" /\ Move(b, "persist")
        /\ verified' = IF tag.setup \in Warm THEN verified \cup {tag.digest}
                       ELSE verified
        /\ UNCHANGED <<tag, images, row, leaked, raced>>
    BY <1>1 DEF Verify, At
  <2>2. PICK at \in Places : /\ builder' = [builder EXCEPT ![b] = at]
                             /\ at.pc = "persist"
                             /\ at.digest = builder[b].digest
    BY <1>0, <2>1, Moving
  <2>3. builder[b].digest # 0
    BY <1>0, <2>1 DEF PlacesKnown
  <2>4. /\ tag.digest \in DOMAIN images /\ tag.digest \in 1..MaxImages
        /\ tag.setup = images[tag.digest]
    BY <1>0, <2>1, Limits DEF ImagesFit, TagKnown
  <2>5. ImagesFit'
    BY <1>0, <2>1, <2>4 DEF ImagesFit, TagKnown, WarmKnown
  <2>6. QED
    BY <1>0, <2>1, <2>2, <2>3, <2>5, OneMoves
<1>2. CASE Persist(b)
  <2>1. /\ UNCHANGED <<tag, images, verified, raced>>
        /\ builder[b].pc = "persist"
        /\ \/ /\ row' = [digest |-> builder[b].digest, ok |-> FALSE]
              /\ Move(b, "mark") /\ UNCHANGED leaked
           \/ /\ row # NoRow /\ UNCHANGED row /\ GiveUpBuild(b)
              /\ leaked' = TRUE
    BY <1>2 DEF Persist, At
  <2>2. builder[b].digest \in 0..MaxImages /\ builder[b].digest # 0
    BY <1>0, <2>1 DEF PlacesKnown, Places
  <2>3. row' \in Rows /\ row' # NoRow /\ row'.digest # 0
    <3>1. CASE row' = [digest |-> builder[b].digest, ok |-> FALSE]
      BY <2>2, <3>1 DEF Rows, NoRow
    <3>2. CASE row # NoRow /\ row' = row
      BY <1>0, <3>2
    <3>3. QED
      BY <2>1, <3>1, <3>2
  <2>4. PICK at \in Places : /\ builder' = [builder EXCEPT ![b] = at]
                             /\ at.pc \in {"mark", "idle"}
    BY <1>0, <2>1, Moving, Resting DEF GiveUpBuild
  <2>5. ImagesFit'
    BY <1>0, <2>1, FitStays
  <2>6. QED
    BY <2>3, <2>4, <2>5, OneMoves
<1>3. QED
  BY <1>1, <1>2

\* Outside the build the row's flag changes, or the tag.
LEMMA RegOutside ==
  ASSUME RegInv, VerifyNow \/ Prune \/ Retag
  PROVE  RegInv'
<1>0. /\ ImagesFit /\ row \in Rows /\ PlacesKnown /\ TagOwned
      /\ leaked \in BOOLEAN /\ builder \in [Builders -> Places]
  BY Fitting DEF RegInv, ImagesFit
<1>1. CASE VerifyNow
  <2>1. /\ row # NoRow
        /\ row' = [row EXCEPT !.ok = tag # NoImage /\ tag.setup \in Warm]
        /\ UNCHANGED <<tag, images, builder, verified, leaked, raced>>
    BY <1>1 DEF VerifyNow
  <2>2. row' \in Rows /\ row'.digest # 0 /\ row' # NoRow
    BY <1>0, <2>1 DEF Rows, PlacesKnown, NoRow
  <2>3. ImagesFit' /\ PlacesKnown' /\ TagOwned'
    BY <1>0, <2>1, <2>2, FitStays DEF PlacesKnown, TagOwned
  <2>4. QED
    BY <1>0, <2>1, <2>2, <2>3
       DEF RegInv, RegistryTypeOK, DigestsKnown, ImagesFit, Rows, Places
<1>2. CASE Prune \/ Retag
  <2>1. /\ UNCHANGED <<row, builder, verified>> /\ leaked' \in BOOLEAN
        /\ \/ tag' = NoImage
           \/ leaked' = (leaked \/ row = NoRow)
    BY <1>0, <1>2 DEF Prune, Retag
  <2>2. ImagesFit'
    BY <1>0, <1>2, <2>1, NoImageFits, NewImage, OldImage DEF Prune, Retag
  <2>3. PlacesKnown' /\ TagOwned'
    BY <1>0, <2>1 DEF PlacesKnown, TagOwned
  <2>4. QED
    BY <1>0, <2>1, <2>2, <2>3
       DEF RegInv, RegistryTypeOK, DigestsKnown, ImagesFit, Rows, Places
<1>3. QED
  BY <1>1, <1>2

LEMMA RegSteps == ASSUME RegInv, RegistryNext PROVE RegInv'
BY RegBuilds, RegCommits, RegDrops, RegVerifies, RegOutside DEF RegistryNext

-----------------------------------------------------------------------------
(* The row of a template.  As long as nobody puts an image behind the tag  *)
(* while a builder is between its inspection and its verification pod, the *)
(* image it verifies is the one whose digest it read.                      *)

RowInv ==
  ~raced =>
    /\ row # NoRow => row.digest \in verified
    /\ \A b \in Builders :
         /\ builder[b].pc = "verify"
              => tag = NoImage \/ builder[b].digest = tag.digest
         /\ builder[b].pc = "persist" => builder[b].digest \in verified

LEMMA RowInit == RegistryInit => RowInv
BY DEF RegistryInit, RowInv, AtRest

\* An image was put behind the tag: nobody was about to verify another.
LEMMA Pointed ==
  ASSUME NEW digest, NEW setup, PointTag(digest, setup), ~raced'
  PROVE  ~raced /\ \A b \in Builders : builder[b].pc # "verify"
BY DEF PointTag, At

LEMMA RowBuilds ==
  ASSUME RegInv, RowInv, NEW b \in Builders, BuilderStep(b)
  PROVE  RowInv'
<1>. SUFFICES ASSUME ~raced' PROVE RowInv'
  BY DEF RowInv
<1>0. /\ builder \in [Builders -> Places] /\ row \in Rows /\ PlacesKnown
  BY Fitting DEF RegInv
<1>1. ASSUME ~raced, NEW at \in Places,
             builder' = [builder EXCEPT ![b] = at],
             row' # NoRow => row'.digest \in verified',
             verified \subseteq verified',
             \/ UNCHANGED tag \/ tag' = NoImage
             \/ \A c \in Builders : builder[c].pc # "verify",
             at.pc = "verify" => at.digest = tag'.digest,
             at.pc = "persist" => at.digest \in verified'
      PROVE  RowInv'
  <2>1. /\ builder'[b] = at
        /\ \A c \in Builders : c # b => builder'[c] = builder[c]
    BY <1>0, <1>1, BuilderMoves
  <2>2. QED
    BY <1>1, <2>1 DEF RowInv
<1>2. CASE StartBuild(b)
  <2>1. /\ ~raced /\ Move(b, "building") /\ UNCHANGED <<row, verified, tag>>
    BY <1>2 DEF StartBuild
  <2>2. PICK at \in Places : /\ builder' = [builder EXCEPT ![b] = at]
                             /\ at.pc = "building"
    BY <1>0, <2>1, Moving
  <2>3. QED
    BY <1>1, <2>1, <2>2 DEF RowInv
<1>3. CASE \/ RecipeFails(b) \/ InspectFails(b) \/ VerifyFails(b)
           \/ BuilderDies(b)
  <2>1. /\ ~raced /\ builder' = [builder EXCEPT ![b] = AtRest]
        /\ UNCHANGED <<row, verified>> /\ tag' \in {tag, NoImage}
    BY <1>3 DEF RecipeFails, InspectFails, VerifyFails, BuilderDies,
                GiveUpBuild, DropImage, RemoveImage
  <2>2. QED
    BY <1>1, <2>1, Resting DEF RowInv
<1>4. CASE CommitBuild(b) \/ CommitRaises(b)
  <2>1. /\ \/ \E setup \in TagSetups : PutImage(setup)
           \/ UNCHANGED <<tag, raced>>
        /\ Move(b, "inspect") \/ GiveUpBuild(b)
        /\ UNCHANGED <<row, verified>>
    BY <1>4 DEF CommitBuild, CommitRaises
  <2>2. /\ ~raced
        /\ UNCHANGED tag \/ \A c \in Builders : builder[c].pc # "verify"
    BY <2>1, Pointed DEF PutImage
  <2>3. PICK at \in Places : /\ builder' = [builder EXCEPT ![b] = at]
                             /\ at.pc \in {"inspect", "idle"}
    BY <1>0, <2>1, Moving, Resting DEF GiveUpBuild
  <2>4. QED
    BY <1>1, <2>1, <2>2, <2>3 DEF RowInv
<1>5. CASE Inspect(b)
  <2>1. /\ ~raced /\ UNCHANGED <<row, verified, tag>>
        /\ builder' = [builder EXCEPT ![b] = [pc |-> "verify",
                                             digest |-> tag.digest]]
    BY <1>5 DEF Inspect
  <2>2. [pc |-> "verify", digest |-> tag.digest] \in Places
    BY DEF RegInv, RegistryTypeOK, Image, Places
  <2>3. QED
    BY <1>1, <2>1, <2>2 DEF RowInv
<1>6. CASE Verify(b)
  <2>1. /\ ~raced /\ tag # NoImage /\ builder[b].pc = "verify"
        /\ verified' = verified \cup {tag.digest}
        /\ Move(b, "persist") /\ UNCHANGED <<row, tag>>
    BY <1>6 DEF Verify, OutputMatches, At
  <2>2. PICK at \in Places : /\ builder' = [builder EXCEPT ![b] = at]
                             /\ at.pc = "persist"
                             /\ at.digest = builder[b].digest
    BY <1>0, <2>1, Moving
  <2>3. builder[b].digest = tag.digest
    BY <2>1 DEF RowInv
  <2>4. QED
    BY <1>1, <2>1, <2>2, <2>3 DEF RowInv
<1>7. CASE Persist(b)
  <2>1. /\ ~raced /\ builder[b].digest \in verified
        /\ UNCHANGED <<verified, tag>>
        /\ \/ /\ row' = [digest |-> builder[b].digest, ok |-> FALSE]
              /\ Move(b, "mark")
           \/ UNCHANGED row /\ GiveUpBuild(b)
    BY <1>7 DEF Persist, RowInv, At
  <2>2. row' # NoRow => row'.digest \in verified
    BY <2>1 DEF RowInv
  <2>3. PICK at \in Places : /\ builder' = [builder EXCEPT ![b] = at]
                             /\ at.pc \in {"mark", "idle"}
    BY <1>0, <2>1, Moving, Resting DEF GiveUpBuild
  <2>4. QED
    BY <1>1, <2>1, <2>2, <2>3
<1>8. CASE MarkVerified(b)
  <2>1. /\ ~raced /\ UNCHANGED <<verified, tag>> /\ builder[b].pc = "mark"
        /\ row' = [row EXCEPT !.ok = TRUE]
        /\ builder' = [builder EXCEPT ![b] = AtRest]
    BY <1>8 DEF MarkVerified, At, GiveUpBuild
  <2>2. row'.digest = row.digest /\ row # NoRow
    BY <1>0, <2>1 DEF Rows, PlacesKnown
  <2>3. QED
    BY <1>1, <2>1, <2>2, Resting DEF RowInv
<1>9. QED
  BY <1>2, <1>3, <1>4, <1>5, <1>6, <1>7, <1>8 DEF BuilderStep

LEMMA RowSteps ==
  ASSUME RegInv, RowInv, RegistryNext PROVE RowInv'
<1>1. ASSUME NEW b \in Builders, BuilderStep(b) PROVE RowInv'
  BY <1>1, RowBuilds
<1>2. ASSUME VerifyNow PROVE RowInv'
  <2>1. /\ row # NoRow /\ row' = [row EXCEPT !.ok = tag # NoImage /\ tag.setup \in Warm]
        /\ UNCHANGED <<tag, builder, verified, raced>>
    BY <1>2 DEF VerifyNow
  <2>2. row'.digest = row.digest
    BY <2>1, Fitting DEF RegInv, Rows
  <2>3. QED
    BY <2>1, <2>2 DEF RowInv
<1>3. ASSUME Prune PROVE RowInv'
  BY <1>3 DEF Prune, RowInv
<1>4. ASSUME Retag, ~raced' PROVE RowInv'
  <2>1. ~raced /\ \A b \in Builders : builder[b].pc # "verify"
    BY <1>4, Pointed DEF Retag, PutImage
  <2>2. UNCHANGED <<row, builder, verified>>
    BY <1>4 DEF Retag
  <2>3. QED
    BY <2>1, <2>2 DEF RowInv
<1>5. QED
  BY <1>1, <1>2, <1>3, <1>4 DEF RegistryNext, BuilderStep, RowInv

-----------------------------------------------------------------------------
(* Provision and reproduce: where a stage can be, and what it then knows   *)
(* of the pod and of the image.                                            *)

Body == {"create", "bootstrap", "turn", "reply", "materialize", "commit",
         "spec"}

PodState ==
  [is : {"none", "up", "gone"}, content : Content, built : BOOLEAN]

Typed ==
  /\ mode \in Modes /\ stage \in {"provision", "reproduce", "patch"}
  /\ step \in Steps /\ gated \in 0..MaxImages
  /\ pod \in PodState /\ image \in Content /\ loop \in LoopState
  /\ {ran, lock} \subseteq Scripts \cup {NoScript}
  /\ attempts \in 0..3 /\ runs \in 1..MaxRuns
  /\ step \notin {"over", "rejected"} => attempts <= 2

Situated ==
  /\ step \in Body => stage = "provision"
  /\ step \in {"build", "judge", "freeze"} => stage = "reproduce"
  /\ stage = "patch" => step = "queued"
  /\ step \in (Body \ {"create"}) \cup {"build", "judge", "freeze"}
       => pod.is = "up"
  /\ mode = "prebuilt" => step \notin Body
  /\ mode = "prebuilt" /\ stage = "provision" => pod.is = "none"
  /\ step = "commit" => mode # "strategy"

\* The spec of a strategy finding names an image that passed.
Checked ==
  /\ mode = "strategy"
  /\ \/ stage # "provision"
     \/ step = "spec"
     \/ step = "materialize" /\ loop.script # NoScript
  => Fails[image.setup] = {}

\* Pod and image are one, from the commit of the spec's image until reproduce
\* builds in the pod; the script is in both unless the commit came first.
Committed ==
  /\ step = "materialize" /\ mode = "strategy" /\ loop.script # NoScript
       => pod.content.setup = image.setup
  /\ step = "spec" \/ (stage # "provision" /\ pod.is = "up" /\ ~pod.built)
       => /\ pod.content.setup = image.setup
          /\ mode # "strategy" => pod.content = image

Frozen ==
  /\ step = "freeze" => ran = pod.content.script
  /\ stage # "patch" => lock = NoScript
  /\ lock # NoScript /\ mode # "strategy" /\ ~pod.built => lock = ran

ProvInv == Typed /\ Situated /\ Checked /\ Committed /\ Frozen

-----------------------------------------------------------------------------
(* The streaks of failed checks. *)

Streaks == UNION {[1..n -> Setups] : n \in 0..Streak}

LEMMA StreakIsSeq ==
  ASSUME NEW s PROVE s \in Streaks <=> s \in Seq(Setups) /\ Len(s) <= Streak
<1>1. ASSUME s \in Streaks PROVE s \in Seq(Setups) /\ Len(s) <= Streak
  <2>1. PICK n \in 0..Streak : s \in [1..n -> Setups]
    BY <1>1 DEF Streaks
  <2>2. QED
    BY <2>1, Limits
<1>2. ASSUME s \in Seq(Setups), Len(s) <= Streak PROVE s \in Streaks
  <2>1. Len(s) \in 0..Streak /\ s \in [1..Len(s) -> Setups]
    BY <1>2, Limits, LenProperties
  <2>2. QED
    BY <2>1 DEF Streaks
<1>3. QED
  BY <1>1, <1>2

LEMMA StreakGrows ==
  ASSUME NEW s \in Streaks, NEW x \in Setups
  PROVE  LastOf(Append(s, x)) \in Streaks
<1>1. s \in Seq(Setups) /\ Len(s) <= Streak
  BY StreakIsSeq
<1>2. /\ Append(s, x) \in Seq(Setups) /\ Len(Append(s, x)) = Len(s) + 1
      /\ Append(s, x) # << >>
  BY <1>1
<1>3. /\ Tail(Append(s, x)) \in Seq(Setups)
      /\ Len(Tail(Append(s, x))) = Len(s)
  BY <1>1, <1>2
<1>. DEFINE t == Append(s, x)
<1>4. CASE Len(t) > Streak
  BY <1>1, <1>3, <1>4, StreakIsSeq DEF LastOf
<1>5. CASE ~(Len(t) > Streak)
  <2>1. LastOf(t) = t /\ t \in Seq(Setups) /\ Len(t) <= Streak
    BY <1>1, <1>2, <1>5, Limits DEF LastOf
  <2>2. QED
    BY <2>1, StreakIsSeq
<1>6. QED
  BY <1>4, <1>5

LEMMA SignedTyped ==
  ASSUME loop \in LoopState, NEW failing, NEW x \in Setups
  PROVE  Signed(failing, x) \in [Checks -> Streaks]
<1>1. \A c \in Checks : loop.sigs[c] \in Streaks
  BY DEF LoopState, Streaks
<1>2. QED
  BY <1>1, StreakGrows DEF Signed

-----------------------------------------------------------------------------
(* The start, and the ways a stage ends. *)

LEMMA Contents ==
  /\ Empty \in Content /\ NoPod \in PodState /\ NoPod.is = "none"
  /\ \A c \in Content : /\ c.setup \in Setups
                         /\ c.script \in Scripts \cup {NoScript}
                         /\ Up(c) \in PodState /\ Up(c).is = "up"
                         /\ Up(c).content = c /\ ~Up(c).built
  /\ \A q \in PodState : q.content \in Content
BY Limits DEF Empty, Content, NoPod, PodState, Up

LEMMA NoLoopTyped == NoLoop \in LoopState /\ NoLoop.script = NoScript
<1>1. << >> \in Streaks
  <2>1. << >> \in Seq(Setups) /\ Len(<< >>) = 0
    OBVIOUS
  <2>2. Len(<< >>) <= Streak
    BY <2>1, Limits
  <2>3. QED
    BY <2>1, <2>2, StreakIsSeq
<1>2. [c \in Checks |-> << >>] \in [Checks -> Streaks]
  BY <1>1
<1>3. 0 \in 0..MaxTurns /\ 0 \in 0..ForceEvery /\ NoScript \in Scripts \cup {NoScript}
  BY Limits
<1>4. QED
  BY <1>2, <1>3 DEF NoLoop, LoopState, Streaks

LEMMA ProvInit == Init => ProvInv
<1>. SUFFICES ASSUME Init PROVE ProvInv
  OBVIOUS
<1>1. /\ mode \in Modes /\ stage = "provision" /\ step = "queued" /\ gated = 0
      /\ pod = NoPod /\ loop = NoLoop /\ ran = NoScript /\ lock = NoScript
      /\ attempts = 0 /\ runs = 1
  BY DEF Init
<1>2. image \in Content
  BY Contents DEF Init, Content
<1>3. Typed
  BY <1>1, <1>2, Contents, NoLoopTyped, Limits DEF Typed, Steps
<1>4. Situated /\ Checked /\ Committed /\ Frozen
  BY <1>1, Contents DEF Situated, Checked, Committed, Frozen, Body
<1>5. QED
  BY <1>3, <1>4 DEF ProvInv

\* The stage is over and keeps what it has but its pod.
LEMMA FailKeeps == ASSUME ProvInv, Fail, stage # "patch" PROVE ProvInv'
<1>1. /\ step' = "over" /\ pod' = NoPod /\ loop' = NoLoop
      /\ UNCHANGED <<mode, stage, gated, image, ran, lock, attempts, runs>>
  BY DEF Fail
<1>2. Typed'
  BY <1>1, Contents, NoLoopTyped DEF ProvInv, Typed, Steps
<1>3. QED
  BY <1>1, <1>2, Contents
     DEF ProvInv, Situated, Checked, Committed, Frozen, Body

LEMMA ParkKeeps ==
  ASSUME ProvInv, Park, stage # "patch" PROVE ProvInv'
<1>1. /\ step' = "over" /\ loop' = NoLoop
      /\ UNCHANGED <<mode, stage, gated, pod, image, ran, lock, attempts, runs>>
  BY DEF Park
<1>2. Typed'
  BY <1>1, NoLoopTyped DEF ProvInv, Typed, Steps
<1>3. QED
  BY <1>1, <1>2 DEF ProvInv, Situated, Checked, Committed, Frozen, Body

LEMMA AgainKeeps ==
  ASSUME ProvInv, NEW limit \in {2, 3}, Again(limit), stage # "patch",
         step \notin {"over", "rejected"}
  PROVE  ProvInv'
<1>1. /\ attempts' = attempts + 1 /\ loop' = NoLoop
      /\ \/ /\ attempts + 1 < limit /\ step' = "queued" /\ pod' = pod
         \/ step' = "over" /\ pod' = NoPod
      /\ UNCHANGED <<mode, stage, gated, image, ran, lock, runs>>
  BY DEF Again
<1>2. attempts' \in 0..3 /\ (step' = "queued" => attempts' <= 2)
  BY <1>1 DEF ProvInv, Typed
<1>3. Typed'
  BY <1>1, <1>2, Contents, NoLoopTyped DEF ProvInv, Typed, Steps
<1>4. QED
  BY <1>1, <1>3, Contents
     DEF ProvInv, Situated, Checked, Committed, Frozen, Body

\* Inside the stage, where the place and the loop's locals change.
LEMMA MovesOn ==
  ASSUME ProvInv, stage = "provision", mode # "prebuilt",
         step \in Body \cup {"queued"},
         step' \in {"create", "bootstrap", "turn", "reply"},
         loop' \in LoopState, image' \in Content,
         pod' \in PodState, step' # "create" => pod'.is = "up",
         gated' \in 0..MaxImages,
         UNCHANGED <<mode, stage, ran, lock, attempts, runs>>
  PROVE  ProvInv'
<1>1. Typed'
  BY DEF ProvInv, Typed, Steps, Body
<1>2. QED
  BY <1>1 DEF ProvInv, Situated, Checked, Committed, Frozen, Body

LEMMA Entering ==
  ASSUME ProvInv, RegInv,
         ShortCircuit \/ Resolve \/ NoTemplate \/ CreatePod \/ AttachPod
         \/ NoGoodPod \/ Bootstrap
  PROVE  ProvInv'
<1>. USE DEF ProvInv
<1>0. step \in Body => stage = "provision" /\ mode # "prebuilt"
  BY DEF Situated
<1>1. CASE ShortCircuit
  <2>1. /\ stage = "provision" /\ mode = "prebuilt" /\ pod.is = "none"
        /\ stage' = "reproduce" /\ step' = "queued" /\ attempts' = 0
        /\ loop' = NoLoop
        /\ UNCHANGED <<mode, gated, pod, image, ran, lock, runs>>
    BY <1>1 DEF ShortCircuit, Enter, Succeed, Situated
  <2>2. Typed'
    BY <2>1, NoLoopTyped DEF Typed, Steps
  <2>3. QED
    BY <2>1, <2>2 DEF Situated, Checked, Committed, Frozen, Body
<1>2. CASE Resolve
  <2>1. stage = "provision" /\ step = "queued" /\ mode # "prebuilt"
    BY <1>2 DEF Resolve, Enter
  <2>2. CASE Fail
    BY <2>1, <2>2, FailKeeps
  <2>3. CASE /\ gated' = tag.digest /\ step' = "create"
             /\ UNCHANGED <<mode, stage, pod, image, loop, ran, lock, attempts,
                            runs>>
    <3>1. tag.digest \in 0..MaxImages
      BY DEF RegInv, RegistryTypeOK, Image
    <3>2. QED
      BY <2>1, <2>3, <3>1, MovesOn DEF Typed
  <2>4. QED
    BY <1>2, <2>2, <2>3 DEF Resolve
<1>3. CASE NoTemplate
  <2>1. /\ stage = "provision" /\ step = "queued" /\ mode # "prebuilt"
        /\ step' = "create"
        /\ UNCHANGED <<mode, stage, gated, pod, image, loop, ran, lock,
                       attempts, runs>>
    BY <1>3 DEF NoTemplate, Enter, Goto
  <2>2. QED
    BY <2>1, MovesOn DEF Typed
<1>4. CASE CreatePod
  <2>1. /\ step = "create" /\ step' \in {"bootstrap", "turn"}
        /\ pod' = Up([Empty EXCEPT !.setup = IF mode = "template" THEN tag.setup
                                             ELSE Bare])
        /\ UNCHANGED <<mode, stage, gated, image, loop, ran, lock, attempts,
                       runs>>
    BY <1>4 DEF CreatePod
  <2>2. tag.setup \in Setups /\ Bare \in Setups
    BY Limits DEF RegInv, RegistryTypeOK, Image
  <2>3. [Empty EXCEPT !.setup = IF mode = "template" THEN tag.setup ELSE Bare]
          \in Content
    BY <2>2, Contents DEF Content
  <2>4. pod' \in PodState /\ pod'.is = "up"
    BY <2>1, <2>3, Contents
  <2>5. step \in Body
    BY <2>1 DEF Body
  <2>6. QED
    BY <1>0, <2>1, <2>4, <2>5, MovesOn DEF Typed
<1>5. CASE AttachPod
  <2>1. /\ step = "create" /\ pod.is = "up" /\ step' \in {"bootstrap", "turn"}
        /\ UNCHANGED <<mode, stage, gated, pod, image, loop, ran, lock,
                       attempts, runs>>
    BY <1>5 DEF AttachPod, Goto
  <2>2. step \in Body
    BY <2>1 DEF Body
  <2>3. QED
    BY <1>0, <2>1, <2>2, MovesOn DEF Typed
<1>6. CASE NoGoodPod
  BY <1>0, <1>6, FailKeeps DEF NoGoodPod, Body
<1>7. CASE Bootstrap
  <2>1. step = "bootstrap" /\ step \in Body
    BY <1>7 DEF Bootstrap, Body
  <2>2. CASE Fail
    BY <1>0, <2>1, <2>2, FailKeeps
  <2>3. CASE /\ \E s \in Setups : pod' = Up([pod.content EXCEPT !.setup = s])
             /\ step' = "turn"
             /\ UNCHANGED <<mode, stage, gated, image, loop, ran, lock, attempts,
                            runs>>
    <3>1. PICK s \in Setups : pod' = Up([pod.content EXCEPT !.setup = s])
      BY <2>3
    <3>2. [pod.content EXCEPT !.setup = s] \in Content
      BY Contents DEF Typed, Content
    <3>3. pod' \in PodState /\ pod'.is = "up"
      BY <3>1, <3>2, Contents
    <3>4. QED
      BY <1>0, <2>1, <2>3, <3>3, MovesOn DEF Typed
  <2>4. QED
    BY <1>7, <2>2, <2>3 DEF Bootstrap
<1>8. QED
  BY <1>1, <1>2, <1>3, <1>4, <1>5, <1>6, <1>7

-----------------------------------------------------------------------------
(* The loop's locals after each kind of turn. *)

LEMMA TurnTyped ==
  ASSUME loop \in LoopState, TurnsLeft,
         NEW c \in 0..ForceEvery, NEW sigs \in [Checks -> Streaks]
  PROVE  /\ [loop EXCEPT !.turn = NextTurn] \in LoopState
         /\ [loop EXCEPT !.turn = NextTurn, !.calls = c] \in LoopState
         /\ [loop EXCEPT !.turn = NextTurn, !.calls = c, !.sigs = sigs]
              \in LoopState
<1>1. NextTurn \in 0..MaxTurns
  BY Limits DEF LoopState, TurnsLeft, NextTurn
<1>2. LoopState = [turn : 0..MaxTurns, calls : 0..ForceEvery, seen : BOOLEAN,
                   slow : BOOLEAN, timed : BOOLEAN, sigs : [Checks -> Streaks],
                   script : Scripts \cup {NoScript}]
  BY DEF LoopState, Streaks
<1>3. QED
  BY <1>1, <1>2

LEMMA ReplyTyped ==
  ASSUME loop \in LoopState,
         NEW c \in 0..ForceEvery, NEW slow \in BOOLEAN,
         NEW sigs \in [Checks -> Streaks]
  PROVE  /\ [loop EXCEPT !.calls = c] \in LoopState
         /\ [loop EXCEPT !.seen = TRUE, !.calls = c] \in LoopState
         /\ [loop EXCEPT !.seen = TRUE, !.calls = c, !.sigs = sigs,
                         !.slow = slow, !.timed = TRUE] \in LoopState
<1>1. LoopState = [turn : 0..MaxTurns, calls : 0..ForceEvery, seen : BOOLEAN,
                   slow : BOOLEAN, timed : BOOLEAN, sigs : [Checks -> Streaks],
                   script : Scripts \cup {NoScript}]
  BY DEF LoopState, Streaks
<1>2. QED
  BY <1>1

LEMMA DoneTyped ==
  \A script \in Scripts \cup {NoScript} :
    DoneWith(script) \in LoopState /\ DoneWith(script).script = script
BY NoLoopTyped DEF DoneWith, LoopState

\* The turns are over.
LEMMA Ready ==
  ASSUME ProvInv, stage = "provision", mode # "prebuilt", step \in Body,
         pod.is = "up", step' = "materialize", loop' \in LoopState,
         image' \in Content,
         mode = "strategy" /\ loop'.script # NoScript
           => Fails[image'.setup] = {} /\ pod.content.setup = image'.setup,
         UNCHANGED <<mode, stage, gated, pod, ran, lock, attempts, runs>>
  PROVE  ProvInv'
<1>1. Typed'
  BY DEF ProvInv, Typed, Steps, Body
<1>2. QED
  BY <1>1 DEF ProvInv, Situated, Checked, Committed, Frozen, Body

LEMMA LoopKeeps == ASSUME ProvInv, Loop PROVE ProvInv'
<1>. USE DEF ProvInv
<1>1. /\ step \in {"turn", "reply"} /\ step \in Body
      /\ stage = "provision" /\ mode # "prebuilt" /\ pod.is = "up"
  BY DEF Loop, StartTurn, Exhausted, ForceRecommit, OutOfMoney, GiveUp, Nudge,
         UseTools, DonePlain, DoneChecked, CommitFails, Situated, Body
<1>2. /\ loop \in LoopState /\ image \in Content /\ pod \in PodState
      /\ pod.content \in Content /\ pod.content.setup \in Setups
      /\ gated \in 0..MaxImages /\ 0 \in 0..ForceEvery
  BY Contents, Limits DEF Typed
<1>a. /\ loop.sigs \in [Checks -> Streaks] /\ TRUE \in BOOLEAN
      /\ NoScript \in Scripts \cup {NoScript}
  BY <1>2 DEF LoopState, Streaks
<1>3. CASE Exhausted \/ OutOfMoney \/ GiveUp \/ CommitFails
  BY <1>1, <1>3, FailKeeps, ParkKeeps
     DEF Exhausted, OutOfMoney, GiveUp, CommitFails
<1>4. CASE StartTurn
  <2>1. /\ TurnsLeft /\ step' = "reply" /\ loop' = [loop EXCEPT !.turn = NextTurn]
        /\ UNCHANGED <<mode, stage, gated, pod, image, ran, lock, attempts, runs>>
    BY <1>4 DEF StartTurn
  <2>2. loop' \in LoopState
    BY <1>2, <2>1, TurnTyped DEF LoopState, Streaks
  <2>3. QED
    BY <1>1, <1>2, <2>1, <2>2, MovesOn
<1>5. CASE ForceRecommit
  <2>1. /\ TurnsLeft
        /\ UNCHANGED <<mode, stage, gated, pod, ran, lock, attempts, runs>>
    BY <1>5 DEF ForceRecommit
  <2>2. CASE /\ loop' = [loop EXCEPT !.turn = NextTurn, !.calls = 0]
             /\ step' = "reply" /\ UNCHANGED image
    <3>1. loop' \in LoopState
      BY <1>2, <2>1, <2>2, TurnTyped DEF LoopState, Streaks
    <3>2. QED
      BY <1>1, <1>2, <2>1, <2>2, <3>1, MovesOn
  <2>3. CASE /\ image' = pod.content
             /\ loop' = DoneWith(NoScript) /\ step' = "materialize"
    <3>1. loop' \in LoopState /\ loop'.script = NoScript
      BY <1>a, <2>3, DoneTyped
    <3>2. QED
      BY <1>1, <1>2, <2>1, <2>3, <3>1, Ready
  <2>4. ASSUME NEW failing, image' = pod.content, step' = "reply",
               loop' = [loop EXCEPT !.turn = NextTurn, !.calls = 0,
                                    !.sigs = Signed(failing, pod.content.setup)]
        PROVE  ProvInv'
    <3>1. Signed(failing, pod.content.setup) \in [Checks -> Streaks]
      BY <1>2, SignedTyped
    <3>2. loop' \in LoopState
      BY <1>2, <2>1, <2>4, <3>1, TurnTyped DEF LoopState
    <3>3. QED
      BY <1>1, <1>2, <2>1, <2>4, <3>2, MovesOn
  <2>5. QED
    BY <1>5, <2>2, <2>3, <2>4 DEF ForceRecommit
<1>6. CASE Nudge
  <2>1. /\ step' = "turn"
        /\ \/ loop' = loop
           \/ loop' = [loop EXCEPT !.seen = TRUE, !.calls = 0]
        /\ UNCHANGED <<mode, stage, gated, pod, image, ran, lock, attempts, runs>>
    BY <1>6 DEF Nudge
  <2>2. [loop EXCEPT !.seen = TRUE, !.calls = 0] \in LoopState
    BY <1>2, ReplyTyped DEF LoopState, Streaks
  <2>3. QED
    BY <1>1, <1>2, <2>1, <2>2, MovesOn
<1>7. CASE UseTools
  <2>1. PICK content \in Content, n \in 1..PerTurn :
          pod' = Up(content) /\ loop' = [loop EXCEPT !.calls = Counted(n)]
    BY <1>7 DEF UseTools
  <2>2. /\ step' = "turn"
        /\ UNCHANGED <<mode, stage, gated, image, ran, lock, attempts, runs>>
    BY <1>7 DEF UseTools
  <2>3. Counted(n) \in 0..ForceEvery
    <3>1. loop.calls \in 0..ForceEvery
      BY <1>2 DEF LoopState
    <3>2. QED
      BY <1>2, <3>1, Limits DEF Counted
  <2>4. loop' \in LoopState
    BY <1>2, <2>1, <2>3, <1>a, ReplyTyped
  <2>5. QED
    BY <1>1, <1>2, <2>1, <2>2, <2>4, Contents, MovesOn
<1>8. CASE DonePlain
  <2>1. PICK script \in Scripts \cup {NoScript} :
          loop' = DoneWith(script)
    BY <1>8 DEF DonePlain
  <2>2. /\ mode # "strategy" /\ step' = "materialize"
        /\ UNCHANGED <<mode, stage, gated, pod, image, ran, lock, attempts, runs>>
    BY <1>8 DEF DonePlain
  <2>3. loop' \in LoopState
    BY <2>1, DoneTyped
  <2>4. QED
    BY <1>1, <1>2, <2>2, <2>3, Ready
<1>9. CASE DoneChecked
  <2>1. /\ image' = pod.content
        /\ UNCHANGED <<mode, stage, gated, ran, lock, attempts, runs>>
    BY <1>9 DEF DoneChecked
  <2>. DEFINE failing == Fails[CheckedSetup]
              sigs == Signed(failing, CheckedSetup)
  <2>2. sigs \in [Checks -> Streaks]
    BY <1>2, SignedTyped DEF CheckedSetup
  <2>3. PICK script \in Scripts \cup {NoScript}, slow \in BOOLEAN :
          IF failing = {}
          THEN /\ step' = "materialize" /\ UNCHANGED pod
               /\ loop' = DoneWith(script)
          ELSE IF SameSignature(sigs)
          THEN step' = "over" /\ pod' = NoPod /\ loop' = NoLoop
          ELSE /\ step' = "turn" /\ UNCHANGED pod
               /\ loop' = [loop EXCEPT !.seen = TRUE, !.calls = 0,
                                       !.sigs = sigs, !.slow = slow,
                                       !.timed = TRUE]
    BY <1>9 DEF DoneChecked
  <2>. HIDE DEF sigs
  <2>4. CASE failing = {}
    <3>1. loop' \in LoopState
      BY <2>3, <2>4, DoneTyped
    <3>2. Fails[image'.setup] = {} /\ pod.content.setup = image'.setup
      BY <2>1, <2>4 DEF CheckedSetup
    <3>3. QED
      BY <1>1, <1>2, <2>1, <2>3, <2>4, <3>1, <3>2, Ready
  <2>5. CASE failing # {} /\ SameSignature(sigs)
    <3>1. /\ step' = "over" /\ pod' = NoPod /\ loop' = NoLoop
      BY <2>3, <2>5
    <3>2. Typed'
      BY <1>2, <2>1, <3>1, Contents, NoLoopTyped DEF Typed, Steps
    <3>3. QED
      BY <1>1, <2>1, <3>1, <3>2, Contents
         DEF Situated, Checked, Committed, Frozen, Body
  <2>6. CASE failing # {} /\ ~SameSignature(sigs)
    <3>1. /\ step' = "turn" /\ UNCHANGED pod
          /\ loop' = [loop EXCEPT !.seen = TRUE, !.calls = 0, !.sigs = sigs,
                                  !.slow = slow, !.timed = TRUE]
      BY <2>3, <2>6
    <3>2. loop' \in LoopState
      BY <1>2, <2>2, <3>1, ReplyTyped
    <3>3. QED
      BY <1>1, <1>2, <2>1, <3>1, <3>2, MovesOn
  <2>7. QED
    BY <2>4, <2>5, <2>6
<1>10. QED
  BY <1>3, <1>4, <1>5, <1>6, <1>7, <1>8, <1>9 DEF Loop

\* What comes after the turns.
LEMMA AfterTurns ==
  ASSUME ProvInv, Materialize \/ CommitLast \/ WriteSpec \/ SandboxError
  PROVE  ProvInv'
<1>. USE DEF ProvInv
<1>0. /\ image \in Content /\ pod \in PodState /\ pod.content \in Content
      /\ loop \in LoopState /\ loop.script \in Scripts \cup {NoScript}
  BY Contents DEF Typed, LoopState
<1>1. CASE Materialize
  <2>1. step = "materialize" /\ stage = "provision" /\ mode # "prebuilt"
        /\ pod.is = "up"
    BY <1>1 DEF Materialize, Situated, Body
  <2>2. CASE Fail
    BY <2>1, <2>2, FailKeeps
  <2>3. CASE /\ loop.script # NoScript
             /\ pod' = Up([pod.content EXCEPT !.script = loop.script])
             /\ step' = IF mode = "strategy" THEN "spec" ELSE "commit"
             /\ loop' = NoLoop
             /\ UNCHANGED <<mode, stage, gated, image, ran, lock, attempts, runs>>
    <3>. DEFINE c == [pod.content EXCEPT !.script = loop.script]
    <3>1. c \in Content /\ c.setup = pod.content.setup
      BY <1>0 DEF Content
    <3>. HIDE DEF c
    <3>2. pod' = Up(c) /\ pod' \in PodState /\ pod'.is = "up" /\ pod'.content = c
      BY <2>3, <3>1, Contents DEF c
    <3>3. Typed'
      BY <2>1, <2>3, <3>2, NoLoopTyped DEF Typed, Steps
    <3>4. Situated'
      BY <2>1, <2>3, <3>2 DEF Situated, Body
    <3>5. Checked' /\ Committed'
      BY <2>1, <2>3, <3>1, <3>2 DEF Checked, Committed
    <3>6. Frozen'
      BY <2>1, <2>3 DEF Frozen
    <3>7. QED
      BY <3>3, <3>4, <3>5, <3>6
  <2>4. QED
    BY <1>1, <2>2, <2>3 DEF Materialize
<1>2. CASE CommitLast
  <2>1. step = "commit" /\ stage = "provision" /\ pod.is = "up"
        /\ mode # "strategy" /\ mode # "prebuilt"
    BY <1>2 DEF CommitLast, Situated, Body
  <2>2. CASE Park
    BY <2>1, <2>2, ParkKeeps
  <2>3. CASE /\ image' = pod.content /\ step' = "spec"
             /\ UNCHANGED <<mode, stage, gated, pod, loop, ran, lock, attempts,
                            runs>>
    <3>1. Typed'
      BY <1>0, <2>1, <2>3 DEF Typed, Steps
    <3>2. QED
      BY <2>1, <2>3, <3>1 DEF Situated, Checked, Committed, Frozen, Body
  <2>4. QED
    BY <1>2, <2>2, <2>3 DEF CommitLast, PutInImage
<1>3. CASE WriteSpec
  <2>1. step = "spec" /\ stage = "provision" /\ pod.is = "up"
        /\ mode # "prebuilt"
    BY <1>3 DEF WriteSpec, Situated, Body
  <2>2. CASE Fail
    BY <2>1, <2>2, FailKeeps
  <2>3. CASE Succeed("reproduce")
    <3>1. /\ stage' = "reproduce" /\ step' = "queued" /\ attempts' = 0
          /\ loop' = NoLoop
          /\ UNCHANGED <<mode, gated, pod, image, ran, lock, runs>>
      BY <2>3 DEF Succeed
    <3>2. Typed'
      BY <3>1, NoLoopTyped DEF Typed, Steps
    <3>3. QED
      BY <2>1, <3>1, <3>2 DEF Situated, Checked, Committed, Frozen, Body
  <2>4. QED
    BY <1>3, <2>2, <2>3 DEF WriteSpec
<1>4. CASE SandboxError
  <2>1. /\ step \in Body \cup {"build", "judge", "freeze"}
        /\ step \notin {"over", "rejected"}
        /\ stage # "patch"
    BY <1>4 DEF SandboxError, Situated, Body
  <2>2. Again(2) \/ Park
    BY <1>4 DEF SandboxError
  <2>3. QED
    BY <2>1, <2>2, AgainKeeps, ParkKeeps
<1>5. QED
  BY <1>1, <1>2, <1>3, <1>4

LEMMA ReproduceKeeps ==
  ASSUME ProvInv, Reproduce \/ BuildFirst \/ Red \/ NotRed \/ Freeze
  PROVE  ProvInv'
<1>. USE DEF ProvInv
<1>0. image \in Content /\ pod \in PodState /\ pod.content \in Content
  BY Contents DEF Typed
<1>1. CASE Reproduce
  <2>1. stage = "reproduce" /\ step = "queued"
    BY <1>1 DEF Reproduce, Enter
  <2>2. CASE Fail
    BY <2>1, <2>2, FailKeeps
  <2>3. CASE /\ pod.is # "gone" /\ step' = "build"
             /\ pod' = IF pod.is = "up" THEN pod ELSE Up(image)
             /\ UNCHANGED <<mode, stage, gated, image, loop, ran, lock, attempts,
                            runs>>
    <3>1. /\ pod' \in PodState /\ pod'.is = "up"
          /\ ~pod'.built => /\ pod'.content.setup = image.setup
                            /\ mode # "strategy" => pod'.content = image
      <4>1. CASE pod.is = "up"
        BY <1>0, <2>1, <2>3, <4>1 DEF Committed
      <4>2. CASE pod.is # "up"
        BY <1>0, <2>3, <4>2, Contents
      <4>3. QED
        BY <4>1, <4>2
    <3>2. Typed'
      BY <2>1, <2>3, <3>1 DEF Typed, Steps
    <3>3. QED
      BY <2>1, <2>3, <3>1, <3>2 DEF Situated, Checked, Committed, Frozen, Body
  <2>4. QED
    BY <1>1, <2>2, <2>3 DEF Reproduce
<1>2. CASE Red
  <2>1. /\ step = "judge" /\ stage = "reproduce" /\ pod.is = "up"
        /\ lock = NoScript
        /\ ran' = pod.content.script /\ step' = "freeze"
        /\ UNCHANGED <<mode, stage, gated, pod, image, loop, lock, attempts,
                       runs>>
    BY <1>2 DEF Red, Situated, Frozen
  <2>2. Typed'
    BY <1>0, <2>1, Contents DEF Typed, Steps
  <2>3. QED
    BY <2>1, <2>2 DEF Situated, Checked, Committed, Frozen, Body
<1>3. CASE NotRed
  <2>1. step = "judge" /\ stage = "reproduce"
    BY <1>3 DEF NotRed, Situated
  <2>2. CASE Fail \/ Again(3)
    BY <2>1, <2>2, FailKeeps, AgainKeeps
  <2>3. CASE /\ step' = "rejected" /\ pod' = NoPod
             /\ UNCHANGED <<mode, stage, gated, image, loop, ran, lock, attempts,
                            runs>>
    <3>1. Typed'
      BY <2>1, <2>3, Contents DEF Typed, Steps
    <3>2. QED
      BY <2>1, <2>3, <3>1, Contents
         DEF Situated, Checked, Committed, Frozen, Body
  <2>4. QED
    BY <1>3, <2>2, <2>3 DEF NotRed
<1>4. CASE Freeze
  <2>1. /\ step = "freeze" /\ stage = "reproduce" /\ pod.is = "up"
        /\ ran = pod.content.script
    BY <1>4 DEF Freeze, Situated, Frozen
  <2>2. CASE Fail
    BY <2>1, <2>2, FailKeeps
  <2>3. CASE /\ lock' = image.script /\ stage' = "patch" /\ step' = "queued"
             /\ attempts' = 0
             /\ UNCHANGED <<mode, gated, pod, image, loop, ran, runs>>
    <3>1. Typed'
      BY <1>0, <2>1, <2>3, Contents DEF Typed, Steps
    <3>2. Frozen'
      BY <2>1, <2>3 DEF Frozen, Committed
    <3>3. QED
      BY <2>1, <2>3, <3>1, <3>2 DEF Situated, Checked, Committed, Body
  <2>4. QED
    BY <1>4, <2>2, <2>3 DEF Freeze
<1>5. CASE BuildFirst
  <2>1. step = "build" /\ stage = "reproduce" /\ pod.is = "up" /\ lock = NoScript
    BY <1>5 DEF BuildFirst, Situated, Frozen
  <2>2. CASE Fail
    BY <2>1, <2>2, FailKeeps
  <2>3. CASE Goto("judge")
    <3>1. /\ step' = "judge"
          /\ UNCHANGED <<mode, stage, gated, pod, image, loop, ran, lock,
                         attempts, runs>>
      BY <2>3 DEF Goto
    <3>2. Typed'
      BY <2>1, <3>1 DEF Typed, Steps
    <3>3. QED
      BY <2>1, <3>1, <3>2 DEF Situated, Checked, Committed, Frozen, Body
  <2>4. CASE /\ \E content \in Content :
                  pod' = [pod EXCEPT !.content = content, !.built = TRUE]
             /\ step' = "judge"
             /\ UNCHANGED <<mode, stage, gated, image, loop, ran, lock, attempts,
                            runs>>
    <3>1. pod' \in PodState /\ pod'.is = "up" /\ pod'.built
      BY <1>0, <2>1, <2>4 DEF PodState
    <3>2. Typed'
      BY <2>1, <2>4, <3>1 DEF Typed, Steps
    <3>3. QED
      BY <2>1, <2>4, <3>1, <3>2 DEF Situated, Checked, Committed, Frozen, Body
  <2>5. QED
    BY <1>5, <2>2, <2>3, <2>4 DEF BuildFirst
<1>6. QED
  BY <1>1, <1>2, <1>3, <1>4, <1>5

LEMMA HumansKeep ==
  ASSUME ProvInv, Requeue \/ LosePod PROVE ProvInv'
<1>. USE DEF ProvInv
<1>1. CASE Requeue
  <2>1. /\ step = "over" /\ runs < MaxRuns /\ runs' = runs + 1
        /\ step' = "queued" /\ attempts' = 0
        /\ UNCHANGED <<mode, stage, gated, pod, image, loop, ran, lock>>
    BY <1>1 DEF Requeue
  <2>2. runs' \in 1..MaxRuns
    BY <2>1, Limits DEF Typed
  <2>3. Typed'
    BY <2>1, <2>2 DEF Typed, Steps
  <2>4. QED
    BY <2>1, <2>3 DEF Situated, Checked, Committed, Frozen, Body
<1>2. CASE LosePod
  <2>1. /\ pod.is = "up" /\ step \in {"queued", "over"}
        /\ pod' = [pod EXCEPT !.is = "gone"]
        /\ UNCHANGED <<mode, stage, step, gated, image, loop, ran, lock,
                       attempts, runs>>
    BY <1>2 DEF LosePod
  <2>2. pod' \in PodState /\ pod'.is = "gone"
    BY <2>1 DEF Typed, PodState
  <2>3. Typed'
    BY <2>1, <2>2 DEF Typed
  <2>4. QED
    BY <2>1, <2>2, <2>3 DEF Situated, Checked, Committed, Frozen, Body
<1>3. QED
  BY <1>1, <1>2

-----------------------------------------------------------------------------
(* The specification *)

LEMMA StagesKeep == ASSUME RegInv, ProvInv, Stages PROVE ProvInv'
BY Entering, LoopKeeps, AfterTurns, ReproduceKeeps, HumansKeep
   DEF Stages, InStage

LEMMA RegStays == ASSUME RegInv, UNCHANGED registry PROVE RegInv'
BY DEF registry, RegInv, RegistryTypeOK, DigestsKnown, TagKnown, WarmKnown,
       PlacesKnown, TagOwned

LEMMA ProvStays == ASSUME ProvInv, UNCHANGED provisioning PROVE ProvInv'
BY DEF provisioning, ProvInv, Typed, Situated, Checked, Committed, Frozen

LEMMA RowStays == ASSUME RowInv, UNCHANGED registry PROVE RowInv'
BY DEF registry, RowInv

LEMMA Stepwise ==
  ASSUME RegInv, ProvInv, [Next]_vars PROVE RegInv' /\ ProvInv'
BY RegSteps, RegStays, StagesKeep, ProvStays DEF Next, Registry, vars

\* The invariant of the composition.
THEOREM Inductive == Spec => [](RegInv /\ ProvInv)
<1>1. Init => RegInv /\ ProvInv
  BY RegInit, ProvInit DEF Init
<1>2. RegInv /\ ProvInv /\ [Next]_vars => (RegInv /\ ProvInv)'
  BY Stepwise
<1>3. QED
  BY <1>1, <1>2, PTL DEF Spec

\* The registry and the stages keep their types: a turn count never passes
\* the limit, a streak its window, a digest the images that were made.
THEOREM ProvisionTyped == Spec => []TypeOK
<1>1. RegInv /\ ProvInv => TypeOK
  BY DEF RegInv, ProvInv, Typed, PodState, TypeOK
<1>2. QED
  BY <1>1, Inductive, PTL

\* "all checks passed on <image>" (provision.py:1146-1160): however often the
\* loop commits, forced or asked, the image in the spec passed the checks.
THEOREM SpecsArePassed == Spec => []ImagePassedChecks
<1>1. ProvInv => ImagePassedChecks
  BY DEF ProvInv, Checked, ImagePassedChecks
<1>2. QED
  BY <1>1, Inductive, PTL

\* What reproduce builds on, in the pod pinned since provision, is set up like
\* the image of the spec (stages.py:1638-1648, 1658-1667).
THEOREM BuildsStartFromImages == Spec => []BuildStartsFromImage
<1>1. ProvInv => BuildStartsFromImage
  BY DEF ProvInv, Committed, BuildStartsFromImage
<1>2. QED
  BY <1>1, Inductive, PTL

\* The frozen script is the script whose run was red, wherever the image is
\* committed after the script is written and no build ran in the pod
\* (stages.py:1751-1754).
THEOREM FrozenWasRun == Spec => []FrozenIsRunIfCommittedLast
<1>1. ProvInv => FrozenIsRunIfCommittedLast
  BY DEF ProvInv, Frozen, FrozenIsRunIfCommittedLast, FrozenIsRun
<1>2. QED
  BY <1>1, Inductive, PTL

\* A build that fails takes its image along, however many builders race
\* (template_builder.py:60-65, 288-290).
THEOREM NoOrphans == Spec => []NoOrphanTag
<1>1. RegInv => NoOrphanTag
  BY DEF RegInv, TagOwned, NoOrphanTag, At
<1>2. QED
  BY <1>1, Inductive, PTL

\* A template that can be picked names a digest whose fresh pod passed the
\* verification (template_builder.py:397-435), however many builders work on
\* the name and however the tag is moved or removed from outside, as long as
\* no image comes behind the tag between the inspection of a builder and the
\* pod it verifies.
THEOREM TemplatesVerified == Spec => []RowIsVerified
<1>1. Init => RowInv
  BY RowInit DEF Init
<1>2. RegInv /\ RowInv /\ [Next]_vars => RowInv'
  BY RowSteps, RowStays DEF Next, Registry, vars
<1>3. RowInv => RowIsVerified
  BY DEF RowInv, RowIsVerified
<1>4. QED
  BY <1>1, <1>2, <1>3, Inductive, PTL DEF Spec

-----------------------------------------------------------------------------
(* What a template finding starts in *)

\* The digest a finding was gated on was verified.
GatedInv == gated # 0 => raced \/ gated \in verified

\* Nothing takes a verification back.
LEMMA VerifiedGrows ==
  ASSUME RegistryNext \/ UNCHANGED registry
  PROVE  verified \subseteq verified' /\ (raced => raced')
<1>0. ASSUME NEW digest, NEW setup, PointTag(digest, setup)
      PROVE  raced => raced'
  <2>1. raced' = (raced \/ \E b \in Builders : At(b, "verify"))
    BY <1>0 DEF PointTag
  <2>2. QED
    BY <2>1
<1>1. CASE UNCHANGED registry
  BY <1>1 DEF registry
<1>2. ASSUME NEW b \in Builders,
             \/ StartBuild(b) \/ RecipeFails(b) \/ Inspect(b) \/ InspectFails(b)
             \/ Verify(b) \/ VerifyFails(b) \/ Persist(b) \/ MarkVerified(b)
             \/ BuilderDies(b)
      PROVE  verified \subseteq verified' /\ (raced => raced')
  BY <1>2 DEF StartBuild, RecipeFails, Inspect, InspectFails, Verify,
              VerifyFails, Persist, MarkVerified, BuilderDies
<1>3. ASSUME NEW b \in Builders, CommitBuild(b) \/ CommitRaises(b)
      PROVE  verified \subseteq verified' /\ (raced => raced')
  <2>1. UNCHANGED verified
        /\ ((\E setup \in TagSetups : PutImage(setup)) \/ UNCHANGED raced)
    BY <1>3 DEF CommitBuild, CommitRaises
  <2>2. QED
    BY <1>0, <2>1 DEF PutImage
<1>4. CASE VerifyNow \/ Prune \/ Retag
  <2>1. /\ UNCHANGED verified
        /\ \/ UNCHANGED raced
           \/ \E setup \in TagSetups : PutImage(setup)
           \/ \E d \in DOMAIN images : PointTag(d, images[d])
    BY <1>4 DEF VerifyNow, Prune, Retag
  <2>2. QED
    BY <1>0, <2>1 DEF PutImage
<1>5. QED
  BY <1>1, <1>2, <1>3, <1>4 DEF RegistryNext

LEMMA GateKept ==
  ASSUME Stages, ~Resolve PROVE gated' = gated
<1>1. ASSUME Fail \/ Park \/ Again(2) \/ Again(3) \/ Succeed("reproduce")
      PROVE  gated' = gated
  BY <1>1 DEF Fail, Park, Again, Succeed
<1>2. ASSUME ShortCircuit \/ NoTemplate \/ Reproduce \/ Requeue \/ LosePod
      PROVE  gated' = gated
  BY <1>1, <1>2
     DEF ShortCircuit, NoTemplate, Goto, Reproduce, Requeue, LosePod
<1>3. ASSUME CreatePod \/ AttachPod \/ NoGoodPod \/ Bootstrap
      PROVE  gated' = gated
  BY <1>1, <1>3 DEF CreatePod, AttachPod, Goto, NoGoodPod, Bootstrap
<1>4. ASSUME Loop PROVE gated' = gated
  BY <1>1, <1>4
     DEF Loop, StartTurn, Exhausted, ForceRecommit, OutOfMoney, GiveUp, Nudge,
         UseTools, DonePlain, DoneChecked, CommitFails
<1>5. ASSUME Materialize \/ CommitLast \/ WriteSpec \/ SandboxError
      PROVE  gated' = gated
  BY <1>1, <1>5 DEF Materialize, CommitLast, WriteSpec, SandboxError
<1>6. ASSUME BuildFirst \/ Red \/ NotRed \/ Freeze PROVE gated' = gated
  BY <1>1, <1>6 DEF BuildFirst, Goto, Red, NotRed, Freeze
<1>7. QED
  BY <1>2, <1>3, <1>4, <1>5, <1>6 DEF Stages, InStage

LEMMA GateStep ==
  ASSUME RowInv, GatedInv, [Next]_vars PROVE GatedInv'
<1>1. CASE Resolve /\ UNCHANGED registry
  <2>1. gated' = gated \/ (Resolves /\ gated' = tag.digest)
    BY <1>1 DEF Resolve, Fail
  <2>2. Resolves => raced \/ tag.digest \in verified
    BY DEF Resolves, RowInv
  <2>3. QED
    BY <1>1, <2>1, <2>2 DEF GatedInv, registry
<1>2. CASE Stages /\ ~Resolve /\ UNCHANGED registry
  BY <1>2, GateKept, VerifiedGrows DEF GatedInv
<1>3. CASE Registry /\ UNCHANGED provisioning
  BY <1>3, VerifiedGrows DEF GatedInv, Registry, provisioning
<1>4. CASE UNCHANGED vars
  BY <1>4, VerifiedGrows DEF GatedInv, vars, provisioning
<1>5. QED
  BY <1>1, <1>2, <1>3, <1>4 DEF Next

LEMMA WarmCreate ==
  ASSUME RegInv, GatedInv, CreatePod, mode = "template", tag.digest = gated,
         ~raced
  PROVE  pod'.content.setup \in Warm
<1>1. tag # NoImage /\ pod' = Up([Empty EXCEPT !.setup = tag.setup])
  BY DEF CreatePod
<1>2. tag.digest \in DOMAIN images /\ tag.setup = images[tag.digest]
  BY <1>1 DEF RegInv, DigestsKnown, TagKnown
<1>3. tag.digest # 0
  BY <1>2 DEF RegInv, RegistryTypeOK
<1>4. tag.setup \in Warm
  BY <1>2, <1>3 DEF RegInv, DigestsKnown, WarmKnown, GatedInv
<1>5. pod'.content.setup = tag.setup
  BY <1>1 DEF Up, Empty
<1>6. QED
  BY <1>4, <1>5

\* A template finding starts in a stack that was verified, unless the tag was
\* moved between the gate and the pod (provision.py:1384-1390), or was between
\* the inspection and the verification pod of a builder.
THEOREM TemplatesStartWarm == Spec => StartsWarm
<1>1. Init => RowInv /\ GatedInv
  BY RowInit DEF Init, GatedInv
<1>2. RegInv /\ RowInv /\ GatedInv /\ [Next]_vars => RowInv' /\ GatedInv'
  BY RowSteps, RowStays, GateStep DEF Next, Registry, vars
<1>3. RegInv /\ GatedInv
        => [CreatePod /\ mode = "template" /\ tag.digest = gated /\ ~raced
              => pod'.content.setup \in Warm]_vars
  BY WarmCreate
<1>4. QED
  BY <1>1, <1>2, <1>3, Inductive, PTL DEF Spec, StartsWarm
=============================================================================
