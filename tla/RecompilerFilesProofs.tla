------------------------ MODULE RecompilerFilesProofs ------------------------
(***************************************************************************)
(* The three properties of RecompilerFiles, for all sets of executables,   *)
(* patches and texts and any number of files and runs.  What a run does    *)
(* with the generated files depends on the files alone (OutputInv); which  *)
(* image it works on depends on the inputs and on the patched file alone   *)
(* (ImageInv).                                                             *)
(***************************************************************************)
EXTENDS RecompilerFiles, TLAPS

Phases == {"idle", "load", "open", "write", "parse", "generate", "save", "done", "failed"}

Working == {"parse", "generate", "save", "done"}

\* The image of a run on the inputs as they are.
Determined == IF Reusable THEN patched ELSE IF config.patch THEN <<xex, patch>> ELSE <<xex, None>>

\* Another run does not write the patched file.
Settled == config.patch /\ config.patched => Reusable

FileTypes ==
  /\ pc \in Phases
  /\ patched \in Images \cup {Missing, Truncated}
  /\ xex \in Xexes \cup {None}
  /\ image \in Images
  /\ next \in Nat \ {0}
  /\ DOMAIN out = 1 .. Outputs

\* The files before the next one hold their texts, unless a write failed; a file
\* that is being written does not.
OutputInv ==
  /\ \A k \in DOMAIN out : out[k] = [size |-> out[k].size, body |-> out[k].body]
  /\ pc \in {"load", "open", "write", "parse"} => next = 1
  /\ pc \in {"generate", "save", "done"} /\ ~short =>
       \A k \in DOMAIN Texts[image] : k < next => out[k] = Texts[image][k]
  /\ pc = "save" => next <= Len(Texts[image]) /\ out[next] # Text
  /\ pc = "done" => next > Len(Texts[image])

ImageInv ==
  /\ pc \in {"open", "write"} =>
       config.patch /\ config.patched /\ last = NoImage
         /\ image = <<xex, patch>> /\ image \in Patched
  /\ pc \in Working /\ ~short => image = Determined /\ Settled
  /\ pc \in Working /\ last # NoImage => image = Determined
  /\ last # NoImage => last = Determined /\ Settled

----------------------------------------------------------------------------

\* Every reachable state has its types.
THEOREM TypesCorrect == Spec => []FileTypes
<1>1. Init => FileTypes
  <2> SUFFICES ASSUME Init PROVE FileTypes
    OBVIOUS
  <2>1. xex \in Xexes \cup {None} /\ image \in Images
    BY DEF Init, Images
  <2> QED BY <2>1 DEF Init, FileTypes, Phases
<1>2. FileTypes /\ [Next]_vars => FileTypes'
  <2> SUFFICES ASSUME FileTypes, [Next]_vars PROVE FileTypes'
    OBVIOUS
  <2> USE DEF FileTypes, Phases, inputs
  <2>1. CASE Change
    <3>1. xex' \in Xexes \cup {None}
      BY <2>1 DEF Change
    <3> QED BY <2>1, <3>1 DEF Change
  <2>2. CASE Start
    BY <2>2 DEF Start
  <2>3. CASE Reuse
    BY <2>3 DEF Reuse, Reusable
  <2>4. CASE LoadPlain
    BY <2>4 DEF LoadPlain, Images
  <2>5. CASE ApplyPatch
    BY <2>5 DEF ApplyPatch, Images, Patched
  <2>6. CASE LoadFails
    BY <2>6 DEF LoadFails
  <2>7. CASE OpenPatched
    BY <2>7 DEF OpenPatched
  <2>8. CASE WritePatched
    BY <2>8 DEF WritePatched, Kept, Images
  <2>9. CASE Parse
    BY <2>9 DEF Parse
  <2>10. CASE Skip
    BY <2>10 DEF Skip
  <2>11. CASE OpenOut
    BY <2>11 DEF OpenOut
  <2>12. CASE WriteOut
    <3>1. DOMAIN out' = 1 .. Outputs
      BY <2>12 DEF WriteOut
    <3>2. pc' \in Phases /\ next' \in Nat \ {0}
      BY <2>12 DEF WriteOut
    <3> QED BY <2>12, <3>1, <3>2 DEF WriteOut
  <2>13. CASE Complete
    BY <2>13 DEF Complete
  <2>14. CASE Exit
    BY <2>14 DEF Exit
  <2>15. CASE UNCHANGED vars
    BY <2>15 DEF vars
  <2> QED
    BY <2>1, <2>2, <2>3, <2>4, <2>5, <2>6, <2>7, <2>8, <2>9, <2>10, <2>11, <2>12, <2>13, <2>14, <2>15
    DEF Next
<1> QED BY <1>1, <1>2, PTL DEF Spec

----------------------------------------------------------------------------

\* A file of the size and body of its text is the text, and what truncation and a
\* short write leave is not.
LEMMA IdenticalIsText ==
  ASSUME FileTypes, Generating
  PROVE  /\ next \in DOMAIN Texts[image] /\ next \in DOMAIN out
         /\ Text \notin {Empty, Cut}
         /\ (out[next] = Text => Identical)
<1>1. next \in DOMAIN Texts[image] /\ next \in DOMAIN out
  BY TextsAssumption DEF FileTypes, Generating
<1>2. Text.size \in Nat \ {0}
  BY <1>1, TextsAssumption DEF FileTypes, Text
<1>3. Text \notin {Absent, Empty, Cut}
  BY <1>2 DEF Absent, Empty, Cut
<1> QED BY <1>1, <1>3 DEF Identical

LEMMA OutputStart == Init => OutputInv
BY DEF Init, OutputInv, Absent

LEMMA OutputStep == FileTypes /\ OutputInv /\ [Next]_vars => OutputInv'
<1> SUFFICES ASSUME FileTypes, OutputInv, [Next]_vars PROVE OutputInv'
  OBVIOUS
<1>1. CASE Change
  BY <1>1 DEF Change, OutputInv
<1>2. CASE Start
  BY <1>2 DEF Start, OutputInv
<1>3. CASE Reuse
  BY <1>3 DEF Reuse, OutputInv
<1>4. CASE LoadPlain
  BY <1>4 DEF LoadPlain, OutputInv
<1>5. CASE ApplyPatch
  BY <1>5 DEF ApplyPatch, OutputInv
<1>6. CASE LoadFails
  BY <1>6 DEF LoadFails, OutputInv
<1>7. CASE OpenPatched
  BY <1>7 DEF OpenPatched, OutputInv
<1>8. CASE WritePatched
  BY <1>8 DEF WritePatched, OutputInv
<1>9. CASE Parse
  <2>1. next = 1 /\ next' = next /\ out' = out /\ image' = image /\ pc' \in {"generate", "failed"}
    BY <1>9 DEF Parse, OutputInv
  <2>2. \A k \in DOMAIN Texts[image] : ~(k < next)
    BY <2>1, TextsAssumption DEF FileTypes
  <2> QED BY <2>1, <2>2 DEF OutputInv
<1>10. CASE Skip
  <2>1. Generating /\ Identical /\ next' = next + 1 /\ out' = out /\ pc' = pc /\ image' = image /\ short' = short
    BY <1>10 DEF Skip
  <2>2. next \in DOMAIN Texts[image] /\ next \in DOMAIN out
    BY <2>1, IdenticalIsText
  <2>3. out[next] = Text
    <3>1. Text = [size |-> Text.size, body |-> Text.body]
      BY <2>2, TextsAssumption DEF Text, FileTypes
    <3>2. out[next] = [size |-> out[next].size, body |-> out[next].body]
      BY <2>2 DEF OutputInv
    <3> QED BY <3>1, <3>2, <2>1 DEF Identical
  <2>4. ASSUME ~short, NEW k \in DOMAIN Texts[image], k < next + 1
        PROVE  out[k] = Texts[image][k]
    <3>1. k \in Int /\ next \in Int
      BY TextsAssumption DEF FileTypes
    <3>2. CASE k < next
      BY <3>2, <2>1, <2>4 DEF OutputInv, Generating
    <3>3. CASE k = next
      BY <3>3, <2>3 DEF Text
    <3> QED BY <3>1, <3>2, <3>3, <2>4
  <2>5. pc' = "generate"
    BY <2>1 DEF Generating
  <2> QED BY <2>1, <2>4, <2>5 DEF OutputInv
<1>11. CASE OpenOut
  <2>1. Generating /\ next' = next /\ image' = image /\ short' = short
    BY <1>11 DEF OpenOut
  <2>2. next \in DOMAIN Texts[image] /\ next \in DOMAIN out /\ Text # Empty /\ next <= Len(Texts[image])
    BY <2>1, IdenticalIsText DEF Generating
  <2>3. CASE out' = [out EXCEPT ![next] = Empty] /\ pc' = "save"
    <3>1. \A k \in DOMAIN out' : out'[k] = [size |-> out'[k].size, body |-> out'[k].body]
      BY <2>3, <2>2 DEF OutputInv, Empty
    <3>2. ASSUME ~short, NEW k \in DOMAIN Texts[image], k < next
          PROVE  out'[k] = Texts[image][k]
      <4>1. out[k] = Texts[image][k]
        BY <3>2, <2>1 DEF OutputInv, Generating
      <4>2. k # next /\ k \in DOMAIN out
        BY <3>2, TextsAssumption DEF FileTypes
      <4> QED BY <4>1, <4>2, <2>3
    <3>3. out'[next] # Text /\ Text' = Text
      BY <2>1, <2>2, <2>3 DEF Text
    <3> QED BY <2>1, <2>2, <2>3, <3>1, <3>2, <3>3 DEF OutputInv
  <2>4. CASE out' = out /\ pc' = "failed"
    BY <2>4 DEF OutputInv
  <2> QED BY <2>3, <2>4, <1>11 DEF OpenOut
<1>12. CASE WriteOut
  <2>1. pc = "save" /\ image' = image
    BY <1>12 DEF WriteOut
  <2>2. next <= Len(Texts[image]) /\ out[next] # Text
    BY <2>1 DEF OutputInv
  <2>3. next \in DOMAIN Texts[image] /\ next \in DOMAIN out
    BY <2>2, TextsAssumption DEF FileTypes
  <2>4. Text \notin {Absent, Empty, Cut} /\ Text = [size |-> Text.size, body |-> Text.body]
    <3>1. Text.size \in Nat \ {0} /\ Text = [size |-> Text.size, body |-> Text.body]
      BY <2>3, TextsAssumption DEF Text, FileTypes
    <3> QED BY <3>1 DEF Absent, Empty, Cut
  <2>5. ASSUME ~short, NEW k \in DOMAIN Texts[image], k < next
        PROVE  out[k] = Texts[image][k] /\ k # next /\ k \in DOMAIN out
    <3>1. out[k] = Texts[image][k]
      BY <2>5, <2>1 DEF OutputInv
    <3> QED BY <3>1, <2>5, TextsAssumption DEF FileTypes
  <2>6. CASE out' = [out EXCEPT ![next] = Cut] /\ UNCHANGED <<pc, next, short>>
    <3>1. \A k \in DOMAIN out' : out'[k] = [size |-> out'[k].size, body |-> out'[k].body]
      BY <2>6, <2>3 DEF OutputInv, Cut
    <3>2. ASSUME ~short, NEW k \in DOMAIN Texts[image], k < next
          PROVE  out'[k] = Texts[image][k]
      BY <3>2, <2>5, <2>6
    <3>3. out'[next] # Text /\ Text' = Text
      BY <2>1, <2>3, <2>4, <2>6 DEF Text
    <3> QED BY <2>1, <2>2, <2>6, <3>1, <3>2, <3>3 DEF OutputInv
  <2>7. CASE out' = [out EXCEPT ![next] = Text] /\ pc' = "generate" /\ next' = next + 1 /\ UNCHANGED short
    <3>1. \A k \in DOMAIN out' : out'[k] = [size |-> out'[k].size, body |-> out'[k].body]
      BY <2>7, <2>3, <2>4 DEF OutputInv
    <3>2. ASSUME ~short, NEW k \in DOMAIN Texts[image], k < next + 1
          PROVE  out'[k] = Texts[image][k]
      <4>1. k \in Int /\ next \in Int
        BY TextsAssumption DEF FileTypes
      <4>2. CASE k < next
        BY <4>2, <3>2, <2>5, <2>7
      <4>3. CASE k = next
        BY <4>3, <2>3, <2>7 DEF Text
      <4> QED BY <4>1, <4>2, <4>3, <3>2
    <3> QED BY <2>1, <2>7, <3>1, <3>2 DEF OutputInv
  <2>8. CASE UNCHANGED out /\ pc' = "generate" /\ next' = next + 1 /\ short' = TRUE
    BY <2>8 DEF OutputInv
  <2> QED BY <2>6, <2>7, <2>8, <1>12 DEF WriteOut
<1>13. CASE Complete
  <2>1. pc = "generate" /\ next > Len(Texts[image]) /\ pc' = "done"
    BY <1>13 DEF Complete
  <2>2. UNCHANGED <<out, image, next, short>>
    BY <1>13 DEF Complete
  <2> QED BY <2>1, <2>2 DEF OutputInv
<1>14. CASE Exit
  BY <1>14 DEF Exit, OutputInv
<1>15. CASE UNCHANGED vars
  BY <1>15 DEF vars, OutputInv, Text
<1> QED
  BY <1>1, <1>2, <1>3, <1>4, <1>5, <1>6, <1>7, <1>8, <1>9, <1>10, <1>11, <1>12, <1>13, <1>14, <1>15
  DEF Next

\* After a complete run all generated files hold their texts, whatever earlier
\* runs left, for any number of files and whichever writes were cut short.
THEOREM FilesUpToDate == Spec => []UpToDate
<1>1. FileTypes /\ OutputInv => UpToDate
  <2> SUFFICES ASSUME FileTypes, OutputInv, pc = "done", ~short,
                      NEW k \in DOMAIN Texts[image]
               PROVE  out[k] = Texts[image][k]
    BY DEF UpToDate
  <2>1. next > Len(Texts[image])
    BY DEF OutputInv
  <2>2. k < next
    BY <2>1, TextsAssumption DEF FileTypes
  <2> QED BY <2>2 DEF OutputInv
<1> QED BY <1>1, TypesCorrect, OutputStart, OutputStep, PTL DEF Spec

\* No step of any run touches a generated file that holds its text already.
THEOREM IdenticalSkipped == Spec => SkipsIdentical
<1> DEFINE Touched == \A k \in DOMAIN out : out'[k] # out[k] =>
                        k \in DOMAIN Texts[image] /\ out[k] # Texts[image][k]
<1>1. ASSUME FileTypes, OutputInv, [Next]_vars
      PROVE  Touched
  <2>1. CASE OpenOut
    <3>1. Generating /\ ~Identical
      BY <2>1 DEF OpenOut
    <3>2. next \in DOMAIN Texts[image] /\ out[next] # Text
      BY <1>1, <3>1, IdenticalIsText
    <3>3. \A k \in DOMAIN out : out'[k] # out[k] => k = next
      BY <2>1 DEF OpenOut
    <3> QED BY <3>2, <3>3 DEF Text
  <2>2. CASE WriteOut
    <3>1. next <= Len(Texts[image]) /\ out[next] # Text
      BY <1>1, <2>2 DEF WriteOut, OutputInv
    <3>2. next \in DOMAIN Texts[image]
      BY <1>1, <3>1, TextsAssumption DEF FileTypes
    <3>3. \A k \in DOMAIN out : out'[k] # out[k] => k = next
      BY <2>2 DEF WriteOut
    <3> QED BY <3>1, <3>2, <3>3 DEF Text
  <2>3. ~OpenOut /\ ~WriteOut => out' = out
    BY <1>1 DEF Next, vars, Change, Start, Reuse, LoadPlain, ApplyPatch, LoadFails, OpenPatched,
                WritePatched, Parse, Skip, Complete, Exit
  <2> QED BY <2>1, <2>2, <2>3
<1>2. Spec => [][Touched]_vars
  BY <1>1, TypesCorrect, OutputStart, OutputStep, PTL DEF Spec
<1> QED BY <1>2 DEF SkipsIdentical

----------------------------------------------------------------------------

LEMMA ImageStart == Init => ImageInv
BY DEF Init, ImageInv, Working

\* What a run on the inputs as they are works on, once it has loaded a file.
LEMMA LoadedIsDetermined ==
  ASSUME FileTypes, ImageInv, Reuse \/ LoadPlain \/ ApplyPatch
  PROVE  /\ pc' \in Working => image' = Determined' /\ Settled'
         /\ pc' \notin Working =>
              /\ pc' = "open" /\ image' = <<xex, patch>> /\ image' \in Patched
              /\ config.patch /\ config.patched /\ last = NoImage
         /\ UNCHANGED <<inputs, patched, short, last>>
<1>1. CASE Reuse
  BY <1>1 DEF Reuse, Reusable, Determined, Settled, Working, inputs
<1>2. CASE LoadPlain
  BY <1>2 DEF LoadPlain, Reusable, Determined, Settled, Working, inputs
<1>3. CASE ApplyPatch
  <2>1. config.patched => last = NoImage
    BY <1>3 DEF ApplyPatch, ImageInv, Settled
  <2>2. UNCHANGED <<inputs, patched, short, last>>
    BY <1>3 DEF ApplyPatch
  <2>3. image' = <<xex, patch>> /\ image' \in Patched /\ config.patch
    BY <1>3 DEF ApplyPatch, Patched
  <2>4. CASE config.patched
    <3>1. pc' = "open"
      BY <1>3, <2>4 DEF ApplyPatch
    <3> QED BY <2>1, <2>2, <2>3, <2>4, <3>1 DEF Working
  <2>5. CASE ~config.patched
    <3>1. pc' = "parse"
      BY <1>3, <2>5 DEF ApplyPatch
    <3> QED BY <2>2, <2>3, <2>5, <3>1 DEF Working, Determined, Settled, Reusable, inputs
  <2> QED BY <2>4, <2>5
<1> QED BY <1>1, <1>2, <1>3

\* Steps that leave the inputs and the patched file alone keep the invariant, unless they
\* begin to work on an image or end a run.
LEMMA ImageKept ==
  ASSUME ImageInv, UNCHANGED <<inputs, patched, last, image>>,
         pc' \in {"open", "write"} => pc \in {"open", "write"},
         pc' \in Working => pc \in Working /\ (~short' => ~short)
  PROVE  ImageInv'
<1>1. Determined' = Determined /\ (Settled' <=> Settled) /\ config' = config /\ xex' = xex /\ patch' = patch
  BY DEF Determined, Settled, Reusable, inputs
<1> QED BY <1>1 DEF ImageInv

LEMMA ImageStep == FileTypes /\ ImageInv /\ [Next]_vars => ImageInv'
<1> SUFFICES ASSUME FileTypes, ImageInv, [Next]_vars PROVE ImageInv'
  OBVIOUS
<1>1. CASE Change
  BY <1>1 DEF Change, ImageInv, Working
<1>2. CASE Start
  BY <1>2, ImageKept DEF Start, Working
<1>3. CASE Reuse \/ LoadPlain \/ ApplyPatch
  <2>1. last' # NoImage => last' = Determined' /\ Settled'
    BY <1>3, LoadedIsDetermined DEF ImageInv, Determined, Settled, Reusable, inputs
  <2>2. CASE pc' \in Working
    BY <1>3, <2>1, <2>2, LoadedIsDetermined DEF ImageInv, Working
  <2>3. CASE pc' \notin Working
    BY <1>3, <2>1, <2>3, LoadedIsDetermined DEF ImageInv, inputs
  <2> QED BY <2>2, <2>3
<1>4. CASE LoadFails
  BY <1>4, ImageKept DEF LoadFails, Working
<1>5. CASE OpenPatched
  <2>1. config.patch /\ config.patched /\ last = NoImage /\ image = <<xex, patch>> /\ image \in Patched
    BY <1>5 DEF OpenPatched, ImageInv
  <2>2. UNCHANGED <<inputs, image, last>>
    BY <1>5 DEF OpenPatched
  <2>3. CASE pc' = "write"
    BY <2>1, <2>2, <2>3 DEF ImageInv, Working, inputs
  <2>4. CASE pc' = "parse" /\ short' = TRUE
    BY <2>1, <2>2, <2>4 DEF ImageInv
  <2> QED BY <1>5, <2>3, <2>4 DEF OpenPatched
<1>6. CASE WritePatched
  <2>1. config.patch /\ config.patched /\ last = NoImage /\ image = <<xex, patch>> /\ image \in Patched
    BY <1>6 DEF WritePatched, ImageInv
  <2>2. UNCHANGED <<inputs, image, last>> /\ pc = "write"
    BY <1>6 DEF WritePatched
  <2>3. CASE pc' = pc
    BY <2>1, <2>2, <2>3 DEF ImageInv, Working, inputs
  <2>4. CASE patched' = Kept /\ pc' = "parse"
    <3>1. patched' = image' /\ config'.patched /\ image' \notin {Missing, Truncated}
      BY <2>1, <2>2, <2>4, PatchedAssumption DEF Kept, inputs
    <3>2. image' = Determined' /\ Settled'
      BY <3>1 DEF Determined, Settled, Reusable
    <3> QED BY <2>1, <2>2, <2>4, <3>2 DEF ImageInv
  <2>5. CASE pc' = "parse" /\ short' = TRUE
    BY <2>1, <2>2, <2>5 DEF ImageInv
  <2> QED BY <1>6, <2>3, <2>4, <2>5 DEF WritePatched
<1>7. CASE Parse
  BY <1>7, ImageKept DEF Parse, Working
<1>8. CASE Skip
  BY <1>8, ImageKept DEF Skip, Working
<1>9. CASE OpenOut
  BY <1>9, ImageKept DEF OpenOut, Working, Generating
<1>10. CASE WriteOut
  BY <1>10, ImageKept DEF WriteOut, Working
<1>11. CASE Complete
  BY <1>11, ImageKept DEF Complete, Working
<1>12. CASE Exit
  <2>1. UNCHANGED <<inputs, patched, image>> /\ pc' = "idle"
    BY <1>12 DEF Exit
  <2>2. Determined' = Determined /\ (Settled' <=> Settled)
    BY <2>1 DEF Determined, Settled, Reusable, inputs
  <2>3. CASE pc = "done" /\ ~short
    <3>1. last' = image
      BY <1>12, <2>3 DEF Exit
    <3>2. image = Determined /\ Settled
      BY <2>3 DEF ImageInv, Working
    <3> QED BY <2>1, <2>2, <3>1, <3>2 DEF ImageInv, Working
  <2>4. CASE ~(pc = "done" /\ ~short)
    <3>1. last' \in {NoImage, last}
      BY <1>12, <2>4 DEF Exit
    <3> QED BY <2>1, <2>2, <3>1 DEF ImageInv, Working
  <2> QED BY <2>3, <2>4
<1>13. CASE UNCHANGED vars
  BY <1>13, ImageKept DEF vars
<1> QED
  BY <1>1, <1>2, <1>3, <1>4, <1>5, <1>6, <1>7, <1>8, <1>9, <1>10, <1>11, <1>12, <1>13
  DEF Next

\* Runs on unchanged inputs recompile the same image, although one patches the
\* executable and the next reuses the file, wherever runs between them were killed.
THEOREM RunsRepeat == Spec => []Repeatable
<1>1. ImageInv => Repeatable
  BY DEF ImageInv, Repeatable, Working
<1> QED BY <1>1, TypesCorrect, ImageStart, ImageStep, PTL DEF Spec
==============================================================================
