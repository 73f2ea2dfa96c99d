--------------------------- MODULE RecompilerFiles ---------------------------
(***************************************************************************)
(* The files XenonRecomp keeps from one run to the next: the patched       *)
(* executable, which Recompiler::LoadConfig makes and reuses, and the      *)
(* generated sources, which Recompiler::SaveCurrentOutData rewrites only   *)
(* when they change.  Runs may be killed, writes may be cut short, and the *)
(* user changes inputs and configuration between runs.                     *)
(***************************************************************************)
EXTENDS Integers, Sequences, FiniteSets

CONSTANTS
  Xexes,        \* versions of the executable at file_path
  Patches,      \* versions of the patch at patch_file_path
  Compatible,   \* the pairs <<executable, patch>> that XexPatcher::apply accepts
  Texts,        \* [image -> the texts generated for it: [size, body], in order]
  Outputs       \* the most files any image is generated to

None == "none"

\* An image is known by what it was made of; Torn is the start of a patched file.
Patched == Compatible
Torn == <<"torn", "torn">>
Images == (Xexes \X {None}) \cup Patched \cup {Torn}
NoImage == <<None, None>>

\* What the patched file may hold besides an image.
Missing == <<"missing", "missing">>
Truncated == <<"truncated", "truncated">>

\* What a generated file may hold besides its text; Cut is the start of a text.
Absent == [size |-> 0, body |-> "absent"]
Empty == [size |-> 0, body |-> "empty"]
Cut == [size |-> 0, body |-> "cut"]

\* Every text is written to a file of its own, and no text is empty.
ASSUME TextsAssumption ==
  /\ Outputs \in Nat
  /\ \A i \in Images :
       /\ Len(Texts[i]) \in 0 .. Outputs /\ DOMAIN Texts[i] = 1 .. Len(Texts[i])
       /\ \A k \in DOMAIN Texts[i] :
            LET text == Texts[i][k] IN
            text.size \in Nat \ {0} /\ text = [size |-> text.size, body |-> text.body]

\* A patched executable is not mistaken for a file that holds none.
ASSUME PatchedAssumption == Missing \notin Patched /\ Truncated \notin Patched

VARIABLES
  xex, patch,  \* the files of the user; either may be missing
  config,      \* [patch, patched]: is patch_file_path set, is patched_file_path
  patched,     \* the patched executable: an image, Missing or Truncated
  out,         \* the generated files: texts, Absent, Empty or Cut
  pc,          \* where the run is; "idle" between runs
  image,       \* the image being recompiled
  next,        \* the file being generated
  short,       \* history: did a write fail in this run
  last         \* history: the image of the last complete run on these inputs

inputs == <<xex, patch, config>>

vars == <<inputs, patched, out, pc, image, next, short, last>>

----------------------------------------------------------------------------

Init ==
  /\ xex \in Xexes
  /\ patch \in Patches \cup {None}
  /\ config \in [patch : BOOLEAN, patched : BOOLEAN]
  /\ patched = Missing
  /\ out = [k \in 1 .. Outputs |-> Absent]
  /\ pc = "idle"
  /\ image = <<xex, None>>
  /\ next = 1
  /\ short = FALSE
  /\ last = NoImage

\* The user replaces an input or edits the configuration between runs.
Change ==
  /\ pc = "idle"
  /\ xex' \in Xexes \cup {None}
  /\ patch' \in Patches \cup {None}
  /\ config' \in [patch : BOOLEAN, patched : BOOLEAN]
  /\ last' = NoImage
  /\ UNCHANGED <<patched, out, pc, image, next, short>>

Start ==
  /\ pc = "idle"
  /\ pc' = "load"
  /\ next' = 1
  /\ short' = FALSE
  /\ UNCHANGED <<inputs, patched, out, image, last>>

----------------------------------------------------------------------------
\* LoadConfig.

\* LoadFile on the patched file returns something.
Reusable == config.patched /\ patched \notin {Missing, Truncated}

Reuse ==
  /\ pc = "load"
  /\ Reusable
  /\ image' = patched
  /\ pc' = "parse"
  /\ UNCHANGED <<inputs, patched, out, next, short, last>>

LoadPlain ==
  /\ pc = "load"
  /\ ~Reusable
  /\ xex # None
  /\ ~config.patch
  /\ image' = <<xex, None>>
  /\ pc' = "parse"
  /\ UNCHANGED <<inputs, patched, out, next, short, last>>

\* The patch is applied, and the file to keep is opened when it is configured.
ApplyPatch ==
  /\ pc = "load"
  /\ ~Reusable
  /\ config.patch
  /\ <<xex, patch>> \in Compatible
  /\ image' = <<xex, patch>>
  /\ pc' = IF config.patched THEN "open" ELSE "parse"
  /\ UNCHANGED <<inputs, patched, out, next, short, last>>

\* The executable or the patch is missing, or the patch does not apply.
LoadFails ==
  /\ pc = "load"
  /\ ~Reusable
  /\ xex = None \/ (config.patch /\ <<xex, patch>> \notin Compatible)
  /\ pc' = "failed"
  /\ UNCHANGED <<inputs, patched, out, image, next, short, last>>

\* std::ofstream truncates the file; when it cannot, the run goes on without.
OpenPatched ==
  /\ pc = "open"
  /\ \/ patched' = Truncated /\ pc' = "write" /\ UNCHANGED short
     \/ UNCHANGED patched /\ pc' = "parse" /\ short' = TRUE
  /\ UNCHANGED <<inputs, out, image, next, last>>

\* Mutant of Kept: the executable is kept as it was before the patch.
KeptUnpatched == <<image[1], None>>

\* The bytes of file after std::exchange(file, outBytes).
Kept == image

\* stream.write and close do not report how far they got.
WritePatched ==
  /\ pc = "write"
  /\ \/ patched' = Torn /\ UNCHANGED <<pc, short>>
     \/ patched' = Kept /\ pc' = "parse" /\ UNCHANGED short
     \/ UNCHANGED patched /\ pc' = "parse" /\ short' = TRUE
  /\ UNCHANGED <<inputs, out, image, next, last>>

\* ParseImage; a torn file may still look like an executable.
Parse ==
  /\ pc = "parse"
  /\ \/ pc' = "generate"
     \/ image = Torn /\ pc' = "failed"
  /\ UNCHANGED <<inputs, patched, out, image, next, short, last>>

----------------------------------------------------------------------------
\* SaveCurrentOutData, once for each file.

Text == Texts[image][next]

\* Mutant of Identical: a file of the right size is left alone.
IdenticalSize ==
  out[next] \notin {Absent, Empty, Cut} /\ out[next].size = Text.size

\* Mutant of Identical: files are always written.
IdenticalNever == FALSE

\* The sizes, then the hashes of file and text are compared.
Identical ==
  /\ out[next] \notin {Absent, Empty, Cut}
  /\ out[next].size = Text.size
  /\ out[next].body = Text.body

Generating == pc = "generate" /\ next <= Len(Texts[image])

Skip ==
  /\ Generating
  /\ Identical
  /\ next' = next + 1
  /\ UNCHANGED <<inputs, patched, out, pc, image, short, last>>

\* fopen truncates the file, or fails and ends the program.
OpenOut ==
  /\ Generating
  /\ ~Identical
  /\ \/ out' = [out EXCEPT ![next] = Empty] /\ pc' = "save"
     \/ UNCHANGED out /\ pc' = "failed"
  /\ UNCHANGED <<inputs, patched, image, next, short, last>>

\* fwrite and fclose; neither result is looked at.
WriteOut ==
  /\ pc = "save"
  /\ \/ out' = [out EXCEPT ![next] = Cut] /\ UNCHANGED <<pc, next, short>>
     \/ out' = [out EXCEPT ![next] = Text] /\ pc' = "generate" /\ next' = next + 1 /\ UNCHANGED short
     \/ UNCHANGED out /\ pc' = "generate" /\ next' = next + 1 /\ short' = TRUE
  /\ UNCHANGED <<inputs, patched, image, last>>

Complete ==
  /\ pc = "generate"
  /\ next > Len(Texts[image])
  /\ pc' = "done"
  /\ UNCHANGED <<inputs, patched, out, image, next, short, last>>

\* The process ends, or is killed, and leaves the files as they are.
Exit ==
  /\ pc # "idle"
  /\ pc' = "idle"
  /\ last' = IF pc = "done" /\ ~short THEN image ELSE IF short THEN NoImage ELSE last
  /\ UNCHANGED <<inputs, patched, out, image, next, short>>

Next ==
  \/ Change \/ Start
  \/ Reuse \/ LoadPlain \/ ApplyPatch \/ LoadFails \/ OpenPatched \/ WritePatched \/ Parse
  \/ Skip \/ OpenOut \/ WriteOut \/ Complete \/ Exit

Spec == Init /\ [][Next]_vars

----------------------------------------------------------------------------

\* After a complete run every generated file is the one of this run's image,
\* whatever an earlier run, killed anywhere and on other inputs, left behind.
UpToDate ==
  pc = "done" /\ ~short => \A k \in DOMAIN Texts[image] : out[k] = Texts[image][k]

\* "Check if an identical file already exists first to not trigger
\* recompilation": a file that holds its text is never touched, not even for
\* the moment between truncation and writing.
SkipsIdentical ==
  [][\A k \in DOMAIN out : out'[k] # out[k] =>
       k \in DOMAIN Texts[image] /\ out[k] # Texts[image][k]]_vars

\* A run on unchanged inputs recompiles the image of the last complete run,
\* although one of them patches the executable and the next reuses a file.
Repeatable == pc = "done" /\ last # NoImage => image = last
=============================================================================
