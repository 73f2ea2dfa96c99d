------------------------------- MODULE CrtHelpers -------------------------------
(***************************************************************************)
(* DetectCrtHelpers and its use in Recompiler::LoadConfig: the functions   *)
(* that save and restore the non-volatile registers are looked for in the  *)
(* code sections, word by word, and the first run of loads or stores that  *)
(* looks like one is taken for it, unless the configuration names one.     *)
(*                                                                         *)
(* A word is a record of the fields that the detection tests.              *)
(***************************************************************************)
EXTENDS Integers, Sequences

CONSTANTS
  Count,        \* general, floating and lower vector registers that are saved (18 in the code)
  Count64       \* upper vector registers that are saved (64 in the code)

ASSUME CrtHelpersAssumption == Count \in Nat \ {0} /\ Count64 \in Nat \ {0}

VARIABLES
  image,        \* sections: base, whether code, words
  section,      \* the section that is scanned; Len(image) + 1 at the end
  word,         \* the word that is looked at
  detected,     \* address of each helper found, or 0
  config        \* address of each helper in the configuration, or 0

helperVars == <<image, section, word, detected, config>>

Helpers == {"restGpr14", "saveGpr14", "restFpr14", "saveFpr14",
            "restVmx14", "saveVmx14", "restVmx64", "saveVmx64"}

First(h) == IF h \in {"restVmx64", "saveVmx64"} THEN 64 ELSE 14
Registers(h) == IF h \in {"restVmx64", "saveVmx64"} THEN Count64 ELSE Count

\* Mutant of RegisterRun: the displacements are not compared.
RegisterRunAnywhere(words, i, op, base, stride) ==
  /\ i + Count - 1 <= Len(words)
  /\ \A k \in 0 .. (Count - 1) :
       words[i + k].op = op /\ words[i + k].rt = 14 + k /\ words[i + k].ra = base

\* DetectRegisterRun: ascending registers, and displacements that go up with them.
RegisterRun(words, i, op, base, stride) ==
  /\ i + Count - 1 <= Len(words)
  /\ \A k \in 0 .. (Count - 1) :
       /\ words[i + k].op = op /\ words[i + k].rt = 14 + k /\ words[i + k].ra = base
       /\ words[i + k].d = words[i].d + k * stride

\* DetectVectorPairRun: each load or store has a setup instruction before it; what
\* that sets up is not looked at.
VectorPairRun(words, i, op, first, count) ==
  /\ i > 1 /\ i - 2 + 2 * count <= Len(words)
  /\ \A k \in 0 .. (count - 1) :
       /\ words[i + 2 * k].op = op /\ words[i + 2 * k].rt = first + k
       /\ words[i + 2 * k].ra = words[i].ra /\ words[i + 2 * k].rb = words[i].rb
       /\ words[i + 2 * k - 1].op = "addi"

GprRun(words, i, op64, op32) ==
  RegisterRun(words, i, op64, 1, 8) \/ RegisterRun(words, i, op32, 1, 4)

FprRun(words, i, op) ==
  words[i].op = op /\ RegisterRun(words, i, op, words[i].ra, 8)

Looks(h, words, i) ==
  CASE h = "restGpr14" -> GprRun(words, i, "ld", "lwz")
    [] h = "saveGpr14" -> GprRun(words, i, "std", "stw")
    [] h = "restFpr14" -> FprRun(words, i, "lfd")
    [] h = "saveFpr14" -> FprRun(words, i, "stfd")
    [] h = "restVmx14" -> VectorPairRun(words, i, "lvx", 14, Count)
    [] h = "saveVmx14" -> VectorPairRun(words, i, "stvx", 14, Count)
    [] h = "restVmx64" -> VectorPairRun(words, i, "lvx128", 64, Count64)
    [] h = "saveVmx64" -> VectorPairRun(words, i, "stvx128", 64, Count64)

Vector(h) == h \in {"restVmx14", "saveVmx14", "restVmx64", "saveVmx64"}

\* A vector helper begins with the setup instruction.
Start(h, address) == IF Vector(h) THEN address - 4 ELSE address

ScanInit ==
  /\ section = 1 /\ word = 1
  /\ detected = [h \in Helpers |-> 0]

Scanning == section <= Len(image)

NextSection ==
  /\ Scanning
  /\ ~image[section].code \/ word > Len(image[section].words)
  /\ section' = section + 1 /\ word' = 1
  /\ UNCHANGED <<image, detected, config>>

\* One word; the scan ends when every helper is found.
Inspect ==
  /\ Scanning /\ image[section].code /\ word <= Len(image[section].words)
  /\ LET address == image[section].base + 4 * (word - 1)
         after == [h \in Helpers |->
                     IF detected[h] = 0 /\ Looks(h, image[section].words, word)
                     THEN Start(h, address) ELSE detected[h]]
     IN /\ detected' = after
        /\ IF \A h \in Helpers : after[h] # 0
             THEN section' = Len(image) + 1 /\ word' = 1
             ELSE section' = section /\ word' = word + 1
  /\ UNCHANGED <<image, config>>

ScanNext == NextSection \/ Inspect

----------------------------------------------------------------------------

\* LoadConfig: an address in the configuration is kept.
AddressOfHelper(h) == IF config[h] # 0 THEN config[h] ELSE detected[h]

\* Analyse: each register has an entry in a helper, named after it.
EntryStep(h) == IF Vector(h) THEN 8 ELSE 4

HelperEntries ==
  UNION {{AddressOfHelper(h) + EntryStep(h) * k : k \in 0 .. (Registers(h) - 1)} :
           h \in {g \in Helpers : AddressOfHelper(g) # 0}}
=============================================================================
