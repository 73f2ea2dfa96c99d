# A TLA+ model of XenonRecomp

XenonRecomp translates an Xbox 360 executable into C++. This directory holds
TLA+ modules that model it from the files it reads to the code it generates, TLC
configurations that check them on small instances, and proofs, checked by
TLAPS, of the properties that matter most. `PROJECT.json` lists the runs, the
lines of the source each definition stands for, the finding and the hazards.

    tlc -workers 2 -config FunctionAnalyze.cfg MCFunctionAnalyze.tla
    tlapm FunctionAnalyzeProofs.tla    (and the other modules named ...Proofs)

## The system

The tools are sequential batch programs. What runs concurrently is the code they
generate: guest threads become host threads on one memory.

| Part | State | Operations | Hard behaviour |
|---|---|---|---|
| `XexPatcher::apply` (`XenonUtils/xex_patcher.cpp`) | one buffer that is expanded in place, four keys | check, rewrite the header, decrypt, expand, apply the update's blocks | a refusal for each thing that may not fit; overlapping copies; sizes from several headers |
| `Image::ParseImage`, `Xex2LoadImage`, `ElfLoadImage` (`xex.cpp`, `image.cpp`) | the image, its sections and symbols | recognise, decrypt, decompress, map, link imports | sections that stick out, share an address or are empty; thunks patched in place |
| CRT helper detection (`crt_helpers.cpp`) | eight addresses | one scan over the code | code that looks like a helper |
| `XenonAnalyse` (`XenonAnalyse/main.cpp`) | a list of jump tables | four patterns over each section, a backward scan, reading of the table | counts and bases from misread words |
| `Function::Analyze` (`XenonAnalyse/function.cpp`) | block list, stack of pending blocks, cursor | one step of the loop for each word, then sort, drop, clamp | a worklist that rewinds its cursor, projections in wrapping arithmetic, garbage as input |
| `Recompiler::Analyse` (`XenonRecomp/recompiler.cpp:142`) | function list, symbol table | six passes in a fixed order | boundaries of the same words from five sources that disagree |
| `Recompiler::Recompile(Function)` and `Recompile(instruction)` | labels, pending switch table, known flush mode, local variables, output | a pass that collects labels, a pass that prints | the two passes must agree; cached knowledge must be dropped where paths join |
| generated code with `XenonUtils/ppc_context.h` | guest context, host control register, guest memory | the printed statements | widths, carries, byte order, longjmp, hooks, threads, store buffers |
| `LoadConfig`, `SaveCurrentOutData` | patched executable, generated files | load or patch, parse; compare, truncate, write | killed runs, short writes, stale files |
| `TestRecompiler` (`test_recompiler.cpp`) | symbols of the tests, `main.cpp` | recompile objects, read disassemblies, read annotated sources | a parser of loops that each eat the line that ends them |
| configuration, XDBF, memory mapping, disassembler | read-only | lookups | none of its own |

`LoadConfig` patches and parses the executable, looks for helpers and gives the
image to `Recompiler::Analyse`, which calls `Function::Analyze` for each word run
nobody described and leaves the function list to `Recompile`. The symbol table is
the shared state between these passes: what one of them registers the next ones
look up. The jump tables come from a file that `XenonAnalyse` wrote earlier.
`Recompile` calls `SaveCurrentOutData` after every 256 functions.

What makes each part correct:

* *Patcher and loader*: what is mapped and linked is the image the file was made
  from, or what the update makes of it; an update for something else is refused;
  each address of a section is found at its own bytes.
* *Detection*: each helper and each jump table is found, as the linker and the
  compiler placed it, and nothing else is taken for one.
* *Function::Analyze*: it ends; it reports at least one word and never more than
  the region; it reports all reachable code where the code has a well-defined
  extent; its cursor is always at the end of the block on top of the stack.
* *Recompiler::Analyse*: it ends; no address becomes two functions by accident;
  no function leaves its section; no word of a code section is skipped
  unnoticed; each call finds a function; case bodies are inside the function
  that switches to them.
* *Recompile*: each goto has its label; floating point runs in its flush mode;
  the C++ goes where the guest goes, through switches too; registers that become
  local variables are not missed by anyone.
* *Instructions*: registers, conditions, carries, lanes and bytes of memory are
  those of the processor.
* *Generated memory accesses*: the atomic sequences are atomic, program order is
  kept as far as the guest may rely on it, waiting threads get through.
* *Files*: what a completed run leaves does not depend on what was there before;
  files that are right are not touched; a repeated run repeats.
* *Tests*: each test that can be run is run and checked, and no other one is lost
  without a word.

## Modules

| Module | Models | State and actions in the code |
|---|---|---|
| `FunctionExtent` | the promise of `Function::Analyze` | one action, `Report`: a size between one word and the run of reachable words, and exactly that run on regular code |
| `FunctionAnalyze` | `Function::Analyze` | `blocks`, `stack`, `data` are the code's variables; `Fallthrough` is line 98, `Scan...` one action for each branch of the loop, `Trim` everything after it |
| `FunctionAnalyzeProofs` | theorems about it, and that it keeps the promise | |
| `RecompilerAnalyse` | `Recompiler::Analyse` with `FindSection` and `SymbolTable::find` | one group of actions for each pass; `phase` is the pass, `index` and `at` its loop variables |
| `RecompilerAnalyseProofs` | theorems about it | |
| `NaturalLemmas` | | what these proofs need about least and greatest numbers and about counting |
| `GuestFlow` | where a guest function's control goes | `Execute`, `Divert` (a hook), `LongJump` |
| `RecompileFunction` | the two passes of the translation | `labels`, `table` (the `switchTable` iterator), `csrState` and `out` are the code's; `CollectLabels`, `EmitWord` one loop iteration each |
| `GeneratedCode` | the execution of what was emitted | `host` is the processor's flush bits, `csr` the copy in `ctx.fpscr`; one action for each statement |
| `GeneratedCodeProofs` | theorems about these three | |
| `HostArithmetic` | the integers of C++ with W and 2W bits | |
| `ScalarInstructions` | what `Recompile(instruction)` prints for integer, compare, move and floating point instructions | operators that take registers to registers |
| `VectorLanes` | the same for lane-wise vector instructions, with the helpers of `ppc_context.h` | |
| `PowerScalar`, `PowerVector` | the same instructions as the processor defines them (external) | |
| `InstructionsLockstep` | one instruction on both sides | one action for each group of instructions |
| `GeneratedStorage` | loads, stores and vector permutations as bytes of the host | one action for each group; `mem`, `r`, `f`, `v` |
| `PowerStorage` | the same as bytes of the guest (external) | the actions `GeneratedStorage` implements |
| `GeneratedStorageProofs` | theorems about both | |
| `SequentialMemory` | the memory guest threads expect | one action, `Operate` |
| `SharedMemory` | generated loads, stores and atomics on a host with store buffers | `reserved` and `reg` are in the guest context; `pc` counts the operations of the guest's source and `step` the instructions of the current one; one action for each kind of statement, `Drain` for the processor |
| `SharedMemoryProofs` | theorems about it | |
| `RecompilerFiles` | the files kept between runs | `pc` is the place in `LoadConfig` and `SaveCurrentOutData`; `Exit` may happen anywhere, `Change` between runs |
| `RecompilerFilesProofs` | theorems about it | |
| `XexFile` | the fields of a XEX file and the external ciphers and LZX | |
| `XexPatcher` | `XexPatcher::apply` | `step` is the place in the function, `out` is `outBytes`; one action for each check or copy, one for each block |
| `ImageSections` | `Image::Map`, `FindSection`, `Find`, `ElfLoadImage` | |
| `XexLoader` | `Image::ParseImage` and `Xex2LoadImage` | `phase` is the place, `image` the buffer; one action for each block, section and import |
| `XexImage` | the composition: how files are made, the update, the loader | `XexPatcher` and `XexLoader` one after the other |
| `XexImageProofs` | theorems about these five | |
| `JumpTables` | `XenonAnalyse`: `SearchMask`, `ScanTable`, `ReadTable` | `pattern`, `section`, `cursor` are the loops; one action, `Scan`, for each candidate |
| `SwitchDispatch` | the compiled switch, its discovery and the generated switch | `Run`, `Execute` run the console's and the generated code together |
| `CrtHelpers` | `DetectCrtHelpers` and its use in `LoadConfig` | one action for each word |
| `GuestProgram` | programs that keep to the calling convention, and their helpers (external) | |
| `LocalVariables` | the options that make registers local variables | `regs` and `mem` are the console's, `ctx`, `frames` and `memory` the generated code's; one action for each instruction of both |
| `TestRecompiler` | `RecompileTests` | `phase` is the loop, `expects` the place in the parser; one action for each inner loop or iteration |
| `MC...` | the instances for TLC | |

How they are composed. `GeneratedCode` extends `RecompileFunction`: a function is
translated, then the translation is executed. `RecompilerAnalyse` replaces the
call of `Function::Analyze` by any result that `FunctionAnalyze` is shown to
allow (its operator `Analyzed`). `XexImage` runs `XexPatcher`, then `XexLoader`,
which maps through `ImageSections`. `SwitchDispatch` runs `JumpTables`, then the
switch that is generated from the table. `LocalVariables` runs `CrtHelpers` on
the image of a `GuestProgram`, then the program itself with the calls that are
left out when the helpers are known.

Abstract specifications that a detailed one implements, each checked as a
property: `FunctionExtent` (by `FunctionAnalyze`, property `ReportsExtent`),
`GuestFlow` (by `GeneratedCode`, `FollowsGuest`), `PowerStorage` (by
`GeneratedStorage`, `FollowsPower`, where a register of the guest is the host's
read from its other end) and `SequentialMemory` (by `SharedMemory`,
`FollowsSequential`, where memory is the byte-swapped host memory and a store has
taken effect when it left the buffer: a thread stands as many operations before its `pc` as
its buffer holds stores). `InstructionsLockstep`, `SwitchDispatch`
and `LocalVariables` run the generated code and the console side by side and
compare their states.

### Abstractions

* Addresses and sizes are in words; instructions are the kinds that the code
  tells apart. A word the disassembler does not know, a zero and a return all
  end a path and are one kind in `FunctionAnalyze`.
* In `GuestFlow` and `GeneratedCode` the position `Length` stands for
  everywhere outside the function. A mid-asm hook may fall through, return or
  jump; it leaves the flush mode as it is. A called function may return in either
  mode with its saved copy in agreement. The host's `longjmp` brings back the
  floating point control register, as that of Windows does.
* A word has W bits and a doubleword 2W in `HostArithmetic`; the run takes W = 8, so
  that a word still has two halves of whole hexadecimal digits and a condition
  register two fields. Floats are integers and one NaN with fewer bits of
  precision than a word has (`Double`, `Single`), so that rounding, saturation and
  unordered comparisons happen. Every operation of the printed C++ rounds its result, and so
  does `float()` around it; the processor's instructions (`ExactOf` of `PowerScalar`) round
  once.
* A vector has two words in `VectorLanes`, where lanes are independent, and its
  16 bytes in `GeneratedStorage`, where positions matter.
* `OrderedAssumption`: in the programs of `SharedMemory` no plain load follows a
  plain store without an atomic sequence between them. The generated code
  drops `sync`, so x86 may reorder these two and the property would not hold. A
  load is done where it is written; the compiler does not move it.
* Words have two bytes in `SharedMemory`, enough for a byte swap to matter, and wrap at
  `Modulus`. How many values a byte has is the constant `Byte`.
* In `RecompilerFiles` two different texts have different hashes, and a file is
  known by the text it holds, not by its bytes. The texts depend on the image
  alone: the options of the configuration and the context header, which they
  depend on too, would only be further versions of it.
* In `XexFile` a cell stands for a field or for a run of bytes; a cell of the image is a word
  of two digits, which a byte swap exchanges: the type and the ordinal of an import. AES
  appends the key as a digit, LZX packs two cells into one and refers to a window,
  hashes match: enough for a wrong key, a wrong order of blocks, or a window of
  the wrong place to be seen. The optional headers are always found. What is written
  behind a buffer is lost in the model, and the program may then stop (`crashed`), fail or
  go on.
* What a base file, an update and a table of sections or imports may look like is
  what their makers produce, not any sequence of bytes: `FilesAssumption` of `XexImage`
  (under Proofs). The variable `made` remembers the image and the body a base file was made of.
* In `JumpTables` an address has two halves below `Half`, so that the sums of
  upper and lower halves carry.
* In `CrtHelpers` the helpers have `Count` registers (18 in the code) and
  `Count64` upper vector registers (64).
* In `TestRecompiler` the size of a function is what `FunctionExtent` promises.
  The memory that tests share is not in the model.

## Runs

| Run | Shows | Bounds | Distinct states |
|---|---|---|---|
| `FunctionAnalyze` | bookkeeping of the worklist, termination, refinement of `FunctionExtent` | every program of three words and the word behind them, branches to every word of the region, one before and two behind; with and without a fraction of a word; six blocks | 611,959 |
| `RecompilerAnalyse` | no accidental duplicates, section bounds, no holes, calls resolved, extension, termination | two code sections with data and a hole between, six mapped words; each source present or not, with sizes that are zero, right and too large | 818,920 |
| `GeneratedCode` | labels, flush mode, refinement of `GuestFlow` | every three words of 18 kinds; tables that start before and behind their `bctr`; four hooks before or after a word; functions cut at the section's end | 182,924 |
| `Instructions` | registers, carry, conditions, floats and lanes agree with the processor | one instruction from registers at the borders of words and doublewords, both hosts, every rounding mode; immediates and masks that wrap; floats that each operation has to round | 80,871 |
| `Storage` | refinement of `PowerStorage`, both sides of an address meet | two instructions, 64 bytes of memory, offsets within a line, at its end and beyond it | 125,390 |
| `SharedMemory` | refinement of `SequentialMemory`, termination | nine programs of three threads: increments, critical sections, message passing, loads behind atomics | 3,484 |
| `RecompilerFiles` | up to date, repeatable, files that are right untouched | two executables, two patches, five images of one to three files that share texts and sizes; any number of runs | 334,736 |
| `XexImage` | the promised image is mapped and linked; updates applied or refused; addresses found | four compressions, two encryptions, corrupt frames; an image of 16 cells in two blocks or one of two chunks, one of 13 in three blocks, of which two have no zeros, or two chained ones; updates with other headers, keys, moves and clears, and sizes below, at and above the image's; seven tables of sections and imports, with words visited twice and code that sticks out; three ELF files | 542,262 |
| `SwitchDispatch` | tables found as the compiler meant them, the generated switch goes where the console goes | four forms, four range checks, gaps up to and beyond the reach of the scan (14 words for 32), one or two dispatches, cut tables, biased indexes, borders of a word | 84,960 |
| `LocalVariables` | helpers found at their addresses; the options change nothing another function sees | three functions, five ways to save registers, four decoys before or after the helpers, every set of options | 196,520 |
| `LocalVariablesLeave` | finding: r12 leaves the function scope | as above | |
| `TestRecompiler` | each test is run and checked or reported | two suites, in either order, one to three tests of eight shapes, missing files, sections in either order | 639,274 |

`LocalVariablesLeave` checks one property, which the README of the repository
states and the code does not keep; `findings` in `PROJECT.json` quotes it.

Why the bounds are enough. In `FunctionAnalyze` three words let two branches
meet, a block be found before it is scanned, a projection be met, wrap around
and be inherited, and a gap appear; the safety properties are proved for every
length anyway. Six blocks are more than three words can have, so that no program
of the run meets the limit of 2^20 blocks; it is the constant `MaxBlocks`, and
the proofs say what holds in regions that may exceed it. The
modulus of 64 words is far from every real address, as 2^64 is in the code. In
`RecompilerAnalyse` each pass meets words that every earlier pass described. In
`GeneratedCode` three words are the least that hold a label, a jump over it and
an instruction that depends on both. In `SharedMemory` three threads are needed
for a change between the load and the swap of another thread, observed by a
third. In `RecompilerFiles` every file is met absent, empty, cut, stale with
the same size, stale with another size, and right. In `Instructions` one step is
enough, since registers start at all combinations; two steps in `Storage` let a
register that one instruction filled be stored by the next. In `XexImage` two blocks are the
fewest whose order matters, a block of two chunks and a chain of two blocks the least that
can be cut wrongly, and an odd image leaves half of its last packed cell over; the proofs
hold for any number of them. In `SwitchDispatch` two dispatches are needed for one to take
the range check of the other. In `LocalVariables` two registers of a class are
the fewest of which a function saves a part; three functions let a middle one be
caller and called.

Deadlock is checked in all runs but `Instructions` and `Storage`, which stop at
their bound `MaxSteps`; modules whose program ends have a step (`Finished`, `Ended`
or its like) that leaves everything as it is.

### Fairness

`FunctionAnalyze` and `RecompilerAnalyse` assume that a running program takes its
next step, weak fairness of the whole next-state relation. `SharedMemory` assumes
weak fairness of each thread, which the host's scheduler gives, and of its store
buffer. There is no fairness between the swaps of two threads: a swap fails only
when another succeeded, and the programs are finite. The other modules have
safety properties only.

## Known deviations

What the model shows the code to do otherwise than a reader would expect. Each is
named where its property excludes it, or is part of the abstractions above.

* `function.cpp:166`: an unconditional branch past the end of the region is
  followed; its block is dropped by the discontinuity pass. `function.cpp:137`: a
  branch to the next instruction projects the size zero, and the block is dropped
  unscanned.
* `recompiler.cpp:289`: calls to a section that is scanned later are left to that
  scan; one into the middle of a function it found stays unresolved.
* `recompiler.cpp:818`: `bdz` and `bdnz` print a `goto` whatever their target is.
* `recompiler.cpp:532`: after `longjmp` the saved copy of the flush mode is
  believed; on hosts whose `longjmp` leaves the control register alone they differ.
* `recompiler.cpp:1474`: the load of `lwarx` is not volatile.
* `recompiler.cpp:19`: the patched file of an earlier run is used even when no
  patch is configured.
* `recompiler.cpp:778`: the switch tests 64 bits of an index of which the console
  compared 32, and its default is declared unreachable. The first word of a
  section is never seen as a range check (`XenonAnalyse/main.cpp:180`), and a dispatch
  without one takes that of its neighbour (`StrayGuard`).
* Instructions (`Deviations` of `InstructionsLockstep`): `addme` loses its carry
  (recompiler.cpp:722); `sraw` and `srad` of the least value by the width or more set no carry; the dotted
  `clrldi`, `rldicl`, `rldicr` and `rotldi` compare 64 bits; `mfocrf` always reads
  cr6; `fctid` and `fctidz` of 2^63 differ; `mffs` on ARM exchanges two rounding
  modes; `vmaxfp` and `vminfp` forget a NaN on one side. The forms of `fmadd`, which the
  processor rounds once, are printed as a product and a sum (recompiler.cpp:1131-1189), and
  `vmaddfp` and `vnmsubfp` as `add_ps` or `sub_ps` of `mul_ps` (2275, 2339): the product is rounded
  first (`RoundsProduct`, `RoundsLane`) unless a compiler contracts the two; the single
  forms round to a double and then to a float (`RoundsTwice`). Dotted forms without a
  comparison are reported by the recompiler and excluded.
* Outside of the model, seen while reading: `vpkswss` packs halfwords
  (`recompiler.cpp:2428`); `vpkd3d128` reads a source it has partly overwritten
  when it is its target as well (2395-2415); traps generate nothing.
* `CrtHelpers`: code that comes before a helper and saves the same registers the same way
  is taken for it (`Fooled`). r12 as a local variable loses the base of the
  floating and vector helpers (`ParameterLost`, the finding).
* `XexPatcher`: `memcpy` of overlapping areas (`OverlappingMove`); a base with normal compression
  is expanded behind the longer header (`ShorterHeader`, `xex_patcher.cpp:548`), and
  `originalSecurityInfo->imageSize` bytes of it without a look at the size of `outBytes`
  (547-551): when the new header and image are shorter together, the image is
  written behind the buffer (`ShorterFile`), where an update for a base with basic
  compression is refused (470). Behind an image that is shorter than its compressed
  body the body's end remains (`LongerBody`). An update whose image is smaller than the body of
  the base is always refused; the fallback for a header size of zero (line 329) never gets
  that far.
* `XexLoader`: the word of an import is swapped where it is, and type and ordinal are read from
  it then (`xex.cpp:540-552`). A list that visits a word twice (`VisitedTwice`) swaps a variable back
  and may take it for a function, whose stub overwrites it and the three words behind;
  the stub of a function in the last words of the image is written behind it.
* `ImageSections`: of two ELF sections at one address the first hides the others,
  even when it is empty (`Shadowed`); a section without bytes in the file shows what
  follows in it.
* `TestRecompiler`: a test without outputs, with a remark in its code or without a
  blank line behind it loses checks or swallows the next test (`Tidy`); tests of one name
  in two suites call the first one (`Distinct`); an object whose first section is not its code is
  passed over (`CodeFirst`).

## Proofs

`FunctionAnalyzeProofs` proves, for every region length, program, block limit
and modulus that satisfy `SizeAssumption` and `InsnAssumption` (branch
displacements are far below the modulus, as PowerPC's 26 bits are):

* `TypeCorrect`, `CursorSync` (the assertion of `function.cpp:97`),
  `BlockBasesDistinct`, `PendingBlocksFresh` and `ReportedSizeInRegion`, which are
  the invariants `TypeOK`, `CursorAtBlockEnd`, `DistinctBases`,
  `PendingUntouched` and `SizeInRegion` of the run.

They follow from `Invariant`, which shows that `IInv` is inductive. None of the
five is inductive alone. The cursor is right after a pop only if the block
below is still empty or where it was left; that block is empty only because the
stack names blocks in the order of their creation and each new one is fresh; it
is fresh and its base unique only because the search that precedes it found no
block there. `Worklist` states this together: distinct bases, an ascending
stack, empty blocks below its top, all block ends under a limit (so that no
wrapped size is met), and the entry block at base zero. `Popped` is the stage
between a pop and the pushes of the same step; `EntryBlock` says what is so
before the first word, so that the reported size is never zero. The lemmas
follow the three moves every action is made of: grow the top (`GrowProperties`),
pop (`PopProperties`, `PopWorklist`), explore an address (`ExploreProperties`).

* `RealGaps` (`GapsAreReal`) and `ProjectionsMeet` (`GrownFallthroughContinues`), from
  a second invariant, `PInv` (`PathInvariant`), which adds to `IInv` what blocks have to
  do with the words they hold. `Walked`: only the last word of a block ends a
  path, and a block that was left (`Finished`) was left at such a word or at
  another block. `ProjectedBlock`: the target of a projection is where
  another block begins or goes on, unless it is behind the block: then its
  wrapped size is above any region. Two blocks that overlap walk the same words, so that the
  one cannot pass where the other stopped; that is why a gap between
  neighbours is a gap for all earlier blocks.

The second half of the module proves the refinement:

* `ExtentReported` (`ReportsExtent`), for every program in a region of at most
  `MaxBlocks` words. A greater region may be cut short by the limit, which is 2^20
  blocks in the code, with blocks still unscanned: there the promise of the exact extent is
  none the code makes.
* `NothingUnreached` needs no such hypothesis: every word before the reported size is
  reachable, whatever the limit and however irregular the code.

Both follow from `EInv` (`ExtentInvariant`), which adds to `PInv`: every word of
a block is among the reachable ones and so is the word a waiting block goes on with (`Visits`);
on regular code, a block that was left holds a word, and wherever its last
word leads there is a block (`Leaves`). A block without a word would leave its address
unscanned; it is popped only when its projected size is zero, which takes a
branch to the next instruction, or a carried projection that ends there, and then the next
address is known already (`ProjectionEndsKnown`). At the end the words held by blocks are a
closed set and contain all reachable ones (`ReachedHeld`); the blocks before the
first gap hold every word up to their greatest end (`RunHolds`); and the word there is held by
none, since a block that held it would begin behind a gap (`TrimStops`, from
`GapsAreReal`).

`RecompilerAnalyseProofs` proves, for every image and configuration with `SectionsAssumption`
(sections lie apart), `FamiliesAssumption` (a save helper is not empty) and
`InputsAssumption` (addresses and sizes are numbers, tables have finitely many labels):

* `FunctionsTyped`, `Duplicates` (`DuplicatesAreExplicit`), `InSection`
  (`FunctionsInSection`), `NoHoles` (`ScanLeavesNoHole`), `CallsAreResolved` (`CallsResolve`)
  and `CaseBodiesCovered` (`ExtensionCoversCaseBodies`).

Its `IInv` has a part for each thing a later pass relies on: where the pass stands (`Cursor`),
that every function's address is known (`Listed`), that no word behind the cursor is
undescribed (`NoHole`) and no call target behind it unknown (`CallsKnown`), and that the list
is sorted once the extension starts (`InOrder`). Functions and symbols are only added together, so that
what is known of an address stays known (`KnownKept`), except for the sort and the extension,
which keep all addresses. That a list can be sorted is proved without induction: the place of
a function is the number of functions not behind it (`Rank`), and `Numbering` of
`NaturalLemmas` shows that these are all places.

`SharedMemoryProofs` proves, for any threads, addresses, values of a byte and programs with
`ByteAssumption` and `OrderedAssumption`:

* `SequentialFollowed` (`FollowsSequential`), the refinement of `SequentialMemory`: however
  long the stores of each thread are delayed, what the threads read is what they would
  read if operations took effect one at a time in program order.

Its `IInv` says of each thread that its buffer holds the stores of its last operations, in
order and none of them older than an operation that read (`Buffered`); what the register and
`ctx.reserved` hold between `lwarx` and `stwcx.` (`Within`); and that the register otherwise
holds what was read last (`Holds`). `OrderedAssumption` is what makes a load see memory: with a
store in the buffer no plain load can be next.

`GeneratedStorageProofs` proves, for a memory of any whole number of lines, any vector
registers and displacements and runs of any length (`SizeAssumption`, `OperandsAssumption`):

* `PowerIsFollowed` (`FollowsPower`), the refinement of `PowerStorage`: each generated load,
  store, shuffle, pack and unpack moves the bytes that the guest's instruction moves.
* `SidesAlwaysMeet` (`SidesMeet`): at every address the loads of the two sides are zero
  where the other is not, and their union, or the permutation of the two lines with the
  shift table, is the unaligned vector.

Their invariant, `StorageInv` (`StorageInvariant`), only says that memory and registers hold
bytes and that the address register is not negative: the selectors of the shuffles
rely on the first, `VectorMaskL` and the lines on the second. The rest is one lemma for each
instruction, about a byte at a time. A register of the guest is the host's read from its other
end (`Turned`), so that a swapped load is the bytes as they lie (`SwappedIsBytes`), a load
with one of the four tables is a part of the line (`MaskedLine`, `LoadedByte`), a store is
a part of the guest's register (`StoredBytes`), and a permutation with exchanged operands
and positions counted from the end is the guest's, turned (`UnpackTurned` to
`SignExtendTurned`, together `PermutedTurned`). Immediates are those of `Forms`, except that the
lemmas hold for all that the instruction can encode.

`GeneratedCodeProofs` proves, for functions of any length with any
words, tables and hooks that satisfy `InputsAssumption` (targets are words apart, tables
and hooks lie in the function, no two tables describe one `bctr`, a function is cut off
but never drawn out):

* `GotosLabelled` (`GotosHaveLabels`), from `TranslationInv`: what the first pass has been
  over is among the labels, and the gotos of each statement were. The table that is pending
  has to be one whose base the first pass met.
* `ModesRight` (`FlushModeRight`), from `FlowInv`: there is an assignment of flush
  modes to words, the one the translator knew above each of them, which every
  statement was translated with (`Assumed`) and which the host suits wherever control
  is (`HostRight`). It has to be one assignment for the whole function, because
  control comes back to words long after they were translated; labels and the words
  behind a setjmp suit any host because nothing is assumed there.
* `GuestFollowed` (`FollowsGuest`), the refinement of `GuestFlow`, from `ControlInv` and
  `TableInv`: the table held at a word is the only one that begins before it and whose
  `bctr` does not.

`RecompilerFilesProofs` proves, for all executables, patches and texts that satisfy
`TextsAssumption` (no text is empty) and `PatchedAssumption`, and any number of files and
runs:

* `FilesUpToDate` (`UpToDate`) and `IdenticalSkipped` (`SkipsIdentical`), from `OutputInv`:
  the files before the next one hold their texts unless a write failed, and a file
  that is being written does not hold its text.
* `RunsRepeat` (`Repeatable`), from `ImageInv`: after a complete run the inputs and the
  patched file determine the image of every further run (`Determined`), and no further
  run writes the patched file (`Settled`). Without the second part a run that is killed
  while it writes could change what the next one loads.

`XexImageProofs` proves, for every set of base files, updates, tables of sections and
imports and object files that satisfy `ImageAssumption` and `FilesAssumption`:

* `LoadedAsPromised` (`LoadsPromised`), `UnreadIsKept` (`UnreadKept`), `UpdatesApplied`
  (`AppliedWhereItFits`), `ContentFound` (`FindsContent`) and `AllImportsLinked`
  (`ImportsLinked`): all five properties of the run.

They follow from `XexInv` (`XexInvariant`), which says of every place in patcher and loader what
is known there. None of the five is inductive: each speaks about the end of a long chain of
steps on one buffer. Its parts, each preserved with the help of those before it:

* `MadeInv`: the inputs are what was opened and never change.
* `PatcherInv`: what has been found out. An update is applied only where it is `Suitable` because
  every check passed is a conjunct of that, and refused only where it does not fit because every
  refusal contradicts `Fits`, so that at the end all conjuncts
  have been collected; the keys can only be compared because the last entry of the header has
  written them (`HeaderTold`). Only for normal compression nothing is found out about the image's
  size, which is what `ShorterFile` excludes.
* `BodyInv`: what is behind the new header, cell by cell: the body as stored, then decrypted, then
  with `n` blocks still to be moved (`Moving`). Of those, the cells below the reading position are
  untouched, which is `UnreadKept`, because the data of the first `n` blocks is never longer than
  the data with its zeros. `Walking` says where the walk over a chain of blocks may be: at one of the
  parts of the body, with the cells before it gathered, or at the end with all.
* `ContentInv`: after `n` entries the image is `UpdateSteps[n]`, the recursive function that defines what
  the update makes of the base's image, one step of it for one step of the patcher. The promise is stated with
  the same function, so that no induction is needed.
* `LoaderInv`: the same for the file that is loaded: blocks mapped so far, the walk, the
  image.
* `SectionsInv`: after `n` sections exactly the first `n` are mapped (`Mapped`), each clamped to the
  image. No two overlap, hence `Find` has one answer.
* `ImportsInv`: after `n` imports no cell has changed outside the four of each import that is found
  among the first `n`; and if no word is visited twice, the symbols and each cell are what those
  imports make of their own words (`LinkedBy`), because the word of the next one is still the
  promised one (`ReachesApart`).

The sums of block sizes are a recursive function (`Totals`), about which only two facts are needed:
its step, and that it grows. The second is an induction, done with the least counterexample
(`LeastNatural` of `NaturalLemmas`).

The assumptions are what makers of files keep to and the code does not check. A base with
basic compression has any number of blocks, with data and zeros of any sizes, that make up its
image (`BlocksMade`); one with normal compression any chain of blocks and chunks, described by the
parts of its body, with anything behind the empty chunk of a block (`ChainMade`). An update tells its
sizes and its key with the last entry of its header
(`TellsHeader`) and reads nothing behind its new image; sections of a table lie
apart. Nothing is assumed of the imports but that their addresses are numbers. The ELF files' sections may
all start at 0, as those of
object files do; then only the first is found, which is a named deviation. The run meets
every assumption, since TLC evaluates both.

Only model-checked:

* `Termination` in all modules. Liveness is out of TLAPS's reach.
* `RegistersAgree`, `CarryAgrees`, `ConditionsAgree`, `FloatsAgree` and `LanesAgree` of
  `Instructions`: each instruction is a sum, product or rotation of bits in words of `W` bits
  on both sides. For every `W` this is induction over the bits, and a library of lemmas
  about powers of two that the SMT backend cannot decide.
* `TablesFound` and `CasesFollow` of `SwitchDispatch`: they are about the concrete code a compiler
  emits, a list that is flattened from pieces of different lengths, in which every place
  is searched for patterns. What a fold over pieces yields would need induction over
  their number.
* `HelpersFound` and `SameBehaviour` of `LocalVariables`: the guest's programs and helpers are
  flattened lists as well, and the two sides are compared over whole executions of
  them, instruction by instruction of the run's forms.
* `TestsRunOrReported` of `TestRecompiler`: about texts of disassemblies that are put together from
  pieces, and about every test at the end of the program.

## Not modelled

The reasons are with the components in `PROJECT.json`.

* Ciphers, LZX, SHA-1 and the disassembler are external.
* Of `Recompile(instruction)`: the packed formats of Direct3D, `vpkswss`, dot
  products, exponent and logarithm estimates, rounding of vectors to whole floats, whole-register
  shifts, the bitwise selection (`vsel`), traps and cache hints.
* The function table (`PPC_LOOKUP_FUNC`), which the runtime of a ported program
  fills; XDBF, memory mapping, and the reading of TOML beyond switch tables.
* The text around generated functions: prototypes, headers, the build files.

Behaviour of the modelled parts that no property covers is in the hazards that have
a note: shifted tail calls and helpers of unchecked size, hooks that change the
flush mode, `sync`.

## Plan

Done, in order of importance: 1 `FunctionAnalyze` with `FunctionExtent` and its
proofs, 2 `RecompilerAnalyse`, 3 `RecompileFunction`, `GeneratedCode`, `GuestFlow`,
4 `SharedMemory`, `SequentialMemory`, 5 `RecompilerFiles`, 6 the instructions and
storage, 7 patcher, loader and sections, 8 jump tables, 9 helpers and local
variables, 10 the test recompiler.

Next:

* Theorems about `SwitchDispatch`, from lemmas about where a piece of flattened code
  begins.
* The packed formats, as operators with their reference definition.
* An ARM host for `SharedMemory`, with `OrderedAssumption` replaced by what the
  guest's barriers order.
