# fuse3-p7zip in TLA+

fuse3-p7zip mounts an archive read-only: it opens the archive with the 7-Zip
library, files its items in a map from paths to entries, and answers FUSE's
callbacks from that map, extracting a whole item to a temporary file when it is
opened. This directory holds TLA+ models of the program, configurations that
check them with TLC, and theorems about them checked by TLAPS. Every definition
is translated from the source; `PROJECT.json` ("map") gives the file and the
lines for each. Paths below are relative to the repository (`src/fuse3.cpp`
is the program's main file).

    tlc -config Mount.cfg MCMount        # model-check one run
    tlapm MountProofs.tla                # check the proofs of one module

Contents:
[inventory](#1-the-system) ·
[modules](#2-modules-and-the-code-they-model) ·
[runs](#3-what-the-runs-check) ·
[findings](#4-where-the-code-and-its-documentation-disagree) ·
[proofs](#5-what-is-proved) ·
[assumptions](#6-what-is-assumed-of-external-code) ·
[not modelled](#7-what-is-not-modelled) ·
[plan](#8-plan)

## 1. The system

One process, and one thread of its own. `main` loads the libraries, reads the
command line, opens the archive, and calls `Fuse::execute`, which builds the
map, mounts, goes into the background and stays in libfuse's single-threaded
loop until a signal or an unmount. The only other threads are 7-Zip's decoders,
which come and go while `Extract` runs. What makes the program hard is
everything it shares its state with: 7-Zip calls back into its objects in the
middle of its own calls and counts references to them; the kernel keeps handles
between callbacks; the disk fills up; signals and `fusermount` come at any
moment; the archive lists its items in any order and says anything about them.

| component | its state | its operations | who it talks to | hard | correct if |
|---|---|---|---|---|---|
| archive items and iterator (`7zip/Archive.cpp`, `7zip-impl.hpp`) | archive, index, end flag | `begin`, `end`, `++`, `==`, item properties | read by the tree builder; extraction goes through it | empty archives; properties that are not there | it stops exactly behind the last item |
| file tree builder (`fuse3.cpp` `execute`) | the map, the loop's path | file an item, climb to the root, `cb_readdir`, `cb_getattr` | reads items, is read by every callback | items in any order; a path that comes twice, as file and as directory; nameless items | every entry can be walked to; each path shows the last item filed there, with its size and time; "/" stays a directory |
| mount operations (`fuse3.cpp` callbacks) | `fi->fh` of the open files | `cb_open`, `cb_read`, `cb_release` | kernel on one side, extractor and streams on the other | failures in the middle of an open; handles across callbacks | a handle stands for one file, whose bytes do not change |
| extractor (`7zip/ArchiveExtractor.cpp`) | the stream it lends, the mode | `GetStream`, `PrepareOperation`, `SetOperationResult`, `execute` | called back by 7-Zip, owned by `cb_open` | results that are dropped; exceptions in `noexcept` callbacks | what it hands over is the item |
| temporary file stream (`7zip/WriteStream.cpp`) | FILE with its buffer, position and error flag, reference count | write, seek, set size, read, release | 7-Zip counts it, a `unique_ptr` and then `fi->fh` own it | two lifetimes of one object; a buffer that `ftruncate` does not know of; a disk that is full | it lives as long as it has an owner; it is one file of bytes; a lost byte is reported |
| archive file stream (`7zip/ReadStream.cpp`) | FILE with its error flag and position, reference count | read, seek, release | all formats and all extractions share it | the error flag is sticky; a pipe cannot be rewound | each format sees the archive from its start |
| reference counts (`com.hpp`, `7zip/com.cpp`) | a counter per object | `AddRef`, `Release`, `QueryInterface`, `Object` | 7-Zip and the smart pointers | who holds the last reference; a `Release` reads the counter twice | counts equal holders; no release of 7-Zip's is the last |
| archive opening (`7zip/Archive.cpp`) | handler, stream, format | constructor, `init_props`, destructor | 7-Zip's handlers, the password source | four ways out of the constructor; handlers that keep references | first accepting format is used; nothing leaks, nothing is freed early |
| formats and methods (`7zip/Format.cpp`, `Method.cpp`, `Library.cpp`) | the list of formats | `fill_formats` | `FUSE3_P7ZIP_FORMATS`; the opening loop reads the list | words twice, unknown, several stars | a permutation, in the order asked for if one is |
| command line (`fuse3.cpp` `Params`) | the words kept, the archive, options | `process_arg`, `fuse_opt_parse`, `fuse_parse_cmdline` | libfuse's parsers call back | fall-through between kinds of words | whoever is served has an archive and a mount point |
| password source (`fuse3.cpp`, `7zip.hpp`) | the chosen `IPassword`, its cache | `get` | command line, environment, files and programs | asked twice, the file may change in between | one password for one mount |
| proposed name (`7zip/Archive.cpp`) | an index over two lists | the loop of `proposed_name` | the format's properties; used by the tree builder | the lists differ in length | the extension is the one the format names |
| life cycle (`main.cpp`, `library.cpp`, end of `execute`) | locals, statics, session, mount, handlers | the steps of the start and every way out | kernel, libfuse, the shell | each step can fail; signals at any time | nothing is used after it is gone; an orderly end leaves nothing behind |
| text conversion (`string.cpp`) | none | `to_utf8`, `wide_str`, `split`, `chomp` | everywhere | `iconv` rejects an input | failures are handled where they occur |
| item times (`Archive.cpp`) | none | `_to_time` | tree builder, `cb_getattr` | the subtraction wraps in 64 unsigned bits | every entry shows its own item's time |
| errors and log (`exception.cpp`, `logger.cpp`) | none | `CheckCom`, `CheckErrno`, `CheckResult` | everywhere | what counts as an error: only a negative HRESULT does | - |

`PROJECT.json` ("hazards") lists, at its line, everything in this code that a
test would hardly reach, with the properties that watch it.

## 2. Modules and the code they model

Three abstract specifications say what is promised; the detailed modules are the
program.

    ArchiveItems  <-EXTENDS-  ArchiveView   (abstract: the view of an archive)
                  <-EXTENDS-  FileTree      implements ArchiveView
                                 <- MCFileTree, FileTreeProofs
    ArchiveFS (abstract: a read-only file system)
    Mount         implements ArchiveFS
                                 <- MCMount, MountProofs
    Bytes  <-EXTENDS-  OutFile   (abstract: a file of bytes with a position)
           <-EXTENDS-  TmpStream implements OutFile
                                 <- MCTmpStream, TmpStreamProofs
    OpenArchive                  <- OpenArchiveProofs
    Library = Formats + ProposedName, composed over the format chosen
                                 <- MCLibrary, LibraryProofs
    Params = CommandLine + Password, composed over cmd_params
                                 <- MCParams, ParamsProofs
    Lifecycle                    <- LifecycleProofs
    NumbersProofs                <- FileTreeProofs, LibraryProofs, ParamsProofs

The modules meet at constants and single steps. `FileTree` takes the result of
`ProposedName` as a constant and yields the files, sizes and kinds that are
`Mount`'s constants. `Library` yields the order that `OpenArchive` numbers 1, 2,
..., and its step `Open` is all of `OpenArchive`'s loop. `OpenArchive` leaves the
error flag that `Mount` starts with (`arcErr`). `Mount` keeps the lives of the
streams and writes each from start to end; `TmpStream` is one of them on its
own, byte by byte and with every call an `IOutStream` has. Each module is one
step, or two or three, of `Lifecycle`.

Operators whose names begin with `Slip` are plausible mistakes in the
definition below them (a test left out, an index one off, two steps swapped).
No specification uses them; with one in the place of the right definition TLC
finds its property violated, which shows that the property depends on that line
of the code. `PROJECT.json` ("mutants") pairs them.

### FileTree (`Fuse::execute`, both loops, and `cb_readdir`)

| TLA+ | code |
|---|---|
| `arc` | what 7-Zip lists; each item is its path, `kpidName`, `kpidExtension`, directory flag, size and time |
| `it` | the loop's iterator: `_seq`, `_index`, `_is_end` |
| `tree` | `cache.tree`; of the `stat` the type, the size and one of the three times are kept |
| `p`, `pc` | the inner loop's `p`, and which loop runs |
| `FileItem` | the body up to `insert_or_assign`; `EntryPath` is the computation of `path` |
| `ItemThrows` | the exception of `it.path()`, `it.name()` or `it.extension()` for a text that `iconv` rejects (`legible`), which leaves both loops |
| `AddParent`, `ClimbEnds` | a round of the inner loop; its condition and its `break` |
| `NextItem`, `Finish` | `++it`; the end of the outer loop |
| `ReadDir`, `ReadDirRefused`, `GetAttr` | `cb_readdir`, `cb_getattr` |
| `ToTime`, `ItemTime` | `_to_time` in words of `Modulus` values, with `Epoch` for 1970 and `Tick` for the units of a second |

A path is the sequence of its components. 7-Zip's paths are relative, without
empty components and without a slash at the end; they reach the program so.

### Mount (`cb_open`, `cb_read`, `cb_release`, extractor, write stream)

| TLA+ | code |
|---|---|
| `proc` | serving; dead after an exception that leaves the loop or `std::terminate`; ended |
| `call` | the open that is under way, as 7-Zip sees it: is the stream lent, how many references has it, how far is it |
| `refs` | `_ref_counter` of each `FileWriteStream` |
| `file` | its `tmpfile()`: what is written out, what is in stdio's buffer, whether something was lost (`harmed`, a history variable that the program cannot see) |
| `fh` | `fi->fh` |
| `arcErr` | `ferror` of the archive's FILE |
| `OpenRefused`, `OpenStart`, `OpenWithoutTmpFile` | `cb_open` up to `IInArchive::Extract`, with its three early ends |
| `GetStream`, `Deliver`, `AddRef`, `Release`, `ReadFails`, `DecodeFails`, `CallbackThrows` | what 7-Zip does inside `Extract`, each call by itself |
| `HandOver`, `ExtractThrows` | `execute` after `Extract` has returned, and the end of `cb_open` |
| `Read`, `ReleaseFile`, `LoopEnds` | `cb_read`, `cb_release`, `fuse_loop`; `Fread` is what a read may answer: the bytes asked for or, if `fread` fails, the first of them, which the kernel takes for the end of the file |

Data comes in blocks `<<file, number>>`; block 0 is junk. The stdio buffer
holds `BufSize` blocks; writing it out may fail after any part of it.

### TmpStream (`FileWriteStream`), OutFile, Bytes

| TLA+ | code |
|---|---|
| `disk` | the bytes of the `tmpfile()` |
| `buf` | what stdio holds back, and where in the file it belongs |
| `err` | `ferror`, the only thing `check_error` looks at |
| `phase` | with 7-Zip; behind `fi->fh`; closed |
| `reply` | what the last call returned |
| `lost`, `cut` | history: a failed flush dropped bytes; a `SetSize` cut bytes off that were still in the buffer |
| `Write`, `Seek`, `SetSize` | `fwrite`; `fseeko` and `ftello`; `fileno`, `ftruncate` and the seek back |
| `Rewind`, `Read`, `Close` | `seek(0)` at the end of `execute`; `IFile::read` for `cb_read`; the destructor |

What the C library does is a set of outcomes: `Written`, `Flushed`, `Sought`
are whatever part of the buffer has gone out, with or without a failure. `Bytes`
has the operators on files (`Overlay`, `Resized`, `Slice`). `OutFile` is the
same file without a buffer: as long as it is `sound`, a call does what
`IOutStream` promises; afterwards 7-Zip's calls may do anything to it. In both
a file that the kernel has is fixed.

### OpenArchive (`ImplArchive`'s constructor and destructor, `FileReadStream`)

`pc` follows `open_archive`: seek to the start, release the handler that
refused (`com::Object::operator&`), `CreateObject`, `Open`, and the next format;
then `init_props`, the mounted archive, `~ImplArchive`, and the destruction of
the members in reverse order. `refs` and `self` are the counts of the stream and
of the archive (which is the handlers' open callback); `handler` says which
handler lives and what it refers to. `accepts`, `legible`, `seekable` are what
the world is like and never change.

### Library (`ImplLib`'s list of formats, `proposed_name`)

`Formats` is `fill_formats` word by word over `FUSE3_P7ZIP_FORMATS`.
`ProposedName` is the loop of `proposed_name` over the two lists of words of a
format, with the read behind the end of the shorter one as an outcome of its
own. `Library` runs one, chooses the format of an archive, and then asks the
other for the names of its items; the words it asks with do not depend on the
format chosen, any two lists may come. `accepts` are the formats whose `Open`
returns `S_OK` when their turn comes: what decides that, read errors, a rewind
that fails, and the references, is `OpenArchive`'s. `CreateFails` is the
exception of `CreateObject`.

### Params (`Fuse::Params`)

`CommandLine` is `process_arg` and the checks of `Params`' constructor, on
libfuse's two parsers; it writes `cmd_params`. `Password` is the rest of the
constructor, the choice among five sources, and the two calls of `get` by `main`
and `execute`, with files that change in between; `LookFails` is the exception
of `std::filesystem` when a path is looked at. `Params` is the two in sequence,
with `password` and `passfile` shared. `print_usage()` for an empty argument runs
on an object that is none (`fuse3.cpp:227` with the address of `cmd_params`), so
the outcome there is "usage" or "crash".

### Lifecycle (`main`, `Fuse`, the end of `execute`)

`locals` are `main`'s objects in the order of construction; `cache` is the
static; `session`, `mount`, `handlers` are libfuse's and the kernel's. There are
three ways to end: `Throws` unwinds the locals, `Exits` only destroys the
statics, `Dies` does neither. `told` is what the shell has heard, which waits
until `fuse_daemonize` forks or the process ends.

## 3. What the runs check

Deadlock is not checked: each of these processes really stops (the map is
built, the process has ended, the constructor has returned), and each module
ends in such states.

| run | states | what is checked |
|---|---|---|
| `file_tree` | 59,052 | `TypeOK`; `WalkFindsEveryEntry`: a descent by `cb_readdir` from "/" reaches every entry although each climb stops at the first path known; `FilesAreExtractable`: a path shown as a file leads to a file item filed there, never to the null archive of an end iterator; `RootIsDirectory`; `TreeIsArchiveView`: the map equals the view in closed form; `StatsAreTheItems`: what `cb_getattr` shows is the size and the time of the item that reading the path extracts, and the archive's own for directories no item stands for; `ImplementsView`: the loops refine `ArchiveView`; `BuiltOrThrown`: both loops end, with the map built or, exactly if a text of some item is illegible, by an exception |
| `mount` | 196,744 | `TypeOK`; `OneOwner`: a stream exists exactly as long as it has an owner and has one; `CountCoversHolders`: no `Release` of 7-Zip's is the last; `UnharmedIsComplete`: an open file is complete and in order unless a failure harmed it; `ImplementsArchiveFS`: and each read answers the bytes asked for or the first of them |
| `open_archive` | 12,912 | `TypeOK`; `FirstFormatWins`; `CountsMatchHolders` |
| `tmp_stream` | 16,782 | `TypeOK`; `SuccessMeansWritten`: a call that succeeds says that no call before it has lost a byte either; `ImplementsOutFile`: buffer and disk are one file of bytes, and what the kernel has never changes |
| `library` | 511,866 | `LibTypeOK`; `EveryFormatOnce`; `OrderIsAsAsked`: if one is asked for; `ChosenAsAsked`: of the formats that accept an archive the one that the variable puts first; `NameIsUnpacked` |
| `params` | 182,239 | `TypeOK`; `ServesWithBoth`: whoever is served has an archive and one mount point; `ArchiveFirstIsParsed`: with the archive first every word reaches its place; `LastPasswordWins`: the archive is opened with the last password of the command line, in either form; `OnePassword`: and extracted with the one it was opened with, although the file may have changed |
| `lifecycle` | 616 | `TypeOK`; `NothingDangles`; `StopCleansUp`; `SuccessMeansMounted`; `ShellReturns` |

The five runs that end in a counterexample are in section 4.

**Bounds, and why they are enough.**

- `file_tree`: every archive of up to three items over two names and two
  levels, every one of up to two items down to three levels, and every one of up
  to two items with a name, an extension or no path at all, and every one of up
  to two items with every kind of date: none, before 1970, in its first second,
  and later, in words of 32 values; and the ones with odd names also with a text
  that cannot be read. Three items suffice
  for a path filed as a directory on the way to one item, as an item, and again;
  three levels for a climb that stops half way. The proofs lift the bounds for
  the safety properties.
- `mount`: two handles, two streams, three files (below the limit, above it,
  and above it with no size reported), one block of buffer, two references,
  offsets and lengths 0..2. A third handle or stream behaves as the second one;
  a file of three blocks over a buffer of one has a flush in the middle, a
  partial one, and one left for the rewind; a second reference of 7-Zip's is
  the first that could outlive `GetStream`'s. No symmetry is used.
- `open_archive`: three formats, up to two references to the stream for each
  handler: one refused before and one after the one that accepts.
- `tmp_stream`: a buffer of two bytes, chunks of one and of two, two bytes
  besides zero, files up to four bytes, offsets -1, 0, 1 and 3, lengths 0, 1 and
  3: a chunk that fits, one that fills the buffer and one that does not fit; a
  hole behind the end; an overwrite in the middle; a resize inside, at and behind
  what is buffered. The proofs lift all of these bounds.
- `library`: up to three formats over three numbers, so that names repeat, up to
  four words, star and unknown words included, and archives that none, one or two
  formats accept; two extensions, and all lists of up to three words for a
  library of one format (names do not depend on the order of the others).
- `params`: every command line of up to four words in a bare environment:
  the archive, the mount point and one option of FUSE's with its value, in every
  order, with the program's own options among them; and every pair of the
  program's own options before the two paths, in every setting of the variables,
  of two files with four texts or none, and of standard input. A password file
  changes while it is the source; a change before the choice is another
  setting, and the other files are not looked at.
- `lifecycle`: two signals: one that ends the loop and one on the way out.

**Fairness.** `FileTree` assumes `WF_vars(Next)`: two loops of the only
thread, with no call that waits; `ItemThrows` is one of their steps. `Lifecycle` assumes `WF_vars(Step)`, where
`Step` holds the actions of the program that go on; failures, signals and
`fusermount` are outside it, and so is the wish that the loop ends: a process
that serves forever is fair, and `ShellReturns` does not need it to stop. It does
need the calls that the start makes to return: those of 7-Zip, the program that
prints a password, and standard input; a start that waits for one of them leaves the
shell waiting too. The
other modules state no liveness and no fairness.

## 4. Where the code and its documentation disagree

Each of these is a run with one property, quoted from the repository, and a
counterexample.

| run | property | what the code does |
|---|---|---|
| `mount_incomplete` | `OpenedFileIsComplete`: "read only access to any file in this archive" (README) | a failed `Write` or `Read` is HRESULT 1, which `CheckCom` takes for success (`ArchiveExtractor.cpp:146`), and `SetOperationResult` drops the verdict on the data: `cb_open` succeeds with a truncated or junk file |
| `mount_limit` | `OpenRespectsLimit`: "any file in archive bigger than this will end up in E2BIG" (README) | an item without a reported size counts as 0 (`fuse3.cpp:295`) |
| `params_usage` | `UsageWorks`: "[options] \<archive\> \<mountpoint\>" (usage text) | options fall through to the case for paths (`fuse3.cpp:224`); the first is taken for the archive |
| `library_alphabetical` | `AlphabeticalByDefault`: "tries all formats in the alphabetical order" (README) | without `FUSE3_P7ZIP_FORMATS` they are tried in the library's numbering (`Format.cpp:78`), which nothing sorts |
| `library_unnamed` | `EveryArchiveIsNamed`: "any archive supported by 7zip" (README) | `ext_add` is indexed by the position in `ext_def` (`Archive.cpp:138`), but has one word when the format's second list is empty: a read past the end of the vector |

Some more are plain from the models and have no run: the fall-through also makes
the archive of a bare `--password`, which the usage text shows with the password
as the next word (only `--password=...` is known, `fuse3.cpp:40`); of two items
with one path only the last can be opened, and a file with items below it hides
them (`insert_or_assign`, `fuse3.cpp:392`; `TreeIsArchiveView` states it), so
not "any file in this archive" is accessible, as the README has it; `tv_nsec`
gets the whole date instead of the part below a second (`ToTime`,
`Archive.cpp:17`), which no document speaks of and the kernel does not take; and
`SetSize` below a position whose bytes are still in the buffer lets them follow
later, behind the cut (`cut` in `TmpStream`).

`Lifecycle` shows more that no document contradicts: `exit(1)` after the mount,
an exception out of the loop, or a signal before the handlers are there leaves
the mount point behind without a process (`mount = "stale"`), after the shell
may have heard of success; and after an exception libfuse's signal handlers
outlive their session. `StopCleansUp` and `NothingDangles` are therefore stated
for the ends that the code takes care of, and say so.

## 5. What is proved

Seven modules of theorems about the components, for every value of the constants
that the named assumptions allow, and one of lemmas that they share. Each proves
an inductive invariant (`IInv`, `StatInv`, `LibInv`, `ParamsInv`) in three facts:
it holds at the start, every step keeps it, and it implies the property, with one
lemma or step for each action. Every invariant, action property and refinement
that a passing run checks is a theorem.

**NumbersProofs** has no component of its own: that a set of numbers has a least
element (from the well-foundedness of `<`), what `Min` and `Max` return, induction
over the naturals with a set in the place of a predicate (`Induction`), and some
counting.

**FileTreeProofs**: `TypeCorrect`, `RootStays`, `FilesLeadIntoArchive`,
`WalkIsComplete`, `LoopsFileItems`, `TreeIsTheArchives`, for archives of any
length and depth, from `NameAssumption`
and `ArchivesAssumption`. `WalkFindsEveryEntry` is not inductive: while the
inner loop climbs, entries lack ancestors. `AncestorsInv` says which: every
entry either has all of its ancestors in the map, or the climb is still below
them, and what it has yet to look at, with what the map holds, covers them. When
the climb meets a path in the map, that path has all of its ancestors (it is
not itself on the way), so stopping there is sound: this is the argument for the
`break` in `fuse3.cpp:394`. `IteratorInv` gives the type of the item the
loop is at, and from `NameAssumption` follows that no item is filed at "/"
(`EntryPathNotRoot`). The lemmas before it are about prefixes of paths.

`LoopsFileItems` is the refinement to `ArchiveView`. `FileItem` is the abstract
filing of the whole item; the ancestors the climb still has ahead of it
(`Pending`) count as shown, so `AddParent` shows nothing new. That the climb may
stop early is the one step that needs the invariant: what it skips is in the map
(`ClimbIsComplete`). `TreeIsTheArchives` follows: the last item filed at a path
is the greatest of its writers, and filing one more item adds one writer to one
path (`OneMoreWriter`), so the closed form grows as the view does
(`ClosedFormGrows`). It needs no recursion over the archive.

`StatsAreRight` is `StatsAreTheItems`, by an invariant of its own (`StatInv`) on
top of `IInv`. An entry no item stands for was made by the climb from the first
item below it, and shows that one's size and time: everything that earlier items
lead through is in the map (`FiledInv`), so a directory that a climb adds has no
earlier item below it; what lies between the climb and its item is in the map
already (`ClimbInv`), so a climb that stops has left nothing out. And the first
item below a directory stays the first as more are filed (`FirstBelowStays`).

**MountProofs**: `TypeCorrect`, `StreamsHaveOneOwner`, `CountsAreRight`,
`UnharmedFilesAreComplete`, `MountIsFileSystem`, for any files,
sizes, buffer, number of handles, streams and references, from `MountAssumption`. The strengthening is `CallInv`,
which relates the open under way to its file: as long as nothing was harmed, what
is on disk and what is in the buffer together are the blocks decoded so far; and
7-Zip has stopped exactly if the file is harmed. So when `Extract` returns
without having stopped, everything is decoded, and the rewind either writes all
of it out or harms the file. `HandleInv` keeps handles on files of the archive.
The steps inside `Extract` share one lemma (`ExtractingStep`). `MountIsFileSystem` is the refinement to
`ArchiveFS`: an open is the abstract one at `HandOver`, when the stream passes to
the handle; before, no handle has it and all that happens is hidden. The answer
is one the file system may give because an unharmed file is its item
(`UnharmedIsComplete`), and it stays what it is because the stream behind a
handle has nothing left in its buffer (`HandleInv`), so that a seek and a read
change no byte; a read that fails answers the first of the bytes the abstract one would. `CallInv` carries through the extraction what `cb_open` looked at
before it, that it need not refuse the item.

**TmpStreamProofs**: `TypeCorrect`, `LossIsReported` and `StreamIsFile`, for
any bytes, calls, buffer and sizes, from `StreamAssumption`. First comes the
algebra of files: `OverlayTwice` (two overlays, the second from the end of the
first, are one), `OverlaySplit`, `OverlayResized`. `StreamIsFile` is a
refinement: the bytes of `OutFile` are those on disk with the buffer laid over
them, the position is that behind the buffer. Writing a part of the buffer out
moves the border between the two and leaves the whole alone (`OutProperties`);
a seek flushes first, so its target is computed from the whole; a read finds an
empty buffer. The invariant adds that the buffer is empty once the kernel has
the file, and that a lost byte has set `err`, which nothing clears.

**LifecycleProofs**: `TypeCorrect`, `NoDangling`, `CleanEnd`, `SuccessIsMounted`,
for any number of signals, from `LifecycleAssumption`. `main`'s locals are at
any time a prefix of one list (`LocalsInv`), and its length follows from `pc`
(`PhaseInv`) except while they are destroyed; destroying them from the end keeps
the prefix. `EndInv` follows an orderly end: handlers, mount, session, locals,
cache go in this order, and the session is there as long as the `Fuse` is.

**OpenArchiveProofs**: `TypeCorrect`, `FirstAcceptingFormat`,
`ReferencesBalance`, for any number of formats, from `OpenArchiveAssumption`.
`PhaseInv` says which handler `_arc` holds at each place; `RewoundInv` says that
a stream that can seek stands at its start from the seek to the call of `Open`.
Without the second the claim about formats is not inductive: the answer of a
handler means something only if it read the archive from the start.

**LibraryProofs**: `TypeCorrect`, `NoFormatLost`, `OrderAsAsked`,
`FirstOfTheWish`, `NameAsDescribed`, for any library, wish,
archive and lists of words, from `FormatsAssumption` and `ListsAssumption`.
`OrderIsAsAsked` is stated by counting: a format is placed by the word that
mentions its name for the n-th time if it is the n-th format of that name. The
code does not count; it takes the first format left that has the name. The heart
of the proof is that this is the same (`WordPlaces`): what is left after n words
is exactly the formats whose rank exceeds the count of their name so far (`Left`),
so the first of them has the rank that the count reaches with the next word.
`PlacedBy` carries that through the words, together with the order of each of the
three lists; `PlacedOnce` puts them together, for the permutation and the order at
once. The choice (`ChoiceInv`) is a search of the finished list, whose order is
then the order of the accepting formats. For the name, the loop has passed no word
that says anything, so the one it stops at is the first (`NameInv`), whatever the lengths of the lists.

**ParamsProofs**: `TypeCorrect`, `ServingHasBoth`, `ArchiveBeforeOptions`,
`SamePassword`, `LastPassword`, for command lines of any length and words, and any files and variables, from `ParamsAssumption`: a
command line is a sequence, its words are of the kinds that the parser tells
apart, and nobody's file is called "-". A word's role depends on the words before
it; the recursive function that gives it is shown to exist and to satisfy its
equation by `Induction` (`RolesExist`, `RoleIs`). `ParserInv` says where the parser may stand: never
between an option and its value, and behind a "--" exactly if it has seen one.
Then what it has collected is what the words up to there say: the password is the
last one (`PasswordInv`), the archive the first word that is not the program's
own, and the two lists hold the words of their roles in order (`ArchiveInv`),
which grow by one place when the set of places does (`WordAppended`).
`SourceInv` follows the password source: which kind was chosen, that a file has
not been read before the archive is opened, and that from then on the source holds
what the archive was opened with, so that the second call of `get` can disagree
with the first only if that got nothing.

**Only model-checked**: liveness (`BuiltOrThrown`, `ShellReturns`): the prover
does not reason about `ENABLED`, hence not about fairness. All other properties
of the passing runs are proved, and were checked before: the strengthened
invariants too, on the run of their component. The five violated properties
are counterexamples and need no proof. The library's induction theorems take an
operator as a parameter, which the installed provers cannot instantiate; its
well-foundedness of `<` does not, and is what `Induction` rests on. Nothing can be
proved in a module that reaches a `RECURSIVE` operator; the project has none:
the one recursive definition, `Role` in `CommandLine`, is a function.

## 6. What is assumed of external code

- **7-Zip** calls back only inside the calls made to it. A handler that has
  been closed keeps no references, one that is released gives its own back.
  Within `Extract` a stream is used only between `GetStream` and the release of
  the last reference, and released as often as it was acquired; its threads are
  out of the stream when `Extract` returns. In the runs the two
  lists of words of a format are as long as each other, or one is missing; no
  theorem needs that. Item paths are
  relative and have no empty components. What it decodes, accepts or returns is
  otherwise free.
- **The C library** buffers writes, writes any part of the buffer out on a write
  and all of it on a seek, and, if that fails, drops what it could not write and
  sets the error flag. `ferror` stays set. `fseek` flushes before it computes its
  target, and refuses a negative one. `ftruncate` acts on the file below the
  buffer. `fseek` on a pipe fails.
- **The kernel** sends one release for each successful open, opens only what it
  was told is a regular file, and sends reads only for what is open. It does
  cache entries and pages; that only takes calls away.
- **libfuse** calls one callback after the other (`fuse_loop`, not
  `fuse_loop_mt`). `fuse_opt_parse` passes a word to `process_arg` if no template
  matches it and keeps it if the result is 1; `fuse_parse_cmdline` accepts one
  path, which has to exist. `fuse_daemonize` fails only before the shell's
  child has ended. `fuse_destroy`, which `~Fuse` calls, closes the device and does
  not unmount.
- **The process** has enough memory: `bad_alloc` is left out, except where
  libfuse reports it by a null session.

## 7. What is not modelled

- **Text conversion as such**: which bytes `iconv` makes of which is data that no
  property tells apart. That it can fail is in the modules where it does
  (`ItemThrows`, `PasswordIllegible`, `CallbackThrows`, `BuildTreeFails`). The code page in
  an archive's name (`main.cpp`) only sets a variable that it reads.
- **`com::Object`'s `attach` and `detach`**: nothing in the program calls them. Its
  assignment copies and swaps for the length of a statement and is modelled by
  its result, `operator&` by its release, both in `OpenArchive`.
- **`ImplMethod`, `at()`, the copies and swaps of iterators, `IFile::write`**:
  nothing in the program uses them.
- **`SetSize` that fails** in `TmpStream` beyond ending the process: the exception
  leaves a `noexcept` function (`CallbackThrows` in `Mount`).
- **Log and error texts**, `cb_init`'s settings and permission bits: wording and data.
- **Build files, hooks, examples**: no state of the system.

## 8. Plan

Done, in this order: the tree builder (the map is what every callback relies
on), the mount with the extraction (the two lifetimes of the stream are the most
delicate point of the program), the opening of an archive, the lists of formats,
the command line, the passwords, the proposed name, the life cycle; the proofs
of the first three; the times of items; the temporary file at the level of stdio
with its refinement proved; the formats and the proposed name composed; the
proofs of the life cycle; the proofs of the refinements to `ArchiveView` and
`ArchiveFS`, and of the closed form of the view.

Since then: `StatsAreTheItems`, and everything that the runs `library` and
`params` check, with the lemmas on least elements, counting and induction that
these proofs share.

Next, to prove: that the order of `Library` is the one `OpenArchive` goes through,
so that `FirstFormatWins` and `ChosenAsAsked` are one claim about the program;
that the words `CommandLine` keeps are a permutation of those it is given.

To extend the model: `OpenArchive` with `Mount` (one stream with its error
flag through opening and extraction) and `FileTree` with `Mount` (what is opened
is what the map shows); `split` and `chomp` as operators against reference
definitions.
