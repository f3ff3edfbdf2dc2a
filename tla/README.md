# trantor-cli in TLA+

A verification project for the hosts of `trantor-cli`: the Roc and Rust components under
`src/components` that give an application files, the standard streams, an environment, a
working directory and open-file hand-off, in a build that sees the whole filesystem
(`fs-unconfined`) and in one that is held beneath a root (`fs-confined`). The modules are
translated from the code; the comments name the lines. `PROJECT.json` maps every definition
to the lines it models.

## 1. The system

An application is a single-threaded Roc program. It calls *hosted functions*; each blocks
until it answers, so one call runs at a time, and what interleaves with it is everything
else: other programs renaming, removing, relinking and appending, children that were handed
a descriptor, the kernel's short reads and writes, errors, and ends of input. Nothing is
persisted by the components, and there is no crash recovery in them to model; what a run
that ends, or is killed, leaves unwritten is in `StandardOutput`.

| component | state | operations | what it calls | what must be right |
|---|---|---|---|---|
| `fs-core` paths (`lib.rs`, `alias.rs`) | none; the tree is the kernel's | the `*_at!` operations | the kernel, by paths (unconfined) or through a `cap_std` handle (confined) | a confined call neither reads nor changes anything outside; both backends answer alike; a failed call leaves no trace |
| `fs-core` copies (`copy.rs`) | two open files during a call | `copy_file_at!`, `copy_dir_at!` | the same | a copy is faithful, never broader than its source; of a file, it removes only what it made |
| `fs-core` root | `OnceLock`: unset, opened, failed | `opened` | `getcwd`, `open_ambient_dir` | one root per run, one failure per run |
| `fs-core` descriptors and streams | `Desc`, open files, `EndWriter` | `open_at!`, `*_via_stream!` | `sync-io-core` to mint streams | a path given against a descriptor means one place; shared cursor; appends lose nothing; nothing leaks |
| `fs-ops` (Roc) | none (its slot is in `cwd-host`) | the path operations, `set_cwd!`, `open_*!` | `fs-core`, `sync-io`, `cwd-host`, `cli-host` | a relative path means one place |
| `cwd-host` | `SLOT`, one string | `Cwd.get!`, `Cwd.set!` | | holds what was accepted |
| `cli-host` | std's process-wide stdin and stdout buffers and lock; the environment | `get_stdin!`, `read_line!`, `read_to_end!`, `get_stdout!`, `get_stderr!`, `args!`, `env!`, `var!`, `cwd!`, `exe_path!`, `temp_dir!`, `exit!` | `std::io`, `std::env` | no deadlock on the lock; one queue of bytes; native strings cross whole |
| `sync-io`, `sync-io-core` | boxed streams, `Handoff` | `read!`, `read_until!`, `write!`, `input_fd!`, `output_fd!`, `close_fd!` | the stream under the handle | bounded answers; what was answered Ok is written, in order; numbers above 2, owned once |
| `host-shim`, `stdio-lib` (Roc) | none | `Stdin.*`, `Stdout.*`, `Stderr.*`, `File.*`, `Env.*`, locales as basic-cli spells them | all of the above | the right stream under each call; the locales in effect |
| `main-driver` | none | `main_for_host!` | `main`, stderr, the exit status | an error is shown and is the status |
| `basic-lib` URLs and dates (Roc) | none; the application holds the `Url` | `parse`, `resolve`, `append_*`, `with_*`, `to_str`; `to_iso_8601` | | a URL is its text and means one thing; a date is its instant |
| `basic-lib` locales (Roc) | none | `get!`, `all!`, `parse` | `host-shim` | each locale once, in order of preference |
| `basic-cli-lib` (Roc) | none | environment and files by other names, paths | `host-shim` | |
| `clocks-host`, `random-host`, `cli` | none | one system call each, or names | | |

Hard to test, and what the models are for (`PROJECT.json` lists each at its line):

* check-then-use on paths while another program exchanges directories and links;
* a directory descriptor that is a path, used again after the tree has changed;
* the windows inside a copy: after the create, after the mkdir, before the removal;
* a recursive removal or a `create_dir_all` that is stopped half-way;
* names with a trailing `/` or `/.`, where the two backends' libraries differ;
* a working directory removed or replaced between two calls, or inside one, or whose name
  is not UTF-8;
* readers with and without buffers of their own on one non-reentrant lock;
* one buffered stream, one without a buffer and children on one terminal, with writes that
  fail half-way and runs that end in five ways;
* streams, children and other programs over one file cursor, with short writes between;
* running out of descriptors half-way through a call;
* names and values that are not UTF-8, or that no entry of an environment could have.

## 2. The modules

### Paths and copies

* `Tree.tla`: inodes, directory entries and the path walk, with links, `..` and a hop limit.
  A walk beneath a handle (`cap_std`) refuses to leave it.
* `SysCalls.tla`: the system calls, and the answers of `std::fs` and `cap_std` where they
  differ. Both are external code, modelled as `fs-core` uses them.
* `FsCalls.tla`: one action per system call of every path operation. `call`, `a` and `b` are
  the running operation and its resolved paths (`RelativeToRoot` fails, as the code does, when
  the root's own path no longer leads anywhere), `pc` its next system call, `h` the handles it
  has open, `result` its answer, `dir` the directory descriptor that relative paths are given
  against, `w` what the call started from and made (history, for the properties). `Exchange`
  and `Replace` are another program renaming between two of them. A descriptor is what `Desc`
  keeps: the path it was opened by, and not an open directory; the inode beside it in `dir`
  is history. `create_dir_all` climbs and comes down as std's and cap-std's do, each `mkdir`
  and each look at what was there already a step; a recursive removal takes an entry a step,
  and may be stopped at any of them. The application has one descriptor at a time, the
  preopen at first, and an `open_dir` that succeeds takes its place. Errors reach the
  application through `IoErr`, which names nine kinds and calls the rest `Other`.
* `FsProps.tla`: what the operations promise. `FsProofs.tla` has the theorems about single
  steps, `FsOutcomes.tla` those that compare a call's two ends, when it did what it was asked and
  when it failed, and `Loops.tla` the
  least-number argument that their loops rest on.
* `MCFs.tla` instantiates it in three scenes, of which `Init` picks one: `race`, any one
  operation while names are exchanged; `links`, sequences on symlinks; `descriptors`,
  sequences against directory descriptors.
* `BackendsAgree.tla`: two instances of `FsCalls`, one per backend, making the same calls on
  equal trees. `MCAgree.tla` enumerates the spellings.

### Where a path leads

* `WorkingDir.tla`: `set_cwd!` and `resolve!` over the stored slot and the process's
  directory, the root of `Confinement` in its three states, and other programs renaming,
  removing, making and locking directories. A name is bytes, and `Lossy` the name its
  decoding spells. `acted`, `told`, `lost`, `set` and `still` are history variables.
  `WorkingDirProofs.tla` has its theorems.

### Standard input

* `ByteLines.tla`: what is a line, what is stripped from one, what is UTF-8.
* `ByteQueue.tla`: the promise: one queue of bytes, of which each call takes a prefix and
  answers it, or loses it with an error.
* `SharedStdin.tla`: the lock, std's buffer, `SharedStdin::read`, `fill_buf` and `consume`,
  `read`, `read_until`, `read_line` and `read_to_end`, each use of the lock a step. Its
  refinement mapping to `ByteQueue` is `queue <- got \o buf \o src`, `told <- result`.
  `SharedStdinProofs.tla` has its theorems.

### Standard output

* `StandardOutput.tla`: `write!` with its flush over std's line-buffered stdout (`held`) and
  unbuffered stderr, `exit!`, `main`'s return and its error, failures, a killing signal, and
  a child on the same terminal. A running call is the commands it has left (`todo`): bytes
  for the kernel, bytes for the buffer, or the buffer for the kernel. std's `LineWriter` and
  `BufWriter` are external, modelled as the hosts use them. A byte is the call that gave it
  and its place there, so order and repetition can be told.
  `StandardOutputProofs.tla` has its theorems.

### Environment

* `Environment.tla`: native strings as sequences of symbols, one of which is a byte that is
  not UTF-8; their crossing to Roc and back; `args!`, `env!`, `var!` and the paths.
* `Locales.tla` extends it with `Host.roc`'s reading of `LANGUAGE`, `LC_ALL`, `LC_MESSAGES`
  and `LANG`, and `Locale.parse`.

### Open files

* `OpenFiles.tla`: the descriptors of the process, the kernel's open files with their cursor
  and mode, streams, `FdHandoff`, a child, another program. The file's bytes are the writes
  that made them, `[by, run]`, a run being what happens between two jumps of a cursor. A
  seek that fails with anything but `ESPIPE` ends the call and closes what it had opened or
  duplicated (`SeekFails`, `SeekEndFails`).
  `OpenFilesProofs.tla` has its theorems.

### URLs

`Url.roc` is pure, so its functions are operators and the state machine is the application
that holds a URL and replaces it, call by call.

* `UrlText.tla`: text as tokens (a character for all that the code treats alike; one token
  for an escape, two for its spellings), components, dot segments, percent and form encoding.
* `UrlHosts.tla`: hosts and ports. `DecimalCap`, `WordMax`, `LabelMax`, `HostMax` and
  `GroupCount` are the code's 2^32-1, 2^64-1, 63, 253 and 8.
* `Urls.tla`: parsing, resolving, appending, setting and writing, one action each.
* `TypedHosts.tla`: every short host, typed a character at a time, and read beside it with
  `Decimals` while it is digits. `MCBasicLib.tla` has the texts and the alphabets, and runs both.
* `Rfc3986.tla`, `Whatwg.tla`: the references the comments of `Url.roc` name, written from
  the standards and not from the code: the rewriting of 5.2.4 and the choice of 5.2.2; the
  IPv4 numbers of WHATWG and `inet_aton`; the ways to fill a `::`.
* `Decimals.tla`: `parse_decimal` digit by digit, beside the number written.
  `BasicLibProofs.tla` has its theorems.

### Dates

* `Calendar.tla`: `epoch_millis_to_datetime`, each call of `normalize_date` a step, against
  the closed form of the Gregorian calendar. `BasicLibProofs.tla` has its theorems.
  `MCBasicLib.tla` has the instants, and runs it beside the URLs, one of the two at a time.

Definitions marked *variant* are not used by the specifications: each is a plausible fault in
the definition after it, and shows that a property would notice.

## 3. The runs

| run | question | bounds and why they are enough |
|---|---|---|
| `fs` | *race*: can a swap make a confined call read, change or leave something outside, or a copy of either host be broader than its source, unfaithful, unclean, set a mode through a link, or, of a file, take what it did not make? *links*: what do deletions take, and where do links left behind lead? *descriptors*: does a path given against a descriptor lead where it leads from the directory that was opened? | *race*: one call and two exchanges, in the root or in `sub`, since the attack of `tests/confined-race` needs one exchange in and one back; `out` is linked absolutely and through `..`, and holds a file and a directory of the names the calls use, so a path led astray finds something of either kind; any operation through the swapped name, and a copy of a directory to a name with a slash; both hosts, each under a umask that takes nothing and one that takes every bit; failures of a write, of a chmod, and of a recursive removal at each entry. *links*: three calls over three places on two levels: make, move, look. *descriptors*: three calls and an exchange: open, move, use; directories named plainly, through links and as `..`, on both hosts. `MaxHops` is 3, two links and one more |
| `backends_agree` | do the hosts answer every spelling alike? | seven names of every kind in three spellings, `..` and the root; then, after the calls that change the tree, a second one of these |
| `working_dir` | where does a path lead when the directory moves? | both hosts, three calls and two moves: one call before, one during, one after; a process in a directory whose name is UTF-8, and in one whose name is not |
| `stdin` | is standard input one queue, told of its end once, with no lock left? | seven bytes, buffer of 3, chunk of 4, requests of 0, below, at and above each; two streams, three calls, two faults |
| `output` | is what was answered Ok shown, once, and before what came later? | a buffer of 3; texts with a newline nowhere, last, first, and one that fills the buffer; three calls, so one fails, one retries and one follows; one fault, one byte of a child, stdout open or closed |
| `environment` | do one variable, the list of all and the locales tell one story, with no byte lost? | every two entries of up to three symbols over a letter, `=` and a byte that is not UTF-8: no pair, empty name, name with `=`, the same name twice; names of the application's own of every tag; seven values of `LANGUAGE` with every mixture of the other three |
| `open_files` | who owns each number when there are too few, and what do streams, children and others sharing a cursor do to each other? | two ways to start. Three descriptors left, 0 among them, and a file without a position: as many as an open and its stream need, and one. Room and a file with a position: four calls, two acts of others, writes of two bytes that may be split |
| `basic_lib` | does every URL an application can make write a text that reads back as it, does a reference resolve as RFC 3986 says, and is an accepted host one address to every parser? And does a date name its instant? | two applications and a typist. One application makes three calls: one to parse, one to change, one to change what was changed; a text for each error and each rewriting, and data with every delimiter, escape and non-ASCII. One resolves all 3,906 references of up to five tokens over `/`, `.`, a letter, `?`, `#`, long enough for `/../x` and `a/..//`, on two bases. Hosts: all of up to nine characters over `0`, `1`, `x`, `.`, long enough for four octets, one of them octal; up to eight over `0`, `1`, `A`, `:`, three groups standing for eight, so every number of groups left out occurs; seven of five digits, with a word of 20 bits and a cap of 70,000, so it saturates and stays saturated. A label of 3 and a host of 7 at most, so both limits are crossed. The calendar: 16 days around the ends of months and years of 1970, 1972, 2000 and 2100, first and last second; 24 units in a day, since TLC's integers end at 2^31 |
| `mode_of_copied_dir`, `copied_dir_removed`, `moved_link`, `set_cwd_bytes` | four comments the code does not keep (section 6) | those of `fs`, or of `working_dir` |

Where a run has two hosts, scenes, ways to start or applications, the choice is a variable
(`host`, `confined`, `app`, the contents of the start) that `Init` sets and no step changes.

The runs stop by `MaxCalls`, and an application that makes no more calls is a legal end, so
deadlock is not checked (`CHECK_DEADLOCK FALSE`). That a *running* call never waits forever
is `CallsAnswer`, and the theorem `NobodyWaits`.

`backends_agree` leaves out removing the root (only the confined host refuses it, and says
so), in sequences of two, symlinks (beneath a root a dangling one is refused on purpose), and
creating or exclusive opens of names that end in `..`, where `cap_std`'s answer is not modelled.

Fairness is assumed in `SharedStdin` only: `WF_vars(Step)`, a running call goes on when it
can. It is the only code running, and `Step` is enabled unless it needs a lock that is held;
weak fairness says that fd 0's other end writes, closes or fails. Nothing is assumed of what
the application does next.

## 4. What is proved

All with TLAPS, for every value of the constants that meets the modules' assumptions.

* `SharedStdinProofs`: `TypeCorrect` (which no run checks), `LockIsFree`, `NobodyWaits`,
  `OneEnd`, `OneQueue`. `LockFreeBetweenCalls` is not inductive: `LockInv` adds who holds the
  lock at each step of a call, which is the order `fill_buf` takes it, keeps it, and
  `consume` gives it back. `OneEndPerCall` needs `EndInv`: a call that was told of the end
  never reads again. `IsOneQueue` needs `GotInv`: what has been gathered is within the limit
  and has no earlier line end. A step then either answers, and takes from the front of the
  queue what it answers, or moves bytes between `src`, `buf` and `got`, which together do not
  change. The constants are arbitrary: any input, any buffer and chunk size, any number of
  streams.
* `StandardOutputProofs`: `OkIsAlwaysOut` and `AlwaysOnceInOrder`. The invariant says where
  the bytes of a call may be: they are in a line, those shown, those held, those of the
  commands left, each call's in its order (`InLine`); those held are of calls to stdout that
  were not answered Ok (`Whose`); what passes the buffer by does so while it is empty, and a
  call on stdout is not done before it has emptied it (`Shape`); so none is lost (`Kept`).
  Any texts, any capacity, any number of calls, failures and children, any streams closed.
* `FsProofs`: `WritesStayInside` and `ReadsStayInside`, the confinement of the confined host
  for any tree of any size, any umask, any calls and any exchange or replacement of names by
  other programs between two system calls. The invariant `FsInv` (`WallStands`) is a wall: there
  is a set of nodes into which no entry of another node leads but the one that names the root,
  out of which none leads, and in which everything is that a running call holds open
  (`Walled`, `Within`). That what is in it is what `Below` computes is not needed at each
  step; `OutsideIs` says so once, for the two properties. The lemmas go layer by layer: a walk
  of `cap_std` from the root handle ends inside or fails (`WalkStays`, by `LeastNumber` over
  the hops and the names left, since a fold would need induction over data); each edit of the
  tree leaves a wall and changes nothing beyond it (`AttachEdit` to `ReapIs`); each system
  call is such an edit, and answers with what is inside (`OpenTells` to `RenameDoes`); each
  step of an operation is one system call and a frame (`ReadFileSafe` to `CopyDirRemoveSafe`);
  of the four steps of `create_dir_all`, `MakesAre` says which paths they come to.
  Assumed of the constants: the trees a program starts in are directory trees, with the root
  in one place and no hard link across its boundary.

  Of either host, whatever it is confined to: `TypesStand` and `CopiesStayClosed`, from a
  second invariant, `TreeInv` (`TreeInvariant`). For the types it adds to `TypeOK` that what is
  held open is there (`OpenIn`), so that nothing made or put in its place later is given its
  number, and that a step finds the kind it needs (`KindsIn`). For the copies it adds what
  they have made (`Copied`): nothing before the call that makes it; then, of a file, only what
  is held open; of a directory, which is not held, nothing broader than the owner's bits,
  which the mode always has, so even a file put in the place of it passes. A directory keeps
  its one name because a call gives a second name only to what is no directory
  (`NoNewName`), a rename takes the old one first (`MoveTurns`), and an exchange permutes
  names (`SwapTurns`). Here a walk is shown to end at a node, under the name it says (`At`,
  `WalkEnds`), and each call to turn a tree into one (`Acts`). Assumed besides: in the trees a
  program starts in, a directory has one name.

  Of a file's copy: `CopiesKeepTheRest`, from a third invariant, `KeepInv` (`TreeStaysWhole`). A
  name of another file could go in two ways. The removal could be of the wrong name: `Same`
  says that from the comparison to the removal, while nobody moves, the name stands for the
  file held open, and `Of` that this file is one the copy made. Or a directory could go with
  what is in it, when the last name of it or the last handle on it does: `Whole` says that a
  directory with entries has a name (`Filled`), that every node has one or is held open
  (`Reaped`), and that only a recursive removal and a directory's copy hold a directory
  (`Shut`), so that a directory a path leads to has a name when something is made in it. A
  call that makes something keeps every name there was (`Grows`), one that removes takes the
  name of what has no entries (`Loses`), a rename moves one (`MoveKeeps`). Assumed besides: in
  the trees a program starts in, no node is without a name, since nothing is held open yet.
* `FsOutcomes`: `NamedEntriesGo` and `CopiesAreFaithful`, what a call that succeeded has done
  to the tree it started in, on either host, for every tree, path and spelling, every umask
  and mode, as long as no other program moved; the first also says that a recursive removal
  that fails has taken only what is below the directory. Both are the last clause of `OutInv`
  (`OutcomesStand`), which says at each step what the steps so far have made of that tree
  (`Known`): of most calls that nothing has changed (`Untouched`) or no name has gone
  (`Adding`); of a recursive removal that what has gone was below the directory held, and that
  the path still names that directory (`Emptying`), which is also what a removal stopped
  part-way leaves (`TakesBelow`); of a copy that it has read its source
  there (`FileRead`, `DirRead`) and that what it made is under the name given (`MadeAs`).
  The argument is about walks. A path is resolved again by each system call, in a tree the
  call itself has changed. A walk that finds something finds the same in a tree with more
  names (`WalkAgain`, `NamedAgain`), so what a removal finds while it empties is what it would
  have found at the start, else it fails; and one that lacked only the last name finds
  there what was made under it (`MadeFound`), so a copy's second look, at the name it made,
  leads to what it made. `WalkAgain` runs two walks in step and is proved like `WalkStays`.
  Then one lemma a step, `OutIs` to `StepsOut`. A reaping takes nothing that was there at the
  start (`ExtendsReap`), since nothing was held then.

  Of a call that failed: `FailuresLeaveTheTree`, from `FailInv`, which says of each step what
  the clearing up that may follow it needs (`Undoable`). What a copy made is reached by its
  one name and by nothing else (`Alone`), and taking away a name like that, and what is left
  without one, gives back the tree the call started in (`Undo`); that the clearing up finds
  that name and no other needs that a walk ends at the last component it was given
  (`EndsAs`, `NamesEnd`). A recursive removal is the hard one: it fails before anything has
  gone, for a path that ends in dots, and once it has started the removal of the emptied
  directory must not fail. The path still leads to its name, as the property asks, so the
  last step finds the directory there, and it is empty (`Emptiable`, `EmptiedGoes`). The
  property does not ask this of `/`, nor of a path that leads through what is being removed
  (`d/sub/../../d`): there the directory is emptied and its name then missed. Nor of
  `create_dir_all`, which keeps the first directories when a later one fails, nor of a removal
  that is stopped below: what it has taken by then stays taken, and `NamedEntriesGo` says
  what that may be. The runs' paths
  had neither and the attempt to prove the property for all met both; std and cap-std are
  written so, and the interface promises nothing of them. The proof also needs that no
  component of a path is empty, as in the parsed paths the code walks (`Comps`).
* `WorkingDirProofs`: `RootIsOne` and `FailureIsKept`. The invariant ties `acted` to the
  memo: before the root is known nothing has been acted on; when it failed, nothing was, and
  the error told is the memo's; when it is opened every act was through its handle.
  `LostNeverActs` and `SetAlwaysUsed` rest on `CwdInv`: the slot is empty until the memo is
  final; until another program moves (`still`), the directory set is where the slot's path
  leads by the handle of the root; no move gives a path to a directory that had none.
* `OpenFilesProofs`: `HandedAlwaysAboveStdio` and `FdsAlwaysHaveOneOwner`. That every number
  has one owner holds between calls only; `OneOwner` adds the number a running call has
  duplicated and given to nobody yet (`Pending`), and holds always. The lemmas `Taken`,
  `HandedOut`, `Given`, `Freed`, `Dropped` and `Kept` say how ownership moves, and each call is
  a few of these moves. `Running` says what each step knows of its call: that an open which
  fails to make its stream still owns what it opened, and drops it. The limit on descriptors,
  those inherited, the calls and what other processes do are arbitrary.
  Of the file's bytes: `CursorAlwaysPastRun` and `NoByteToldTwice`, from `DataInv`: the runs
  of two open files are never the same, what a run wrote or read is behind its cursor, and a
  byte that was read is in one place of one answer. `AppendsAlwaysKeepAll` and
  `OffsetsAlwaysKept` are action properties: their invariant is that an open file appends only
  after a stream for appending was made of it, and what it does to the file then. Assumed of
  the constants: the bytes a run starts with are of no open file.
* `BasicLibProofs`, of numbers: `ExactAlways` and `VerdictsAgree`, from the one assumption
  that ten times the cap and nine fit the word, which `Url.roc:542-543` claims. `SameVerdict` is not
  inductive: after the cap what is held falls and rises, and only `Exact` says that the number
  is past the cap as well.
  Of dates: `InstantKept`, `AnswersValid`, `CallsShrink` (that `normalize_date` ends,
  which no run checks). `DaysAdd` is the lemma they rest on: in the closed form a month's
  first day plus its length is the next month's first day, leap years and the end of a year
  included. `Division` carries the instant through the four divisions that start the
  conversion, for every value of the rates.

Only model-checked:

* URLs, which are built with folds and recursive functions over text, and the environment and
  the locales, which cut strings up likewise: induction over data is beyond the prover.
* Of `FsProps`: `LinksLeadInside` and `DescriptorNamesItsDirectory`, which need two walks
  by different paths to meet: from `/` and from the root or the directory that was opened,
  with as many links more to follow as lead there, and the bound on them counts.
  `ModeSetUnderItsName`, which needs that where a name with slashes is asked for, a walk does
  not follow the link that stands there. What of it concerns the outside of a confined host
  is a part of `WritesStayInside`.
* `BackendsAgree`, two walks in step.
* Liveness under fairness (`CallsAnswer`), and anything with `ENABLED`.

## 5. What is not modelled, and why

* Error kinds are kept where the backends could differ or the application is told of them;
  messages are not.
* Timestamps, sizes, hashes, ownership and permission checks, other than the modes copies
  deal with, and a recursive removal that is stopped by what it may not read. Names are
  model values: only URLs, and the variables that name locales, are parsed.
* Two directory descriptors in use at once: they share nothing but the tree, so one at a
  time shows what each resolves to.
* `write_file_at!` may leave a truncated file when its write fails; the properties say so.
* `clocks-host`: two clock reads and a sleep; the one thing it keeps is the instant that its
  monotonic clock counts from. `random-host`: reads the system's source at each call and keeps
  nothing. `platform!`: a table of constants. `Cli.roc`: other names for calls made elsewhere.
* `Host.file_read_line!`'s limit on a line: the reading under it is `read_until`'s, which
  `SharedStdin` models over a stream without a file.
* `Path.roc`: pure functions over three kinds of path, without state; what the hosts do with
  a path starts from its bytes.
* `os_bytes` in `FsOps.roc`, which converts as `Environment`'s `OsString` does, and the
  Windows arm of `join_bytes`: Windows code paths are not built by these hosts.
* Of `Url.roc`: the generic encoder and decoder, the wording of errors, and which byte or
  position an error names. A host's error is its kind.
* The text of a date, and `Utc`'s arithmetic on nanoseconds.
* The shell tests, read for what the code promises; the rest of the build wiring.

## 6. Where a comment and the code differ

* `copy.rs:148-149` says the mode is set on the directory just made *even if the name is
  swapped*. `open_made` opens it again by name; a link in its place is refused, another real
  directory is not (`mode_of_copied_dir`). On the confined
  host that directory is beneath the root (`ConfinedWritesInside`). On the unconfined one
  `O_NOFOLLOW` guards the last component only: when the *parent* is exchanged for a link that
  leads out, a directory of the copy's name that was there already is opened and given the
  source's mode (in the scene, `out/m`, for a copy to `sub/m`). What holds on both hosts is
  `ModeSetUnderItsName`: no link in the place of the copy itself is followed, with or without
  a slash after its name.
* `copy.rs:119` says a failed copy of a directory leaves nothing behind because it removes
  the directory it made, and `148-150` that nothing is inside that one. The removal is by name:
  unlike `remove_if_same` for files (`copy.rs:81-83`), nothing compares what stands there with
  what was made, so an empty directory that another program put in its place before the
  cleanup is removed, and the one made stays (`copied_dir_removed`, on the confined host).
  `FileCopyKeepsTheRest` is therefore about a file's copy alone.
* `lib.rs:936-937` says a relative link moved to another directory must leave its target
  existing inside. The target is looked up before the move, so a path that runs through the
  link's own old name is found and then taken away (`moved_link`). `LinksLeadInside` shows
  that such a link leads nowhere, and not outside.
* `Env.roc:6` of basic-cli-lib says the environment, with its working directory, is modified
  without losing native strings. `FsOps.roc:47` decodes the resolved path lossily before it
  stores it, so in a process whose directory's name is not UTF-8 a relative `set_cwd!` sets
  the directory that the decoded name spells, when there is one (`set_cwd_bytes`).

## 7. The plan

1. Paths, copies and the root; the two backends compared; directory descriptors (done).
2. Standard input and its queue, with proofs (done).
3. Open files, streams and hand-off (done), who owns each number proved.
4. Standard output and the ends of a run; the environment and the locales (done; standard
   output proved).
5. Pure algorithms against a reference definition: URLs and dates (done, dates proved).
6. Confinement of reads and writes, the types of either host and the modes of its copies,
   the working directory and the bytes of open files; what a call that succeeded has done
   to the tree (proved).
7. Open: `Path`'s components and joins; `Host.file_read_line!` composed with `OpenFiles`;
   proofs that walks by two paths meet.
