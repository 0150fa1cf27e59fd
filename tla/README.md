# A verification of kleidos in TLA+

kleidos keeps key/value secrets in one age-encrypted file. This directory holds
TLA+ modules that model the program, TLC configurations that model-check them on
small instances, and proofs that TLAPS checks for instances of any size. Paths
like `store.go` are relative to `src/internal/` with their package.

    tlc -workers 2 -config StoreCrash.cfg MCVaultStore   # one run of the table below
    tlapm VaultStore_proofs.tla                          # the proofs

## The system

| component | state it keeps | operations | hard about it |
|---|---|---|---|
| Vault store, `vault/store.go` | the directory: `secrets.age`, `secrets.age.bak`, `lock`, `recipients`, `identity`; per process the open lock, the loaded vault, the cached recipients, the temp file | `Open`, `Load`, `Update` (`withLock`, `load`, `save`, `recipients`) | writers exclude each other by a lock on an inode, readers take no lock, any system call can fail, processes are killed, power is lost between a rename and its fsync, the user edits `recipients` meanwhile |
| Vault format, `vault/format.go` | the plaintext: a map from names to values with update times, a fingerprint key | `New`, `Set`, `Get`, `Delete`, `Rename`, `Missing`, `Encode`, `Decode` | the rule that nothing empty, NUL-carrying or badly named is stored must hold over every path that writes |
| Writing verbs, `cmd/{set,delete,rename,import}.go` | none | check the arguments, then `Store.Update` with a callback | what was checked before the lock is acted on after it |
| Reading verbs, `cmd/{get,reveal,has,list,export,read}.go` | none | `Store.Load`, all-or-nothing lookup, output | a partial answer is the dangerous one, and an output that is read back as something else |
| Run verb, `cmd/run.go` | none | flags, lookup, the check of old values, the overlaid environment, `LookPath`, `execve` | a vault older than the rules, a variable inherited under the same name, whose status it is |
| Import formats, `cmd/{dotenv,nullrec}.go` | none | `parseDotenv`, `parseNullRecords` | a line that has more than one meaning must be refused, one that has a meaning must be stored as that |
| Shell quoting, `cmd/shellquote.go` | none | `shellQuote` | the reader is a shell, behind a command substitution |
| Dispatch and flags, `main.go`, `cmd/cmd.go`, `errs/errs.go` | none | `dispatch`, `parseFlags`, `Code` | flags after keys, keys that look like flags |
| Prompt, `prompt` in `cmd/set.go` | the terminal's echo setting, a saved state, a signal channel | read a value with echo off | a second goroutine restores the terminal and exits on ^C while the first is inside `ReadPassword` |
| Copy, `cmd/copy.go`, `clipboard/clipboard.go` | two processes, two pipes, a timeout and a deadline | `spawnServer`, `CopyServe`, `serveCopy`, `Serve` | the foreground half must report the truth about the background half, which outlives it |
| Wayland backend, `clipboard/wayland.go` | a connection and its event queue, the ownership | `serveWayland` | events arrive before they are expected, the deadline races a loss, the compositor need not answer |
| X11 backend, `clipboard/x11.go` | a connection, events set aside, the ownership time | `serveX11` | the same, and 32-bit timestamps |

Processes interact only through the directory (locks, names, renames) and, in
copy, through two pipes; the prompt's goroutines through a channel and the
terminal; the backends with other clients through the display server. What one
command printed is read by a shell, a child or, later, by another `import`.

## Modules

| module | models | how |
|---|---|---|
| `Errs` | `errs/errs.go` | the exit statuses; an operation ends with one |
| `Vault` | `vault/format.go`, callbacks of the writing verbs, lookup | operators: a vault is a function from names to secrets or `Absent`; `Apply(r, v)` is the callback of request `r` on vault `v`; `Accepted(r)` what a verb checks before it opens the store |
| `AtomicVault` | what the store promises | the abstract specification: one vault, changed in one step or not at all, reported only when it can no longer be lost; reads answer from one moment |
| `VaultStore` | `vault/store.go` under any number of processes | one action per system call another process, a kill or a power failure can come between, with the computation that follows it |
| `VaultStoreProps` | - | its properties and the refinement mapping to `AtomicVault` |
| `MCVaultStore` | - | requests and recipients files for TLC |
| `VaultStore_proofs` | - | theorems about the store |
| `Prompt` | `prompt` in `cmd/set.go` | both goroutines, `golang.org/x/term`'s three steps, ^C at any moment, prompts in a row on one terminal |
| `CopyHandoff` | `cmd/copy.go`, `Serve` in `clipboard/clipboard.go` | both processes, both pipes, the timeout, the deadline, ^C, a display server that need not answer; a backend is what it promises |
| `ClipboardBackend` | what `Serve` and `copy` count on from a backend | the abstract specification: ready once and only after the selection was ours, no paste after the return, and `backendError` only while nobody was given the value |
| `X11Selection` | `serveX11` and its connection | with a server, a client that copies and one that pastes; implements `ClipboardBackend` |
| `WaylandSelection` | `serveWayland` and its connection | with a compositor, a client that copies and one that pastes; implements `ClipboardBackend` with `EarlyPastes` |
| `Prompt_proofs`, `CopyHandoff_proofs`, `X11Selection_proofs`, `WaylandSelection_proofs` | - | theorems about each |
| `Text` | `strings` and `bufio.Scanner` as used, `CheckKey`, `CheckValue`, what JSON does to bytes | texts are sequences of byte classes, one for all the bytes the code does not tell apart |
| `ImportFormats` | `cmd/dotenv.go`, `cmd/nullrec.go` | both parsers as operators: the assignments in order, or refused |
| `OutputFormats` | `cmd/shellquote.go`, the loops of `export`, `get`, `reveal` | operators, with the buffer of `bufio.Writer`; and, external, a shell that evals and a reader that cuts at NULs |
| `RunVerb` | `cmd/run.go` | flags, lists and the environment as operators; `os.Environ` and `getenv` are external |
| `Session` | `dispatch`, `parseFlags`, every verb but `copy` | one action per verb, on the vault of `Vault` with texts for names and secrets; each command is given, runs alone and ends |
| `SessionProps`, `MCSession` | - | what inputs mean and outputs must restore, defined without the parsers; short inputs for TLC |
| `Text_proofs` | - | induction, and what folds, `Keep`, `Split`, concatenations and trimming make of every sequence, and its parts |
| `Outputs_proofs` | - | theorems about `OutputFormats`, `RunVerb` and the `.env` parser of `ImportFormats`: what reads the outputs back gets what was put in |
| `Session_proofs` | - | theorems about what commands do to the vault, store of their input, print and hand on |

Correspondence in the store: `secrets`, `bak` and `lock` are what the three names
refer to; a directory entry holds a file's contents because a file is never
written after its rename. `secretsDisk` and `bakDisk` are what each name may turn
out to be after a power failure: every change of a name adds a possibility, the
fsync of the directory leaves one. A file that was not fsynced may come back
torn. `version`, `acked` and `floor` are history, for the properties only. An
`IOError` stands for any error return of any call, `Forget` for what the kernel
takes back from a process that is gone. `Start` is a verb up to and including
`Open`. The five deferred or unconditional calls of the code (`os.Remove` of the
temp file, `LOCK_UN`, two closes, the close of the directory) are steps of the
path they are deferred on, never steps that may be left out.

Correspondence in the session: a command is the arguments after the verb, what it
reads and whether there is a terminal; `last` is the last command and how it
ended. `Session` runs the request of each writing verb through the same `Apply` that
`VaultStore` runs between its system calls: `VaultStore` is about what happens to a
vault among processes, `Session` about what happens to a value between its input
and an output. Commands are given at the start and after one that changed the
vault, because after any other the vault is what it was.

Correspondence in the backends: `offered` of `ClipboardBackend` is `granted`, kept by
the server's side of each model; `outcome` is the kind of error returned. In
`CopyHandoff` a backend takes these steps: `Unavailable` is a return of
`backendError`, `TakeSelection` and `Confirm` are the grant and its confirmation,
`Ready` follows them, and `Break` is a final error.

## Runs

| run | question | bounds |
|---|---|---|
| `store_crash` | do exclusion, durability, whole files, current reads, the backup, clean failure, no lost update and `AtomicVault` survive errors, kills and power loss? | two processes, three requests (a write, a write that needs it, a read), two lock inodes, requests issued until there are two writes |
| `store_verbs` | is only clean data stored, and no vault encrypted to nobody, whatever the verbs and the user's edits of `recipients`? Do writers and readers return, whatever fails? | two processes, twelve requests of all verbs with good and bad arguments, three recipients files (the own key, another's, empty), one lock inode, errors and kills, requests issued until there is one write |
| `store_backup` | is the backup held until the next write? **No** | errors only |
| `prompt` | is the terminal left as found, and is ^C never swallowed? | two prompts |
| `prompt_echo` | does ^C at any moment of the prompt leave echo on? **No** | two prompts |
| `copy` | is the report true, does a failure leave nothing behind, do both halves end? | none: the state space is finite |
| `x11` | does it implement `ClipboardBackend`, are the pastes older than the ownership refused and no others, is every paste answered, does the deadline end it? | queues of 2, one other copy, clock up to 3 of 8 |
| `x11_newer` | is another client's newer copy kept at the deadline? **No** | the same |
| `wayland` | does it implement `ClipboardBackend`, is the fallback clean, does the deadline work without and with the compositor, does a loss end it? | 2 events, 3 pastes, 2 copies |
| `wayland_early` | does an error without ready mean nothing was served? **No** | the same |
| `session` | is what `set` and `import` were given what is stored, or refused for a reason, and what a shell, a child, a reader of NULs and another `import` get back? | one write; values of 3 special bytes, files of 4, values in files of 4, pairs of lines, two records; lines of 12 bytes, a buffer of 20 |
| `session_exact` | does `set --stdin` store exactly the bytes read? **No** | the same |

Why the bounds are enough. Two writers are what mutual exclusion, lost updates
and a stale backup take, and `lock` can be lost to a power failure and created
again, hence two inodes; a third process would only repeat the second. Two
writes are the first, which has no backup, and one that has; a process that was
started before the last of them may make one more, on what that one left. So
`store_crash` has up to three writes and `store_verbs` two, one after the other; the
proofs below cover any number.
In `store_verbs` the own key in the recipients file lets one verb work on what
another stored; the key of another machine makes the next load fail; an empty file
is refused by `save`. The user may put any of the three in place of any other, at any
time. The run has no symmetry, which liveness does not admit, and so one write less
than `store_crash`. The requests of `store_crash` contain a
pair that conflicts (a rename of what the other sets) and a read whose answer
tells old vaults from new. In the display-server models queues of two let an event
overtake the reply it is awaited with, one foreign copy suffices for every race
of a loss, and the clock allows a copy, a paste before and a paste after it.

The parsers and printers look at a few bytes at a time: a blank, a quote, a
carriage return, a `#` or a `=` next to each other or at an end. Texts of 3 and 4
bytes over those classes contain every such neighbourhood, pairs of lines every
way that one line may affect the next. `MaxToken` (1 MiB in the code) is 12 and
`BufSize` (4096) is 20, so that lines at, below and above the limit, and exports
that leave the buffer before they end, are among the inputs. One write on each
initial vault, and a vault that older versions left, is enough for values: no
verb looks at how a value came to be there. `MaxWrites` bounds it.

Each property of a passing run has a mutant in `PROJECT.json`: a plausible bug
in one definition (`\* Mutant of ...` in the modules) that makes TLC find the
property violated.

### What the violations show

- `store_backup`: `save` removes `secrets.age.bak` before it links the vault to
  that name. An error, or a kill, after that leaves the vault unchanged and the
  previous one gone, although README.md and `kleidos delete -h` say it is held
  until the next write. A write that fails was no write.
- `prompt_echo`: a ^C caught after `signal.Notify` and before `ReadPassword` turns
  echo off lets the handler restore the terminal first and the other goroutine
  turn echo off after it, before `os.Exit`. The window is short; the comment in
  the code promises there is none.
- `x11_newer`: relinquishing at the deadline with `CurrentTime` takes the selection
  from a client that copied while the request was on its way. The comment in the
  code says that cannot happen. `WaylandSelection` has the same race at
  `set_selection(null)`.
- `wayland_early`: a paste that arrives during the confirming roundtrip is served
  at once; if the roundtrip then fails, the error comes without ready although
  the value did reach somebody, against the contract of `Serve`.
- `session_exact`: a value whose bytes are not valid UTF-8 passes `CheckValue`, and
  `encoding/json` replaces those bytes by U+FFFD when the vault is encoded: `set
  --stdin` reports success and has stored something else, although README.md says
  that it stores exactly the bytes read. `import --null` does the same.

More was met that has no run of its own:

- `time < ownTime` in `x11.go` 440 compares 32-bit timestamps as numbers. Once the
  server's clock has wrapped, every paste is refused. `PastesJudgedByTime` holds
  while it does not; give `X11.cfg` a `MaxTime` of at least `Wrap` (5 and 4) and TLC
  finds a paste that is misjudged.
- A server whose clock reads exactly 0 answers the probe with a time that the loop
  of `x11.go` 346 takes for no answer; the models keep the clock away from it.
- A process killed between `CreateTemp` and the rename leaves a `.secrets-*.tmp` file
  that nothing removes (`litter`); the code promises that of failures only.
- An export that fails because of a value of another program, later than its
  first buffer of output, has already printed the buffer, perhaps up to the
  middle of an assignment; `EvalRestores` speaks of exports that succeed.
- A comment in `dotenv.go` (37-38) lists CRLF line endings among the errors; the
  code takes one carriage return off each line, and a file of such lines is read
  as it is meant.
- `rename` moves a value without looking at it, so an empty one of an older
  version gets a new name. `run` refuses it there as well, which
  `RunInjectsExactly` checks.

Two more traces exist in `CopyHandoff` that contradict no sentence of the code
outright and have no run: a ^C while a value larger than a pipe is handed over
makes the background half serve the part it got, and a display server slower
than `--clear-after` makes it take the clipboard after the deadline, to be cleared
at once.

## Fairness

- Store, readers: a reading process that can take its next step does
  (`ReadersFairSpec`); of writers nothing is assumed, and `ReadersNeverWait` holds
  although one may stop for ever with the lock in its hands. That is the point of
  the comment at `store.go` 42-45.
- Store, writers: `WritersReturn` assumes `Fairness`, every process is scheduled and
  a `Flock` that is possible again and again happens. The kernel wakes the
  waiters of a flock in turn, which is what the strong fairness stands for. No
  fault ever has to happen.
- Prompt: both goroutines run. No fairness for the user.
- Session: none; every command ends in its step, and its properties are safety.
- Copy: both processes run and both timers fire; `OrphanEnds` also assumes that
  the display server answers (`ServerAnswers`), `CopyReturns` does not.
- X11: client and server run. Strong fairness of `Relinquish`, because Go's
  `select` picks among ready branches at random and so cannot pass the deadline
  over for ever.
- Wayland: the client runs, the same for `Clear`, and the clearing timeout fires.
  `ValueGoesAway` and `LossEnds` also assume a compositor that does its part
  (`CompositorServes`), `DeadlineReturns` does not.

## Proofs

The theorems hold for every value of the constants that satisfies their
assumptions, which TLC evaluates in every run: any sets of processes, names,
secrets, requests and commands, any lengths of queues, bounds on copies, pastes,
prompts, clocks and writes, and any combination of faults. What the assumptions say:

- `NamesAssumption`, `SecretsAssumption`, `StoreAssumption`: the constants are of their
  kinds, and `None` and `Absent` are none of the other values.
- `PromptAssumption`, `WaylandAssumption`, `X11Assumption`: the bounds are numbers, and
  the queues hold an event at least.
- `MarksAssumption`, `InitialVaultsAssumption` of `Session`: a mark is no text and no
  vault, and a vault that is found was decoded from JSON and so is valid UTF-8.
- `TextsAssumption`: arguments, inputs, names and environments are sequences of bytes,
  as the operating system has no other. `MaxWritesAssumption`,
  `BufSizeAssumption` and `MaxTokenAssumption`: these are numbers.
- `OfferedAssumption`: every name that the input of an import assigns is among `Names`,
  which is the set that vaults range over, as large as the inputs need.
- `RecordsAssumption`: what `import --null` is given was written by a generator, each
  record ended by a NUL, the last one perhaps not, no name with a `=` or a NUL in it, no
  value with a NUL. Input of another kind has no records to compare it to; the
  theorems on what commands do to the vault do not use the assumption.

Two theorems have a hypothesis of their own, which their properties are about:
`PastesJudged` that the server's clock does not wrap, `AlwaysUsable` that the
session does not start from a vault of an older version.

Every inductive invariant below was first checked with TLC, over all typed states
where those are few enough and over the reachable ones elsewhere.

### Store

`VaultStore_proofs` proves, from one inductive invariant `IInv`:

| theorem | property |
|---|---|
| `TypeCorrect` | `TypeOK` |
| `NoCopyLeft` | `FailureLeavesNoCopy` |
| `MutualExclusion` | `OneWriter` |
| `UpdatesAreKept` | `NoLostUpdate`, an action property |
| `Durability` | `AckedIsDurable` |
| `NeverTorn` | `VaultIsWhole` |
| `FreshReads` | `ReadsAreCurrent` |
| `BackupKept` | `BackupIsPrevious` |

None of these is inductive alone. `IInv` has three layers.

1. `TypeInv`: types, which requests a process can have where (`RequestInv`: a writer
   runs a mutation, or the callback could be anything) and when a temp file exists
   (`TempInv`).
2. `LockInv`: who holds which inode, that every process past `OpenLock` has the
   inode that the name still refers to (it is never unlinked; a power failure
   unlinks it together with every process), and that one in its critical section
   holds it. Exclusion follows.
3. `DataInv`, which needs exclusion: what a writer has loaded is still the vault
   (`BaseInv`), its temp file is the result on it (`TempIsResult`), each name's
   current file is among those a power failure may bring back and all of these
   are whole and recent enough (`DiskInv`), what was acknowledged is no newer than
   any of them (`AckInv`), a read is no older than its `floor` (`ReadInv`), and the
   backup is the base of the writer that is past the link (`BackupInv`).

A second invariant adds `ContentInv`, that every file with a name is clean,
synced and encrypted to a non-empty recipients file, and proves `CleanData`
(`StoredDataIsClean`) and `NeverLockedOut` (`VaultStaysReadable`).

The last part proves `StoreIsAtomic`, `Spec => Implements`: initial states
map to initial states and each action of `VaultStore` to one of `AtomicVault` or to
a stutter (`RenameTemp` to `Commit`, `SyncDir` to `Persist`, opening the file for a
read to `Sample`, and so on). `IInv` supplies that the vault a rename replaces is
the one the callback was applied to.

### Prompt, copy and the two backends

| module | theorem | property |
|---|---|---|
| `Prompt_proofs` | `TypeCorrect` | `TypeOK` |
| | `TerminalIsRestored` | `TerminalRestored` |
| `CopyHandoff_proofs` | `TypeCorrect` | `TypeOK` |
| | `CopiedIsTrue` | `CopiedMeansHeld` |
| | `FailureIsClean` | `FailureLeavesNothing` |
| | `OneReportPerCopy` | `ReportsOnce` |
| `X11Selection_proofs` | `TypeCorrect` | `TypeOK` |
| | `RefinesBackend` | `IsBackend`, the refinement of `ClipboardBackend` |
| | `PastesJudged` | `PastesJudgedByTime`, if `MaxTime < Wrap` |
| `WaylandSelection_proofs` | `TypeCorrect` | `TypeOK` |
| | `FallbackClean` | `FallbackIsClean` |
| | `RefinesBackend` | `IsBackend`, the refinement of `ClipboardBackend` |

In `Prompt_proofs`, `IInv` says when the handler's goroutine exists and signals are
caught (`HandlerInv`), where the prompt can be when a signal was caught at a given
point (`CaughtInv`), and what the terminal's echo is at each point (`EchoInv`): the
terminal differs from the state that was saved only while the value is typed. That a handler on its way to the exit has already
put echo back, for a signal caught in that stretch, is what
`InterruptedReadRestores` needs; for one caught just before, it is false, and that is
what `prompt_echo` shows.

In `CopyHandoff_proofs`, `IInv` ties the place of the child to the status pipe
(`StatusInv`: nothing is in it before the report, one report after), to the value
(`ValueInv`: only a parent that was interrupted leaves a part of it to a child that
lives) and to the selection (`ReportInv`, `SelectionInv`: a report of ok follows the
confirmation, and the selection is not ours without a child that holds it). The
parent learns of the child only through the pipe, so each of its conclusions needs
the first of these.

In `X11Selection_proofs`, `IInv` bounds what can be in the queues: the client asks for the
selection with one time only, and the server sends no reply that names us before
it granted it (`Requests`, `Arrivals`). `RefinesBackend` follows, because readiness
waits for such a reply. `JudgedInv` adds that the grant is as of the time that was
learnt, the very one pastes are compared with. That needs `Wire(t) = t`, a clock that
has not wrapped.

In `WaylandSelection_proofs`, `CompositorInv` says that no paste waits or was served
without a grant; `OfferInv` that nothing was sent by a `serveWayland` that ended
with a backend error; `RoundtripInv` that the answer to the sync comes after the
selection was granted or an error, which is what makes the confirmation one.
`CountInv` bounds the pastes served by those requested: the served ones and those
that wait, counted as a finite set, never exceed them.

Both refinements go step by step: `Offer` of `ClipboardBackend` is the server's grant;
`Ready`, `Paste` and `Return` are steps of the client; the rest stutters.

### Session

`Session_proofs` proves of every session, with any commands on any inputs:

| theorem | states |
|---|---|
| `VaultIsKept` | the vault is one, in valid UTF-8, or none, or unreadable |
| `VaultOnlyWritten` | `OnlyWritesWrite`: only a writing verb that succeeds changes it, never one of another version |
| `NothingBadAdded` | `WritesAreClean`: what it holds was there, is fit to be stored, or was moved by a rename |
| `NothingLostUnasked` | `LossIsAskedFor`: a value goes only by one `delete`, by `set`, `rename --force` or `import --overwrite`; a rename keeps what it moves |
| `AlwaysUsable` | no vault of a session of this version is one that `export` or `run` must refuse |

The parsers of import are not expanded in these proofs: whatever request they make
of an input, `Update` checks it. The proofs need that encoding a value
twice is encoding it once (`EncodeOnce`), or every write might change every value.

That the request is the one that was meant is proved from what the input means:

| theorem | states |
|---|---|
| `ImportReads` | the parsers read an input exactly when it means one thing, each name once, and then as that |
| `ImportIsJudged` | `ImportVerdict` |
| `GivenIsStored` | `StoredAsMeant` |

The parser of `.env` lines is a program of trimming and cutting, and `Denotes` says what
a line means as a sentence with no order of steps: somewhere in it are a name and a
`=`, before them what may stand there, after them something that `Spells` the value.
`LineMeans` shows them equal, for any line: what `ParseLine` reads is the one entry
that the line denotes, what it skips denotes nothing and is void, and what it refuses
denotes nothing and is not. On the way are `SpelledRead` and `ReadSpells` (values),
`AssignsRead` and `ReadAssigns` (assignments), `MadeAt` and `MadeOf` (where their parts
are). `LinesAreRead` carries it through a file by induction over its lines, with
`Twice` for the names that come again, and `RecordsAreRead` does the same for records,
which `RecordsCut` gets out of the NULs. `MeantAmid` shows that names and values are
parts of the file, so that the sets of `Meaning`, which range over parts, lose none.
`ImportArgs` and `ImportEnds` are what flags and policy add, and `WritesOver` that saving
changes nothing else.

The outputs are followed to what reads them:

| theorem | property |
|---|---|
| `TypeCorrect` | `TypeOK` |
| `EvalAlwaysRestores` | `EvalRestores` |
| `ExportAlwaysReimports` | `ExportReimports` |
| `RevealAlwaysRestores` | `RevealRestores` |
| `RunAlwaysInjects` | `RunInjectsExactly` |

They rest on `FlagsAnywhere` (what `ParseFlags` makes of any arguments) and on four
theorems of `Outputs_proofs`, which know nothing of a session:

- `ExportEvaluates`: the shell, byte by byte, comes from one assignment to the next
  with the name and the value as its word (`ReadsQuoted`, by induction over the
  value: a quoted byte leaves the shell inside the quotes, the four bytes for a
  quote leave and enter them again), so that after all of them it has one command
  for each name (`ReadsAll`); and what a buffered writer has sent and what waits in it
  are together all that was written (`WriteKeeps`), wherever it was flushed.
- `ExportReadsBack`: the parser of `.env` lines reads the assignment that export wrote
  as its entry, or refuses the file. The text falls into lines at the newlines
  (`AssignmentLines`), and the parser is a fold over them that never leaves a refusal
  (`StaysRefused`). A value with a newline leaves its first line without the closing
  quote at the end; one with a quote leaves a quote before the end (`FirstQuote`);
  both are refused, and every other is read as it was (`QuotedValueIs`, `LinesReadIs`,
  `ReadAgainAll`).
- `NulsDelimit`: one more value and its NUL is one more piece of the cut text.
- `OverlayShows`: `Environ` keeps the first of the variables of one name, so that
  `Overlay`, which replaces the last, replaces the one that `getenv` finds
  (`Sole`, `Agree`, `Overlaid`).

How folds are reasoned about. `Text_proofs` states induction for sets: a set that has
`<<>>`, and with each sequence the one that is longer by an element, has every
sequence (`SequenceInduction`). `FoldLeft` is, through `MapThenFoldSet`, the choice of a
function on the subsets of the indices; `FoldIs` shows it equal to `Fold`, which is
defined step by step and obeys `FoldEmpty`, `FoldAppend` and `FoldConcat`. Each operator
that folds (`Split`, `Keep`, `FlattenSeq`, the shell, the writer, the flags, the
environment) is brought to `Fold` once, and used through its lemmas from then on.
Definitions like `RunGives` or `CutsEnded` stand in these proofs for statements that are
used as a whole and expanded only where they are proved.

Four properties were false as they first stood, and their proofs did not go
through for that reason. `RevealRestores` said that `reveal -0` succeeds if all the names
are there, which an unknown flag among the arguments refutes; it now says so of
arguments that `Known` accepts, and `reveal -0 --bogus A` is among the commands of
`MCSession`. `RunInjectsExactly` took what follows a flag anywhere for its list, also
when that flag is itself the list of another (`--only --optional`), and spoke of
variables with a `=` in their names, which no environment can tell from a value.
`StoredAsMeant` and `ImportVerdict` took `--null` or a policy anywhere among the arguments
for a flag, also after `--`, where it is the name of a file; they now look at
`Flagged`, and `ImportVerdict` says of every unknown flag that it is refused.
`import --overwrite -- --null`, `import --overwrite -- --skip-existing` and a flag after
the file are among the commands of `MCSession`.

### Only model-checked

- The liveness properties, because fairness is out of TLAPS's reach: `WritersReturn`,
  `ReadersNeverWait`, `InterruptEnds`, `CopyReturns`, `OrphanEnds`, `DeadlineEnds`,
  `PastesAnswered`, `DeadlineReturns`, `ValueGoesAway`, `LossEnds`.

Every safety property that a passing run checks is the statement of a theorem.

## Not modelled, and simplifications

- `identity` is loaded successfully or `Start` does not happen: nothing has changed
  by then.
- A secret is value and update time together, as the code moves it by pointer;
  the fingerprints, the times and the table that `list` prints of them are left
  out, its names are not.
- The order in which verbs print several errors, and all wording. Flags are
  spelled `--flag`; `-flag`, `--flag=value` and the rest of the flag package's
  spellings are left to it. `version` is like `help`.
- Which of `Decode`'s checks fails: in `Session` a plaintext is a vault or
  `Unreadable`, in `VaultStore` every vault is one of this version.
- `set` at a terminal in `Session` takes the value from the command: how it is
  typed is `Prompt`'s, and `copy` is `CopyHandoff`'s.
- `vault/paths.go`, which picks one of three environment variables, and `testenv`.
- `age` is external: a file is decryptable by the identities it was encrypted to.
  Nobody but this program writes `secrets.age`; a user who deletes `lock`, or a
  file synchroniser, breaks what README.md says they break.
- File systems that reorder the two names of one directory on a crash are covered
  (the two disks vary independently), those that lose an fsynced file are not.
- X11 setup, Xauthority and wire encodings, Wayland message encodings and the
  passing of file descriptors: one step that may fail.
- The conversion of a paste to the target it asks for, and how much of a value
  reaches a pasting client when the process exits during the write.

## Plan

Done, in this order: `Vault`, `VaultStore` with its properties, `AtomicVault` and the
refinement, their proofs, `Prompt`, the two backends, `CopyHandoff`, the text modules
with `Session`, `ClipboardBackend`.

The proofs of `Prompt`, `CopyHandoff`, both backends, the session with the outputs, and
the parsers of import on every input.

Next: what `import --null` makes of input that no generator wrote, which needs a
meaning for records without a `=`.
