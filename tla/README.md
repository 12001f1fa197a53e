# db-verify: verification project

`db-verify` takes a backup file, detects which engine wrote it, restores it into a
throw-away docker container (or, for SQLite, a temporary copy) and opens a terminal
interface over the result. This directory holds TLA+ models of that program, the TLC
configurations that check them on small instances, and TLAPS proofs for every instance.
All line numbers refer to `src/`.

    cd tla
    tlc -workers 2 -config MCMain.cfg MCMain               # any run of the table below
    tlapm ProvisionProofs.tla                              # any *Proofs module

## 1. Inventory

| component | state it keeps | operations | hard behaviour | what makes it correct |
|---|---|---|---|---|
| **Provisioning** (`engines/*/…go`, `Provision`) | container, temporary copy, client, restore log | the sequence of calls of each engine, with a hand-written clean-up at each of some fifty error branches | cancellation between and during calls, failures of any call, failures of a removal | an error leaves nothing; a Session is complete; no Session after a cancellation |
| **Port selection and retry** (`internal/docker/dockerhost.go`) | port, attempt, cycle, list shown to the operator | `Preflight`, `FreePortFrom`, `StartWithPortRetry`, `offerToFreePort` | other processes and containers take and release ports between any two commands; the prompt | bounded; at most one foreign container is removed; nothing of ours is left on an error; the freed port is really tried |
| **Readiness** (`DockerHost.WaitReady`, the loops of mongo and redis) | deadline, current probe or nap | probe, pause, second probe; inspection (redis) | an image's temporary server, restarts, a container that dies, a timeout or a cancellation racing a late answer | ready means the real server, or one that outlived the pause; timeout kept, and deserved; a death is reported at once, and only of the dead |
| **run and its signals** (`main.go`) | mutex, `live`, ctx, channel of signals, exit code | run, the goroutine of the signal, deferred close | a signal at any instant; two closes at once; exit while closing | one owner of the session; nothing left; `--keep` honoured; exit code 130; a signal ends the process |
| **Copy and restore of a dump** (`CopyDump`, `Restore`, `streamDumpTar`, `DockerInput`) | pipes, goroutines, docker process | tar writer, os/exec copier, judgement of the result | blocked pipes, docker that ends early, a file that changed since detection | the whole dump or an error; no goroutine left; a failed restore is never "sem erros" |
| **Detection and picker** (`internal/detect`, `internal/ui/picker.go`, `engines.go`) | directory list, cursor, chosen file, Backup | `findBackups`, picker keys, `InspectDumpAs`, six `Detect` | ties between engines; files that change between list and choice | the first of the most confident engines; what the picker showed is what runs |
| **Terminal interface** (`internal/ui/tui.go`) | filtered list, cursor, offset, filter, spinner, last result, horizontal scroll | keys, mouse, resize, answers of queries | several queries in flight, answers in any order, filter and list changing under the cursor, a table that changes its width | selection and table on the screen; rows shown belong to the selected collection; the spinner ends |
| **Order column and Recent** (`internal/relational`, `Collections`/`Recent` of the SQL engines and mongo) | descriptor of each collection | `ChooseOrderColumn`, the CTE `best` of Postgres, `mongoChooseOrderField`, the DESC sort, flattening | the same choice written twice; NULLs, mixed types and types without an order; documents of different shapes | the dialects agree; newest first; nothing of a document lost |
| **Redis keyspace** (`Health`, `Collections`, `Recent` of redis) | cursor, counters, sample | `scanKeyspace`, `fetchKeyMeta`, `sampleGroup` | SCAN repeats keys and answers empty batches; keys expire between any two calls; the scan is cut off | exact counts exact, estimates consistent with DBSIZE, the sample is of the group and its greatest names |
| Flags, data directory, decompression, value formatting, conformance support, scripts | – | – | – | not modelled, section 8 |

The components meet as follows. `main` parses flags, lets the picker choose when there is
no argument, and calls `run`. `run` starts the goroutine of the signal, inspects the dump,
and calls `Provision` of the engine with a cancellable ctx. `Provision` uses `DockerHost`
for the port, the start, the readiness and the copy, restores, and connects. `run` then
publishes the Session under the mutex, asks for health and collections, and runs the TUI,
whose queries use `context.Background()` and end in `Recent` of the Session. Leaving closes
the Session unless `--keep`; a signal makes the other goroutine do so. Shared state is the
ctx, the mutex with `live`, the Session, and outside the process the docker daemon, the
ports of the host, the restored data and `data/`.

## 2. Modules

| module | models | uses |
|---|---|---|
| `ProvisionContract` | the promise on the `Engine` interface (engine.go:187-195), as an abstract specification | – |
| `Provision` | `Provision` of the engines: a *plan* per engine, whose entries are its calls | refines `ProvisionContract` |
| `PortRetry` | choice of the port and start of the container | – |
| `ReadyContract` | what Provision relies on in any `WaitReady`, as an abstract specification | – |
| `WaitReady` | the three readiness loops, with time | refines `ReadyContract` |
| `Lifecycle` | `run`, the goroutine of the signal, exit codes | composes with `ProvisionContract` in place of an engine |
| `DumpRestore` | streams into docker, judgement of copy and restore | – |
| `Detect` | picker, detection, `--engine` | – |
| `Main` | from the command line to a Session: detection, then Provision of the engine it chose | extends `Detect` and `Provision` |
| `Tui` | the model of the TUI and its queries | – |
| `Recent` | the choice of the order column, the sort, the table of documents | – |
| `Keyspace` | redis' `Health`, `Collections` and `Recent` over SCAN | – |
| other `*Proofs` | theorems about the module of the same name | TLAPS |
| `TerminalProofs` | theorems about `Tui` and `Detect`, which it extends both (`Detect` is made to be extended beside another module, hence `DetectInit`, `DetectNext`, …) | TLAPS |
| `MC*` | constants for TLC | – |

How they correspond to the code:

* **Provision.** An entry `[op, gain, undo]` is a call with what it creates and what the
  branch after its failure removes; `op` says how it treats the ctx (`check` is `Step` or
  `ctx.Err()`, `blind` is a call that never looks at ctx, such as `pgConnect`). `Pass`,
  `Judge`, `Bail` and `Fail` are the ways a call may go. The removal inside `Fail` may
  fail for any resource but a client (the code ignores those errors); `stuck` remembers it.
* **PortRetry.** One action per command that leaves the process (an attempt is `docker
  run`, or for redis create, copy and start, and counts as one), so that the environment
  (`Take`, `GiveBack`, `OtherStarts`, `OtherStops`, `Cancel`) acts between any two.
* **WaitReady.** `loop` says which of the three it is: DockerHost's doubts its first
  success, redis' looks at the container after each failed PING, mongo's does neither.
  `Tick` passes only while a sleep, a probe or an inspection is under way; each reads the
  server when it ends. Nobody bounds how long the server stays what it is. `flaky` runs also
  have commands that fail for no reason. The contract: ready only while something answers, a
  timeout never early, cancelled only when cancelled, and "the container died" only of a dead
  container (`isRunning` uses `context.Background()`, or a cancellation would be reported as
  an invalid RDB).
* **Lifecycle.** Two program counters, `runPc` and `sigPc`, and the mutex. `Provision` is
  any behaviour of the contract, which the refinement of `Provision` justifies. Closing is
  two steps (client, then container) that both goroutines may be in at once. The port prompt
  is a place of its own inside Provision (`Ask`, `OperatorAnswers`), as no ctx ends it.
* **DumpRestore.** The tar writer, os/exec's copier, docker and the engine are four
  processes. A write to an `io.Pipe` is a meeting of writer and copier. A dump is counted in
  chunks; `size` is what detection saw, `actual` what reading yields, `broken` that it ends
  in a read error. `refused` is that the server refused statements; `Recognised` says for
  which clients the lines that tell so match the engine's expression. (A compressed RDB is
  first written to a file of its own; a failure of that is one before docker starts.)
* **Detect.** A file is the signatures in its header and its extension. `Write` changes the
  contents of a file, never its name. `ChooseEngine` is the loop over the registry, the best
  so far after each engine; `findBackups` takes the least name of the entries it has left.
* **Main.** `Choose` and `HandOver` are the steps of `Detect`, `ProvisionStep` those of
  `Provision`, so from the handover on every behaviour is one of `Provision`, whose theorems
  apply. New is what happens between: `run` makes the ctx before the inspection, which never
  looks at it, so `CancelEarly` can hand a dead one to Provision. The other goroutine, and
  the exit codes, are in `Lifecycle`.
* **Tui.** `loadCurrent` adds a query to `inflight`; `QueryDone(c)` may answer any of them.
  A table is its two widths (`wide` or not), all the horizontal keys look at. `Filtered` is
  the loop of `applyFilter`, the list after each collection.
* **Recent.** The loop of `ChooseOrderColumn` is one action per column; the CTE is the
  predicate `PgBest` on the result. A row is what it holds in the order column; servers sort
  by the kind of a value before the value, so a sort key is the pair of both. A document
  is the set of its leaves, each with its path, so that flattening is a map over leaves; two
  paths with the same dotted name meet in the order a Go map is walked, which is any.
* **Keyspace.** `owed` is what SCAN still has to return: exactly the keys that stay. A batch
  may repeat keys or be empty. `Expire` acts between any two calls; inside the pipeline of
  `fetchKeyMeta` a key may go between its TYPE and its TTL. DBSIZE may count keys that have
  expired and were not deleted yet. The sorted sample is given by the place each key takes
  in it: `Place(k)` rows are from `k` up, and row `x` is the greatest key with at least `x`.

## 3. Runs

| run | module, cfg | states | shows |
|---|---|---|---|
| `main` | `MCMain`, `MCMain.cfg` | 1,566,099 | the best engine, and what the picker showed, in a directory that changes; then every error branch of its Provision undoes exactly what exists, a Session is usable, none after a cancellation, the contract is implemented |
| `port_retry` | `MCPortRetry`, `MCPortRetry.cfg` | host of 3 ports | nothing left on an error, one foreign container at most, the freed port is tried, it returns or asks |
| `lifecycle` | `MCLifecycle`, `MCLifecycle.cfg` | 50,500 | one owner of an interrupted session, nothing left behind, `--keep`, an early signal is never a success nor a plain error of Provision, a signal ends the process or finds it at the prompt for good |
| `lifecycle_inspect` | `MCLifecycle`, `MCLifecycleInspect.cfg` | – | **violation**: a signal during the inspection of the dump can end with 1 |
| `wait_ready` | `MCWaitReady`, `MCWaitReady.cfg` | 60,256 | ready means the real server or a temporary one that outlived the pause, bounded overrun, no undeserved timeout, deaths noticed, the contract implemented, it returns |
| `tui` | `MCTui`, `MCTui.cfg` | 515,200 | selection and table on the screen, the spinner ends, rows of the selection for an operator who waits |
| `tui_stale` | `MCTui`, `MCTuiStale.cfg` | – | **violation**: with two queries in flight the rows of another collection stay on the screen |
| `dump_restore` | `MCDumpRestore`, `MCDumpRestore.cfg` | 15,094 | no deadlock, no goroutine left, whole dump or error, mongorestore's exit code counts |
| `dump_restore_silent` | `MCDumpRestore`, `MCDumpRestoreSilent.cfg` | – | **violation**: a failed psql, pg_restore or mysql can be "restore sem erros" |
| `recent` | `MCRecent`, `MCRecent.cfg` | 117,713 | Go loop and SQL choose the same column, newest first, no part of a document lost |
| `recent_promise` | `MCRecent`, `MCRecentPromise.cfg` | – | **violation**: in Postgres NULLs come before the newest rows, and a json column chosen by name cannot be sorted |
| `keyspace` | `MCKeyspace`, `MCKeyspace.cfg` | 305,941 | counts, estimates, header and samples of redis while keys expire and repeat |

Each passing property has a mutant of the code (an operator next to the one it replaces,
commented `Mutant:`) that breaks it. Deadlock is checked in `keyspace`, where an operation
can always start again, and not where the program ends.

### Findings

1. *Stale rows* (tui.go:192; tui.go:106, 429). `Update` accepts an answer without comparing
   its collection with the selected one.
2. *Silent restore* (postgres.go:260, mysql.go:316-327; README.md:43-44, tui.go:359,
   mongo.go:354-357). `ExitCode` is stored and read nowhere outside the tests. For a plain
   dump `psql -f` moreover prefixes each error with `psql:file:line:`, which the anchored
   expression at postgres.go:245 does not match, and with ON_ERROR_STOP=0 ends with 0.
3. *NULLs and json in Recent* (postgres.go:372, 316-318; engine.go:205-208). `ORDER BY … DESC`
   puts NULLs first in Postgres; a known name is preferred whatever the column's type.
4. *Interrupted inspection* (main.go:151-166; main.go:97-98, 119-120). A signal handled while
   the dump is inspected cancels ctx, but an error of the inspection goes to `main` without
   `interruptedErr`: exit code 1. From Provision on the code keeps its word, which is
   `InterruptIsReported`.
### Disagreements seen while modelling, without a run

* dockerhost.go:374 against main.go:119-122, 143 (*signal at the prompt*): the goroutine
  leaves the clean-up to Provision and ends; Provision waits for a line of standard input that
  no ctx interrupts. Nothing is returned, and as the channel is still registered and nobody
  reads it, further Ctrl+C do nothing: only an answer, or the end of the input, ends the
  process. `SignalEndsOrPromptStays` says "or stays at the prompt", and `ReturnsOrAsks` of
  `PortRetry` "or asks".
* dockerhost.go:208-216 against 186-190 (*slow initialisation*): the double check is there for
  the images' temporary server, but both probes succeed against one that lives longer than
  the 300 ms between them. What the check earns, for any life of that server, is
  `ReadyOutlivesPause`; its second disjunct is this case, which the run reaches.
* main.go:240 against main.go:119-122: the error of a query that the signal cancelled can
  reach `main` before the handler reaches `os.Exit(130)`; the exit code is then 1.
* redis.go:335: redis-cli ends with 0 for an error reply, so a server still loading counts as
  ready; `ReadyOutlivesPause` leaves redis out and says so.
* redis.go:633, "contagem exata (SCAN completo)": a key SCAN repeats is counted again, which
  is the `Twice` in `ExactIsBetween`.
* redis.go:393: a prefix that is literally `(sem separador)` shares its group with the keys
  without one: its keys are counted and never shown.
* redis.go:426-432: a prefix with `*`, `?` or `[` goes into the pattern as it is; the sample
  may hold other groups' keys, or none. `Plain` marks the groups the properties are about.
* redis.go:664-672: the group without separator may show nothing although it has keys, when
  the first 5000 keys of the scan all have one; `GroupIsNotEmpty` leaves it out.
* redis.go:614: the floating-point extrapolation of a whole quotient may come out one lower.

## 4. Bounds

* `port_retry`: 2 attempts per cycle (5 in the code), a scan of 2 ports, 3 host ports, 2
  other containers with every initial assignment, `--port` absent or explicit. Two attempts
  are enough for a first, a middle and a last one over the two cycles; three ports reach
  beyond the window. The theorems cover all values.
* `lifecycle`: a channel of one signal, as in the code; any number of signals.
* `wait_ready`: ticks of 100 ms; pause 3 and naps as in the code, timeout 14 instead of
  600 or 1200, so that a whole nap, a shortened nap and a late pause all occur; probes of
  up to 2 ticks. The server stays in each of its states for any time, from none to the end
  of the run: initialisations shorter and longer than the pause both occur.
* `tui`: 3 collections, filters of one letter out of `a`, `b`, `c` (`MaxFilter` 1), lists of
  one or two lines, windows of 60 and 200 columns, tables narrower and wider than either
  panel, an arrow that moves 100 columns instead of 8 so that few presses reach the end, and
  `MaxInFlight` 2 queries. Two answers suffice to be out of order; a filter can keep all,
  two or none of the collections. The theorems cover all values.
* `dump_restore`: dumps of 0 to 3 chunks, announced right or wrong, a pipe of one chunk, so
  that everyone has to wait for everyone.
* `main`: 2 files, 2 changes, headers with a match of each confidence and the two ties a
  header can produce, and five extensions; every engine is reached. A tie needs two engines; a
  stale list needs one change, a list shifted against the directory needs two. Provision has
  no bound but the plans themselves: all engines, every call. `MCView` forgets, once Provision
  has taken a step, what the picker left: no action reads or changes it any more, and the
  properties about it have been evaluated in the state before. The theorems cover all values.
* `recent`: every table of up to two columns over names of each tier and of none and every
  type (a tie and a preference need two), one of three; with and without a primary key; up
  to 3 rows of which 2 are shown (20 in the code); four documents, flattened one level deep
  (3 in the code), with nested, dotted, empty and mixed fields. The theorems are for all
  tables, rows and documents.
* `keyspace`: 5 keys in three groups, one with a glob in its name, two keys with a TTL,
  batches of up to 2, scan limits of 4 and 2, a cap of 3 for a sample of 2, one repeated key,
  2 calls that leave a cursor: enough for a scan that is cut off and one that is not, for a
  cap reached on keys that do not count, and for an empty batch in the middle. The theorems
  cover all values.

## 5. Fairness

The program's goroutines are scheduled and each docker command or query returns: `WF` on
`Run` and `Handler`, on the queries, on the four processes of `DumpRestore`, on time. The
operator, other processes, signals, cancellation and failures owe nothing: no fairness for
keys, answers to the prompt, `Take`, `GiveBack`, `Signal` or `DockerDies`. In `DumpRestore`
docker is obliged to read and to end once its input has ended, not to fail, so a cycle of
waits would be found. In `WaitReady` only time and the loop are fair: the server may stay
what it is, a temporary one included. In `Lifecycle` an answer to the port prompt is owed by
nobody, hence "or stays at the prompt" in `SignalEndsOrPromptStays`; everything else that
Provision does under a dead ctx is a command or a query, and those return. `Main` (with
`Detect` and `Provision`), `Recent` and `Keyspace` state no liveness
(SCAN over a keyspace that only shrinks ends by the server's promise, not by the code).

## 6. Proofs

All proofs hold for every value of the constants, under the named assumptions of the modules:
naturals where the code has counters, nothing about their size.

* **`ProvisionProofs`**: `TypeCorrect`, `UndoIsExact` (HeldIsUndone), `NothingLeaks`,
  `SessionsAreUsable`, `CancelWins`, and `Refinement` (Provision implements
  ProvisionContract). Each plan is shown `WellFormed` entry by entry: an entry undoes what
  its predecessor undoes and creates. From there the step proof does not look at plans any
  more. The invariant needs what the properties leave out: that errors exist only after the
  one entry that judges, and that a log exists only with errors.
* **`PortRetryProofs`**: `NothingLeft`, `OneFreed`, `FreedIsTried`, `NoPromptAfterCancel`
  (a failing or killed `docker ps` never leads into the prompt; proved, not in the run),
  types. `IndInv` ties the attempt to the port (`port = first + i`), to the cycle, and says of
  each port of the removed container that it is free, untried, or retaken (`Reused`);
  `FreedPortIsTried` says nothing of the states before the last one and is not inductive.
* **`LifecycleProofs`**: `OneOwner`, `CleanExit`, `KeepWorks`, `InterruptsReported`
  (InterruptIsReported), types. `Control`, `Locking` and `Boxes` say where each goroutine can
  be for each outcome, who holds the mutex, and what a finished close has left.
  `InterruptsReported` is about all later states; its proof carries `Doomed`, a state predicate
  that stays true once the handler is gone early: run has still to see the dead ctx, or has
  settled for 130, or for the error of an inspection.
* **`WaitReadyProofs`**: `BoundedOverrun`, `EarnedTimeout`, `DeathSeen`, types, `Refinement`
  (each loop implements ReadyContract), and `DoubleCheck` (ReadyOutlivesPause), which assumes
  nothing of the temporary server. `Clock` bounds the time at each program point, `Twice` the
  age of a temporary server seen by the first probe from below, `Fair` that of a real one
  missed by a probe from above, and `Mourned` the age of a death at each point of redis' loop.
* **`DumpRestoreProofs`**: `GoodWentWhole` (DeliveredWhole), `WriterJoined` (NoWriterLeft),
  `MongoSpeaks` (MongoNeverSilent), types. `DeliveredWhole` is about the end only; its
  invariant counts chunks where they are: sent by the writer, held by the copier, in the
  pipe, read by docker, for each state of the two pipes.
* **`RecentProofs`**: `SameColumn` (DialectsAgree), `NewestShown` (RecentIsNewest),
  `NoLeafLost` (NothingLost). For the first the invariant says of the loop at column `pos`
  that `best` and `orderCol` are those of the first best column before `pos`, which is what
  `DISTINCT ON … ORDER BY pref, ordinal_position` returns at the end. For the others it says
  where the table on the screen comes from: `Described` of the sample and the descriptor,
  `Shown` that the rows shown are a `Top` of the rows by their keys and that a result is the
  `BuildResultSet` of its documents. `TopIsNewest` is the argument about the sort: a greatest
  part of a sorted permutation, and what a row left out compares to.
* **`TerminalProofs`**, of the TUI: `SelectionStays` (SelectionIsVisible), `WaitingPays`
  (PatientSeesSelected), `TableStays` (TableIsOnScreen), types. `FilterLeaves` says what the
  loop of `applyFilter` leaves: those whose name contains the filter, all of them, in order.
  `SelectionIsVisible` is kept step by step because `clampCursor` ends every handler that
  moves the list (`ClampSees`); `WaitingPays` needs `Patience`, which says what is in flight
  and what the panel shows while the operator waits. `TableStays` is the arithmetic of
  `scrollBy`, `listW` and `tableViewW`.
* **`TerminalProofs`**, of the picker and detection: `FirstOfTheBest` (ChosenIsBest),
  `WordIsKept` (PickerKeepsItsWord), types. `Leads` is the invariant of chooseEngine's loop:
  the first of the most confident engines so far. `PickerKeepsItsWord` is about the end; its
  invariant says of every line of the list that its label is still what detection would say
  unless somebody touched the file (`LinesHold`), and of what was picked that it is the line
  under the cursor (`PickHolds`).
* **`KeyspaceProofs`**: `ExactCounts` (ExactIsBetween), `EstimateFits` (EstimateAddsUp),
  `HealthFits` (HealthAddsUp), `SampleIsTop` (SampleIsTheTop), `GroupHasRow`
  (GroupIsNotEmpty), types. Every property is about a finished operation, so the invariant
  carries the scan: `Walked` is SCAN's promise at every point (what was returned was there
  at the start, what is there was returned or is owed), `Counted` the lag of the counters
  behind the batch at hand, `Sized` that DBSIZE was asked before the first key (and would not
  hold if it were asked after), `Listed` and `Sampled` that a result is a function of the
  scan. The rest is arithmetic of sums over finite sets: a sum of counts by group is the
  count of all (`EstimateFits`), a sum over fewer keys is no greater (`Place`).

Induction over data. The induction theorems of the library take an operator and cannot be
used here; `WFMin` and the well-foundedness of strict subsets take none. `SetInduction` and
`NumberInduction` (TerminalProofs, and what KeyspaceProofs needs of them) are proved from
those with a set in place of the predicate, and from them what a loop has after each pass
(`Loop`) and what a sum over a finite set is. So recursive functions and sums are within reach.

What the proofs changed in the models. They hold for every constant, and for some the model
was wrong: `NoPrefix` need not be the group of any key (`Keyspace`); the keys of `Recent`
added an offset per kind to the value, which only separates kinds when values are small;
they are pairs now. `SelectSeq`, `SetToSortSeq` and `FoldLeft` take operators, so the filter
and the dispute are written as the loops they are, the directory as a set and the sorted
sample by the place of each key.

Only model-checked: everything temporal that needs fairness (`ReturnsOrAsks`,
`SignalEndsOrPromptStays`, `Returns`, `SpinnerEnds`), which is out of the prover's reach; and
that `Main` puts its two halves together as it does. Every invariant and every action property
of the passing runs is a theorem. The type invariants of the modules proved first are proved
and therefore not part of the runs.

## 7. Plan

Done: provisioning, port retry, life cycle, readiness, copy and restore, detection, terminal
interface, order column and documents, keyspace. Left, in this order:

* A host with a history: a PID used again meets the container of an earlier `--keep`
  (dockerhost.go:123), and ports of 16 bits (dockerhost.go:244).
* The catalogue queries of the SQL engines (`Collections` with counts that fail midway).

## 8. Not modelled, and why

* The text of SQL, drivers, formatting of values and previews, rendering: data and layout,
  no state of their own. `Query` of the sessions: nothing in the program calls it.
* The plain `docker cp` of an uncompressed dump and sqlite's integrity check are single calls
  of `Provision`, without an inside.
* A redis Session without a client answers every operation with `errNoConn`; that it exists,
  and when, is in `Provision`, the refusal itself is one early return left out of `Keyspace`.
* The docker daemon, images, other processes, the clock: external; modelled by what the
  code sees of them and marked external.
* `--list-engines`, `--pg`, `defaultDataDir`, `HumanSize`, `truncate`: no control worth a model.
* `internal/conformance` and `engines/*/*conformance.go` build test backups with real
  containers, `scripts/` checks formatting: support for tests and development.
* Versions and image tags: read from the header and handed to docker; no property is about
  them. SIGHUP and SIGKILL end the process with its container running, as they would any.
