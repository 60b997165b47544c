# A TLA+ model of Ruddy

Ruddy is a functional language with effect handlers, its compiler (Rust), a
JavaScript backend, a reference interpreter, a browser debugger and a language
server. This directory holds TLA+ modules that follow the code of those parts
whose correctness depends on order, interleaving, failure, re-entry, retained
state or arithmetic, the configurations that check them with TLC, and theorems
about them with proofs that TLAPS checks. Paths are relative to the repository's
root.

1. [The system](#1-the-system)
2. [What is modelled](#2-what-is-modelled)
3. [The JavaScript driver](#3-the-javascript-driver)
4. [The language server's schedule](#4-the-language-servers-schedule)
5. [The Git cache](#5-the-git-cache)
6. [The job pool](#6-the-job-pool)
7. [The artifact cache and the debugger's memo](#7-the-artifact-cache-and-the-debuggers-memo)
8. [The workspace, its files and its watcher](#8-the-workspace-its-files-and-its-watcher)
9. [The debugger's session](#9-the-debuggers-session)
10. [Presence formulas](#10-presence-formulas)
11. [Integers](#11-integers)
12. [Incremental lowering](#12-incremental-lowering)
13. [The runs](#13-the-runs)
14. [The proofs](#14-the-proofs)
15. [Where the code and its documentation differ](#15-where-the-code-and-its-documentation-differ)
16. [What is not modelled, and the plan](#16-what-is-not-modelled-and-the-plan)

## 1. The system

A program goes through the **front end** (`src/token.rs`, `src/parse.rs`,
`src/format.rs`), **name resolution** (`src/ir.rs`, which an editor repeats
incrementally, `src/ir/incremental.rs`), **inference** with rows, effects and
contracts (`src/inference/`, `src/types.rs`, `src/contracts/`), **pattern
coverage** (`src/patterns.rs`), **lowering** to blocks that end in explicit
transfers (`src/lir/`) and **emission** of JavaScript (`src/backend/js.rs`).
Inference asks a SAT solver about **presence formulas**
(`src/inference/sat.rs`): whether a label is there. Groups of declarations and
bundles are worked on in parallel (`src/execution.rs`). **Bundles** are compiled to
**artifacts** (`src/artifact/`, `src/compile.rs`, `src/link.rs`) which the command
line caches (`cli/src/cache.rs`) and whose Git dependencies it fetches
(`cli/src/git.rs`).

The parts below keep state that several actors change, or that outlives the text
it was made from:

| part | state | operations | what makes it hard | what makes it correct |
| --- | --- | --- | --- | --- |
| JavaScript driver, `src/backend/cps-runtime.js` | runs, handler tags, `$active`, settlement tokens, the JavaScript stack | start, drive, invoke, foreign call, settle, enter and leave a handler | re-entry through foreign code, suspension, aborts thrown through foreign frames, late and repeated settlements | handlers nest and belong to one run; every started run has one way to go on; an abort reaches its handler or nobody |
| Module initialization, same file | next initializer, globals | advance, resume | an initializer may suspend | globals are set in order, before the module is usable |
| Language server, `cli/src/lsp.rs` | revision, active token, pending and cancelled requests; the worker's text, analysis and publication state | route, take, begin/end a job, answer, publish | three threads, cancellation by unwinding, work outside the mutex | only current results leave; none is forgotten; every request is answered |
| Workspace and file watcher, `cli/src/workspace.rs`, `workspace/files.rs`, `lsp/watcher.rs` | kept texts, listings and digests, acquired files, overlays, projects with their analyses, keys and artifacts, subscriptions | edit, save, refresh, background check, reconcile | a refresh may be unwound at any step; reads race with events | what is kept is what its sources say; an idle server agrees with the disk |
| Git cache, `cli/src/git.rs` | lock, selections, checkouts, temporary clones, lockfiles | resolve, restore, clone, install, write the lockfile | processes share it and may die anywhere | a build reads what it was promised; leftovers never block a later build |
| Artifact cache, `cli/src/cache.rs` | entries replaced by rename, directories of compilers | digest, load, compile, store, prune | concurrent writers, pruning, edits between two reads | an entry is complete and of its key |
| Job pool, `src/execution.rs` | next item, token, failure slot | take, work, record, join | panics and cancellations race | nothing twice, nothing after the call, a panic is never hidden |
| Debugger's memo, `debug/src/dependency_cache.rs` | graphs and digests | look up, compile, remember | no lock while compiling | an answer is what compiling would give |
| Debugger's session, `debug/src/session.rs`, `server.rs`, `web/app.js` | session and revision, events; pages' text, timers, requests | compile, poll, pull, save, agent edit, restart | late and lost messages, a replaced server | nobody's edit is overwritten unread; everyone sees it |
| Presence store, `src/inference/mod.rs` | batches, decisions, what the solver was told | append, reserve, decide, undo, ask | a solver that is never reset under a store that is | answers are about the store as it reads now |
| Incremental lowering, `src/ir/incremental.rs`, `src/analysis.rs` | kept bodies, references, groups, positions, inputs | edit, lower, infer | what is kept must not have changed in any way | the result is that of lowering anew |
| Interpreter and JavaScript primitives, `interp/src/prim.rs`, `src/backend/primitives.js` | none | integer primitives | doubles, words, `BigInt` against 64 bits | both compute the same |

They interact as follows. Foreign JavaScript calls into the driver and is called
by it; the event loop calls `advance` and the settlement reactions. The language
server's router and watcher send envelopes to its worker over one channel and
share the schedule with it under one mutex; the worker calls the workspace, which
reads files, asks the Git cache for checkouts and the artifact cache for
interfaces. Inference is run by the job pool. The command line calls the same two
caches. Caches are shared only through the file system. The debugger compiles
through its memo and shares a session between pages and agents over HTTP.

`PROJECT.json` lists every component with its status, and under `hazards` what in
this code is hard to test, each with the properties that would catch it.

## 2. What is modelled

| module | models | state and actions correspond to |
| --- | --- | --- |
| `HandlerExtent` | the promise of an execution engine about handlers: enter, leave, end | abstract; no code |
| `CpsDriver` | `cps-runtime.js` | the fields of `state`, tag and token objects; one action per case of `$drive`'s loop and per thing foreign code may do |
| `CpsInitialize` | `$initialize`, composed with the driver | `advance` and the reaction of `$settled` |
| `LspSchedule` | `serve`, `Worker` and `Schedule` of `lsp.rs`, checkpoints of `src/cancellation.rs` | one action per critical section of the router, the watcher and the worker, and per piece of work between two checkpoints |
| `GitCache` | `Resolver` of `git.rs` | one action per file-system operation that a crash may separate from the next |
| `ForEach` | the promise of `Execution::for_each` | abstract; no code |
| `JobPool` | `for_each` of `execution.rs` | one action per atomic step of a pool thread and of the caller |
| `ArtifactCache` | `cache.rs` with its users in `cli/src/lib.rs` and `workspace.rs` | one action per read, write, rename, removal |
| `DependencyMemo` | `dependency_cache.rs` | one action per critical section and per project read |
| `Caches` | the two side by side | a step of either |
| `EditorFiles` | `workspace/files.rs` | one operator per method of `Files`, on a record of its fields |
| `Workspace` | `workspace.rs`, the part of `lsp.rs` that calls it, `lsp/watcher.rs` | one action per project visited, per step of the background check, per event and reconciliation |
| `WorkspaceKeys` | properties of `Workspace` that follow the dependencies of projects | no state of its own |
| `DebugSession` | `session.rs`, `server.rs`, `app.js` | one action per handler of a message at either end, and per timer |
| `Formulas`, `Covers`, `Implicants` | formulas, sums of products, products of models (`sat.rs`, `types.rs`) | pure operators |
| `PresenceSat` | `project` of `sat.rs` | one action per model the solver returns and per component |
| `Presentation` | `presentation_groups` of `sat.rs` | one action per search for a spelling |
| `PresenceStore` | the store and its solver in `inference/mod.rs`, `solve.rs` | one action per operation on batches, decisions and questions |
| `PrimIntegers` | the integer primitives of `prim.rs` and `primitives.js` | both results of one primitive are computed in one action |
| `Lowering` | `ir/incremental.rs`, the kept state of `analysis.rs` and `inference/queries.rs` | an edit and the analysis of it |
| `...Inv` | inductive invariants | |
| `...Proofs` | theorems and proofs | |
| `MC_...` | constants, symmetry and compositions for TLC | |

Definitions marked `Mutant` in the modules are plausible mistakes in the code.
They are part of no specification; `PROJECT.json` pairs each with a property, and
putting it in place of the definition it varies makes TLC report that property.

Several modules take a constant that says what may happen in a behaviour (`Plan`
of `DebugSession`, `Scripts` of `Workspace`, `Habits` of `Lowering`): a set of
records, one of which is picked at first and never changes. A run can thus combine an edit with a crash in one behaviour and two
edits with a cancellation in another, where the product of everything with
everything would be too large.

## 3. The JavaScript driver

**State.** A run is a `state` object: `status`, `h` (the handler context, a linked
list in the code and the sequence of its tags here), `base`, `allowSuspend`, and
`next`, the transfer the loop will execute. A tag has `active`, `owner`, `parent`
and `resumption`. `stack` is the JavaScript stack, restricted to drivers and
foreign functions; a driver frame keeps the `$active` it replaced. A token is a
settlement of a Promise-completing call; `microtasks` are the settlements queued
after the call returned. `caught` are the abort objects foreign code has been
given and may throw again at any later time.

**Actions.** `Step`, `Call`, `Raw`, `Resume`, `Enter` and `Leave` are the cases of
the loop of `$drive`. What a block computes is left open: it ends in any transfer
the lowering (`src/lir/control.rs`) can emit, with the continuation it can pass
on. `HostReturns`, `HostThrows`, `HostThrowsAbort` and `Deliver` are what foreign
code may do, `InvokeSync` and `InvokePromise` are calls of Ruddy closures from it,
`Settle` is a microtask. Between two actions of a driver nothing else runs,
because a driver acts only when it is on top of the stack: interleaving arises
exactly where the code hands control to foreign code or the event loop.

**NativePromises.** A foreign function may return an object whose `then` was
overridden and calls its reaction at once. With `NativePromises = FALSE` a
settlement may therefore arrive whenever foreign code runs; with `TRUE` only in a
job of its own, as with built-in promises. The run takes
`FALSE`, which allows more, and for which the theorems hold as well as for `TRUE`.

**Abstractions.** Values, argument conversion and evidence padding are left out;
errors are all one error, except abort objects, which are told apart by their tag.

**The promise.** `HandlerExtent` says what the language relies on: each invocation
has a stack of handlers, leaving one closes everything inside it, ending closes
all, nothing closed opens again. `ImplementsExtent` checks that the driver
implements it under the refinement mapping at the end of `CpsDriver`: a run's
extent is what its current context has above its base.

**Initialization.** `CpsInitialize` adds the loop of `$initialize` to the whole
driver. While the loop holds the thread nothing else runs; while it waits for a
suspended initializer, everything else may.

## 4. The language server's schedule

**Threads.** The *router* reads the client's messages, the *watcher* reports
changed files. Both stamp an envelope with the revision under the mutex, cancel
the token of the work it supersedes and send it. The *worker* takes envelopes in
order; between them it asks whether to refresh, to check in the background, to
publish (`Question`). A job takes a token (`Begin`), works outside the mutex and
gives it back (`End`). Cancellation is noticed only at checkpoints (`Start`,
`Unwind`, `Finish`), and leaves assigned what was assigned before.

**Text as revisions.** The text is abstracted to the revision that last changed
it: `latest` for the client and the disk, `applied` for the worker's overlays,
`analysed`, `checked` and `shown` downstream. Results are current exactly if these
agree, so the properties compare them. An edit may open a revision without changing
the text (`changed`).

**One document.** The schedule asks only whether some document is open, so one
stands for all. The worker's local queue and the channel are one queue, `receive`:
the worker moves everything available from one to the other before it looks.

**Bounds.** The channel is unbounded in the code; `MaxReceive` bounds it here,
which delays senders. `MaxRevision` ends the revisions. Request ids are used once.

**Fairness.** `WF_vars(Worker)`: the operating system runs the worker's thread,
its `recv_timeout` elapses, and each piece of work ends. Nothing makes the client
speak, a file change, or the router run.

## 5. The Git cache

**Processes.** A process opens a resolver (`Resolver::new` reads the lockfile),
takes the advisory lock, picks a commit - the lockfile's, else the cached
selection, else the branch's - and restores or clones its checkout. It holds the
lock until it has compiled and written its lockfile. `Abandon` is its death at any
step, which the operating system follows by releasing the lock, or a cancelled
acquisition of the language server, which also drops its temporary clone.

**Files.** A checkout is `whole`, `torn` (its Git data is sound, its files are
not those of the commit), `damaged` (its Git data is not) or absent. `Restore`
empties a worktree before `Rewrite` fills it, and `RemoveSome` and `RemoveAll`
delete in two steps, so that a crash finds every intermediate state. `restore` has
three callers in the code; `purpose` says which one a failure returns to.

**The outside.** The branch moves (`Push`), the user removes the selection
(`ForgetSelection`) or modifies a checkout nobody holds the lock for (`Tamper`).
Projects start with any lockfile. `Reliable` turns off failures of the network and
the disk, but not crashes.

**Abstractions.** One dependency with a branch selector stands for all, since every
path carries the dependency's key; the lock is the only thing two dependencies
share. Fetching is one step. A project without `Ruddy.toml` is a failed restore.
The language server's later, deliberately unlocked use of a checkout
(`cli/src/workspace.rs:347`) belongs to the workspace and is not in this module.

## 6. The job pool

`ForEach` is what callers of `Execution::for_each` rely on: items are begun at
most once, a call that returns normally has done all of them, nothing runs after
it, and it ends with a panic if any job panicked. `JobPool` is `for_each` itself:
the shared counter of the next item (`Take`), the checkpoint before each item
(`Check`), the job, which completes, panics, meets a checkpoint of its own or is
unwound because it waited for a query that panicked on another thread
(`Complete`, `Panic`, `Interrupted`, `Propagated`), the recording of a failure
(`StopSiblings` cancels the token, `Record` fills the slot, and a panic replaces a
cancellation), and the end of the scope (`Join`). The sequential path is
`CheckAlone` to `PanicAlone`. `ImplementsForEach` refines both to `ForEach`.

The promise that nothing runs after the call is about the join: a caller that
resumed the first failure while a sibling is still inside a job (`JoinOnFailure`)
breaks `ImplementsForEach`, as does one that lets a cancellation recorded first
hide a panic (`RecordFirst`). That every call returns is not stated: given threads
that run and jobs that end it follows from the code's having no loop but the one
over the items.

A job is one step between two checkpoints, and what it computes is left out.
`late` counts the items a worker begins after the cancellation; no code keeps it.

## 7. The artifact cache and the debugger's memo

**Artifacts.** `ArtifactCache` follows builds (`GraphCompiler` of
`cli/src/lib.rs`) and editors (`Workspace::visit`) up a chain of dependencies:
digest the sources and the key below (`Fingerprint`), look the key up (`Load`,
`LoadOlder`, `Miss`), compile (`Compile`), create the compiler's directory
(`Prepare`), remove those of others file by file (`PruneFiles`,
`PruneDirectory`), write a temporary file and rename it (`Create`, `Rename`).
`Quit` is a death between any two of these. A key and an artifact are both the
sequence of compilers and sources that went into them, so that an entry is right
exactly if it equals its key; digests are taken to have no collisions.

Users save any text at any moment, an old one too (`Edit`). An editor compiles the
very texts it digested. A build reads them twice, for the key
(`cli/src/lib.rs:2340`) and for compiling (`:2347`), and an edit in between files
the new text's artifact under the old text's key. `undercut` has the keys this has
happened under; no code keeps it. `EntriesMatchTheirKeys` and
`UsesSourcesUnlessUndercut` say that nothing else can make the cache wrong: neither
prunings, deaths, other writers, nor undone edits outside that window, and an
artifact is excused project by project, for the very key that was undercut.
Without the exception the claim of `cache.rs` is `UsesSourcesOfItsTime`, which the
run `caches_undone` refutes, see
[15](#15-where-the-code-and-its-documentation-differ).

**Graphs.** `DependencyMemo` is the memo of the debugger: `Lookup` under the lock,
`Read` of one project after another without it, `Digest`, `Remember`. A full memo
is emptied. Files are saved at any moment, also during a compile. `raced` has the
projects that were edited after they were read for a graph and before the digest was
taken (`debug/src/dependency_cache.rs:85`), and follows the graph into the memo; no
code keeps it. `StaleOnlyIfEdited`, part of `MemoIsRight`, says that whoever asks
gets contents from after asking, except for just those projects; the memo's
own claim, without the exception, is `AnswersAreOfTheirTime`, see section 15.

`Caches` puts both side by side, so that one run and one set of theorems is about
both; a behaviour is of one of them.

## 8. The workspace, its files and its watcher

**Files.** `EditorFiles` has an operator for each method of `Files`: the record of
kept texts, directory listings and digests, what has been *acquired* and is
watched, and what a running refresh was the first to acquire (`pending`). Reads of
several paths are one operator on their set: a read touches nothing another path's
depends on, so their order is irrelevant, which keeps folds and recursion out of the
definitions the proofs are about.

**Refresh.** `Workspace` visits the projects of a graph in dependency order
(`Visit`). Each is reused if nothing it was made of has changed (`Reuse`), taken
from the persistent cache (`Admit`), or analysed (`Rebuild`). What the test reads
and in which order it stops is followed, because reading keeps texts. `CancelVisit`
unwinds before a project or inside its analysis and keeps what was visited;
`Fail` is a root module that cannot be read. `StartCheck`, `LoadArtifacts`,
`Lower` and `EndCheck` are the background check.

**Watcher.** `Drain` takes the inputs the worker has sent and the native events,
`ReadChanged` reads what they name, `Reconcile` reads everything. The worker may
have read a file before its watch existed, so new inputs are read again.

**World.** `Type` is an edited buffer, `Save` another program's write or removal,
whose event may be lost, `Ask` and `FollowDefinition` are requests, `Restart` is a
new server with the old cache and buffers. What of this happens in a behaviour,
in which graph and how often, is one of `Scripts`.

**Assumptions.** Manifests, lockfile and build are constant, so the graph is;
modules are one level deep; a path is its own identity (symbolic links are their
targets); digests have no collisions; analyses made for one request only are not
followed; the disk changes between the reads of different projects and before and
after a refresh, not between two reads of one project's visit. A script without
cacheable projects is a server whose dependencies are paths; with them it is one
over `std` or `with_artifact_cache` (`cli/src/workspace.rs:474`). A script with removals and a cacheable
project is left out because of the difference `ws_poisoned` in section 15.

**Fairness** (`MC_WsSettles.cfg`): the worker's and the watcher's threads run.
The thirty-second timer is assumed to fire only in scripts that lose an event, so
the other ones show that native events are enough. Scripted events are not fair:
nobody needs to type, save, cancel or ask.

## 9. The debugger's session

A text is the set of edits that went into it: a text is stale with respect to
another exactly if it lacks an edit of it. `Open` to `Receive` are a page's
handlers and timers in `app.js`: typing sets the compile and the save timer,
`CompileNow` aborts the compile in flight and sends the next, a rejected compile
pulls the session. `Observe`, `Shared`, `Write`, `Read` and `Edit` are the
server's handlers; `Sync`, `Poll`, `Event`, `Rejoin` and `Rejoined` the page's
pull and its poll loop. The network is three sets, so that anything overtakes
anything; an aborted compile may still be handled, or be lost with a `Restart`,
which loses the session, the events, and all that is under way.

`Store::observe` accepts a compile by comparing revisions (`Accepts`), so
correctness is a relation between the revision a page knows and the text it has,
over any number of late messages. `OthersAreKept` states it as an action property:
whoever replaces the shared text drops no edit of anybody else.

**Assumptions.** A page's first poll is answered before anything else happens to
it. An agent's edit writes the document under the store's lock and is undone
there if the write fails. Documents other than one, panels and carets are left out.

**Fairness.** `WF_state(Going(b))` for each page and `WF_state(Serving)`: browsers
run timers and promise reactions, the server answers. Nobody must type or restart.

## 10. Presence formulas

`Formulas` has the formula constructors of `src/types.rs` with their folding,
`Covers` the sums of products and their minimization, `Implicants` components and
the product a model is narrowed to.

`PresenceSat` is `project`: a formula is split into conjuncts that share no atom,
and each component's products are enumerated, one model of the solver at a time
(`Enumerate`), under the budget they share; when it is spent the projection gives
up. `ProjectionIsRight` compares the answer with the existential projection
computed from truth tables, and asks that, as long as tables are small enough to be
recovered, it does not depend on which models were found. `MinimizedIsTight` is
about the larger covers. `Presentation` is `presentation_groups`: every spelling a
printer may choose means the formula, whichever search hits its limit.

`PresenceStore` is the store of one declaration group: batches appended, reserved
and filled in, variables decided, congruences undone, and questions at fixed
boundaries to one solver that is never reset. `StoreAnswersAreCurrent` says that
its answers are about the store as it reads now; `DecisionsStand` that a reported
contradiction stays one and what was settled still follows; `BoundariesAreRight`
that an error is found at the first batch that contradicts those before it and
that only what follows is decided.

**Assumptions.** The vendored solver returns any model of what it was told and
none only if there is none. The clauses it is given mean the formula. The 64-bit
digest of a formula has no collisions. A decision to leave a variable alone
(`Undecided`, `Recovered`) reads as `Present`. Questions are asked only outside
congruences, as in the code.

## 11. Integers

A state is one integer of a program, as the interpreter and as JavaScript hold it.
An action applies one primitive in both. The interpreter computes in a wide
integer and cuts; JavaScript computes in doubles and 32-bit words, shifts narrow
widths up and down again, and uses `BigInt` for 64 bits. `TheSameTable` says that
they agree, or both fail, and that there is no negative zero. `BytesCarryNumbers`
says that bytes one side writes the other reads back.

Widths are scaled: 2, 3, 4 and 8 bits for 8, 16, 32 and 64, doubles of 7
significant bits for 53, bytes of 2. The scaling keeps what the code relies on: a
product of two narrow numbers is exact in a double, one of two words is not. Left
out are zero divisors, overflow of the target's own integers (both undefined,
`tests/src/interp_prim.rs:139`), comparisons and `xor` (which both sides compute
alike), reals except their conversion to integers, and strings.

**Reals.** `Reals` are halves about zero and about both ends of every integer
domain, those beyond all of them, both infinities and NaN. The interpreter converts
with Rust's `as` (`As`): NaN to 0, everything else clamped to 64 bits. JavaScript
rounds a double and keeps it one (`JsOfReal`): NaN, infinities and 1e30 stay what
they are. `DefinedReal` leaves out conversions whose result is outside the domain,
which `.scratch/introspection/spec.md:84` declares undefined, and there the two do
differ: `RealsBecomeTheSame` is false, and `TheSameTable` is violated without the
guard, see section 15. What is claimed is that they agree wherever the result is in
the domain, up to its ends and with the rounding of every half, and on what is
negative to a `Nat`, which is 0 for both.

## 12. Incremental lowering

A text is a list of definitions with an attribute, a header and a body; of a body
it matters what it refers to, forwards, nests, quantifies, mutates and imports,
how wide it is and whether it is wrong. `Edit` changes the text, `Lower` lowers it,
anew or from what was kept, and `Infer` prepares the inputs of the groups reported
to have changed; `CancelLowering` and `CancelInference` unwind either. `Build` is the
ordinary builder, and the properties compare what is kept with `Build` of the current
text: the program (`ProgramIsCurrent`), where anchors and scopes point
(`PlacesAreCurrent`), and what inference keeps (`InferenceIsCurrent`).

Types, effects and externs are part of the header. Nested modules, effect-row
arguments, errors of re-keying and the order in which names are minted are not
modelled.

## 13. The runs

| run | distinct states | asks |
| --- | --- | --- |
| `cps` | 745,809 | three runs, two handlers, two asynchronous answers: do handlers, aborts and drivers stay paired, does every suspended run go on once, are globals set in order, is `HandlerExtent` implemented |
| `lsp` | 606,014 | two requests, two revisions, channel of two: are only current results sent, is all of it sent, does the worker come to rest |
| `git` | 1,034,100 | two processes, projects and commits with all faults: is what is read whole, does the selection stick, do clones pile up |
| `jobs` | 142,059 | three items on three threads: is `ForEach` implemented, is everyone joined, does dispatch stop |
| `caches` | 2,175,884 | two processes, two compilers, a chain of two, two edits: is an entry what its key says, are sources current, but where a build was undercut; and two threads over a memo of two graphs and any number of edits |
| `debug` | 118,399 | two pages and an agent, with saves or a restart: are others' edits kept, do they arrive |
| `workspace` | 645,019 | five scripts over two or three projects: is what is kept what the sources say |
| `settles` | 13,519 | the same with fair threads, with and without a lost event: does an idle server agree with the disk |
| `algorithms` | 122,862 | projections, presentations and stores of two and three variables; every integer primitive at every operand of the scaled widths, reals at and beyond the ends of every domain |
| `low` | 85,196 | two and three definitions under five kinds of edits |
| `lsp_input_ends` | violation | see section 15 |
| `caches_undone` | violation | see section 15 |

`algorithms` runs four modules that have nothing to do with each other beside each
other (`MC_Algorithms`): a behaviour is of one of them and leaves the variables of
the others alone, and each property speaks of its own.

All but `low` set `CHECK_DEADLOCK FALSE`: the event loop goes idle, bounded
supplies run out, calls end, the server waits. Where something must happen, a
liveness property or an invariant about the resting state says so. A text can
always be edited, so `low` checks deadlock.

**Why the bounds are enough.** Three runs are the fewest at which a callback inside
a callback can abort a handler two drivers below with a run in between; a stack of
five holds these drivers and the foreign functions between them. Two tokens give
answers out of order, two initializers something to interleave. Two requests let
one be withdrawn or overtake while the other is at work; a revision beyond the
first lets a change arrive during work on an earlier one. One process at a time
holds the lock of the Git cache, so two give every overlap of a working and a
waiting or just deceased one. Three threads are the fewest at which two fail while
a third works. Two processes of the artifact cache are a reader and a writer, or
two writers of different compilers; a chain of two has a key that contains a key.
Two pages, or a page and an agent, are any editor and "the others"; three agent
edits with `KEEP` of one overflow the event log. Two projects are a dependency and
a dependent, three an indirect one; two saves are a change and its undoing or a
change during the work on the first. Three atoms are the fewest whose minimized
cover is not unique. Three definitions are the fewest whose groups merge and split
around another one.

**Constraints.** Three models have a state constraint. Each bounds only
what the environment may combine; the checked properties are otherwise
unaffected, since what is cut is a whole kind of behaviour and not the middle of
one. `cps`: two answers outstanding are combined with one handler and one callback.
`lsp`: two requests are combined with one revision, one request with two.
`caches`: two processes of one compiler side by side cache one project that is edited
twice, two compilers side by side cache one that nobody edits, and processes one after
another cache the whole chain, with one edit of either project or two of the first; of
what the debugger reads, one project is edited. The theorems have no such bounds.

**Fairness.** `lsp`: `WF_vars(Worker)` - the worker's thread runs, its
`recv_timeout` elapses, each piece of work ends; nothing makes the client speak.
`debug`, `settles`: see sections 8 and 9. The other runs have safety properties only.

## 14. The proofs

Each `...Inv` module has an inductive invariant, which TLC checked on small
instances before it was proved (`GitCache` and `LoweringProofs` hold their own); each
`...Proofs` module proves that it is
inductive and draws theorems from it. They assume what the modules assume of their
constants and nothing else, except where said.

**`CpsDriverProofs`**: `TypeOK`, `ActiveIsInnermost`, `GoesOnOnce`. That the top of
the stack can be resumed with a transfer of the right kind depends on the shape of
the stack: drivers and foreign functions alternate, each foreign function belongs
to the run under it, a driver keeps the run below as its previous `$active`
(`StackInv`). `GoesOnOnce` needs `TokenInv` besides: a run is pending exactly while
one token is outstanding, which remembers how it goes on, is queued at most once
and only after the call returned.

In the same module `ResumesItsContext`, `QuietBetweenTurns`,
`AbortsTowardsCaller`, `ImplementsExtent`, `InitializedInOrder`. The invariant
`ExtentInv` says that every continuation, frame by frame, was made in the context
it returns to (`Fitting`), that a run's context is its base with its own open
handlers stacked on it (`Nested`, `Owned`), that a handler is entered once
(`EntersOnce`), and that the handlers a callback was started inside belong to runs
that wait below it (`Borrowed`). The driver has many steps and few effects: each is
classified as going on, readying, entering, leaving, ending or beginning a run
(`Kinds`), and each kind is shown to keep the invariant and to be a step of
`HandlerExtent`. `InitializedInOrder` adds what the loop of `$initialize` awaits.

**`LspScheduleProofs`**: all safety properties. `Ordered` says that stamps never fall
along the channel and that an envelope that opened a revision has a stamp above all
before it. A worker whose revision is the schedule's has therefore taken every
change (`Texts`); the dirty flag ties the analysis to the text (`Fresh`). For
`NothingOwed`, `WakesUp` says that a cancelled job of the worker's own has left an
envelope behind, and `Done` what each position of the loop has settled if none is
there.

**`GitCacheProofs`**: all safety properties. `LockHeld` says that only one process
is past opening, whoever dies; what it has found out about the cache then stays
true until it lets go (`Restored`, `Repairable`, `FollowsSelection`, `FollowsPin`).

**`JobPoolProofs`**: all safety properties and `ImplementsForEach`. Every item the
counter has passed is done, at work, or given up by the worker that failed on it
(`Accounted`); a worker that unwound reports it and a panic stays reported
(`Reported`); a cancellation has a cause (`Caused`). Together they give that a call
that returns normally has done everything, which is not inductive by itself.

**`CachesProofs`**: `EntriesMatchTheirKeys` and `UsesSourcesUnlessUndercut`, for
any number of processes, compilers, contents and edits and a chain of any length.
`AllFollow` relates every artifact held or cached to its key, stamp by stamp, but for
the projects under whose key a build was undercut. It is kept because a build that
is about to compile either has its key's text still on disk or has been undercut,
under that key (`Current`). That what is linked was there while the process ran needs
that keys are made of what the process has seen (`Stamped`), and that what it has
seen includes the disk (`Seen`).

For the memo, `MemoIsRight` as the run checks it, and the capacity. The only hypothesis
is `Sensible`: there is a request, requests read sets of projects, the capacity is
positive. `OfItsTime` follows a thread: what it has read of a project that has not
raced is still on disk until it is digested and is what the digest says from then on;
`AsDigested` says the same of what is remembered. A lookup that finds the digest
unchanged thus hands out what is on disk, but for what raced. `SideBySide`
carries the promises of the artifact cache over to the composition.

**`DebugSessionProofs`**: `OthersAreKept`, for any number of pages, agents, edits and
messages on their way. `Kept` says whom the server would accept - a page that
knows the revision, a request that does, a later request of the page whose compile
the session is - and that each has, of the others' edits, exactly the session's
(`PagesAgree`, `RequestsAgree`, `PullsAgree`). To stay true it needs that revisions
name sessions (`Revisions`), that an older request of a page never knows more than
a newer one or the page (`RequestsInOrder`), and that an answer not yet received is
newer than all the page has sent (`RepliesInOrder`): otherwise a late answer could
make a page believe it knows the session whose text it never had. `Kept` holds
until the first restart and of pages opened before the first edit, which is what
the property says; section 15 shows why it cannot say more.

**`WorkspaceProofs`**: `Coherent`, `AcquiredAreWatched`,
`LoweringFindsItsAnalyses` and the types, for any graph of projects, texts, scripts
and bounds, in behaviours that are `Quiet`: either no project is in the persistent
cache, and then anything may happen; or those that are are like the standard
library - no dependencies, reading only their own directory, which nobody changes
or opens - and no buffer is closed. The language server caches only `std`
(`cli/src/workspace.rs:474`); what happens when a buffer is closed over it is
`ws_unwatched` in section 15, and `Coherent` fails with it.

The difficulty is that a project is reused by comparing *revisions* of its
dependencies' interfaces, while the analyses it was compared with may be gone, and
that a cancelled refresh leaves a mixture of new and old analyses. `Sound` says it
without mentioning when anything was made: of any project, any analysis held - in
`projects` or `previous` - has the interface its inputs give with *any* interfaces
held under the revisions it names. For that a revision names one interface of a
project (`Revised`) and none is above the next one to be given out (`AnalysisOK`).
`Visited` says that what a refresh has visited was made of the texts now kept and
of the dependencies now in `projects`; `Current` that, when nothing is due, every
analysis was - also after a cancelled refresh, whose `needsRefresh` gives up only the
links between projects. `Control` is what the worker's flags say of each other, for
instance that a refresh not caused by an edit never starts from dirty or failed
state. `Watching` follows the last inputs on the channel to the watcher. `Lowering`
says that a background check has required the sources it misses before it visits.
With cacheable projects all rests on `CacheOK`: an entry is the one interface the
project can have.

TLC checked `WorkspaceInv` as an invariant of two scripts first: edits, closed
buffers, requests and cancellations without cacheable projects (458,156 distinct
states), and a cached dependency under typing, cancellations, requests and a restart.

In the same module `InterfacesAreKeyed`, for any chain of cacheable projects that are
edited, saved and closed as one likes, in behaviours that are `Steady`: cacheable
projects depend on cacheable ones only (only `std`, or all, are:
`cli/src/workspace.rs:474`), their modules lie in their own directory, and nobody
removes a file there. All five scripts of `workspace` are `Steady`; with a removal the
property is false (`ws_poisoned` in section 15). The hard case is that a fingerprint is
kept while the texts it read are not watched, and that a listing may be older than a
file. `DirectoryOK` says what can be relied on: a file that is acquired has the very
text the kept fingerprint says of it, and one that a kept listing leaves out is missing
on disk or open in a buffer. It is false of files not acquired, which is why `Analysed` digests
a second time after reading (`AnalysedKeys`). What a key stands for is then carried by
a table, `meaning`, that is quantified in the invariant as the history of the artifact
cache is: it gives each key that occurs the interface that its texts have over the
meanings of the keys it digests (`Interprets`), only ever grows (`MeaningGrows`), and
every analysis held and every entry has the interface it gives for its key, whoever
made it and in which session. That `KeyInterface` is such a meaning (`KeyMeans`) takes
an induction along the order of the projects, by which the keys a key digests come to
an end (`DigestedFacts`). TLC checked `KeysInv`, with the table made of `KeyInterface`,
on all 645,019 states of `workspace`.

**`LoweringProofs`**: `ProgramIsCurrent`, `InferenceIsCurrent` and the types of the
cache, for any number of definitions, files, bodies and edits. The invariant says
that a cache is the snapshot the ordinary builder would have made of the text
lowered last (`CacheIsCurrent`), and one lemma, `UpdateIsCurrent`, that following an
edit makes it the snapshot of the edited text. Its parts are what could be stale:
ranges of rigid variables are sums of what all definitions before quantify, and stand
because every edited definition still fills its own (`EditKeepsRanges`); whether `mut`
is used is a sum compared with zero (`EditKeepsMut`); an error or a loop in the edited
text would show in what was edited or in what it forwards (`EditIsClean`); and anchors
do not tell where a definition is written (`NameStands`, `BodyStands`). For inference,
`NothingIsMissed` says what is known one generation behind: what was read is the
program outside the definitions reported as changed. The sums are reasoned about by
induction over natural numbers, which the library's induction theorems cannot be
cited for: `Inductively` derives it, of a set instead of a predicate, from the
well-foundedness of `<`.

`PlacesMove` adds `PlacesAreCurrent`, for attributes that are written in one file
(`AttributesInOneFile`; with two files the builder itself records two attributes at
one anchor, section 15). `PlacesInv` says that an output has everything where its text
has it (`Stands`). The argument follows a place through both paths. The definitions of
a file do not overlap, since what is written above one is a sum that what comes before
it is part of (`DefinitionsAreApart`). The boundaries of two texts are concatenated
side by side, so that paired boundaries belong to one definition and to one of its
parts (`FlatZips`, an induction over `FlattenSeq`; `PairsAreMarks`). Hence the last
boundary at or before a name, a body or the inside of a body is the one it is measured
from, in whatever order boundaries are searched (`MovesWith`, `PartsMove`), and no body
lies within another, so that the scopes of an edited body are dropped and no others
(`BodiesAreApart`). An anchor is recorded of one span only, so it does not matter that the
first is kept (`EverythingOnce`, `ListedIsLocated`). TLC checked `PlacesInv` on 176,424
states, with two attributes in one file and with a second file, before the proof.

**Only model-checked.** Liveness (`Progress`, `AgentEditsArrive`, `TypingIsShared`,
`SettlesOnTheDisk`), since the installed backends reason neither
about fairness nor about `ENABLED`. The presence modules: their definitions recur over
formulas and are declared `RECURSIVE`, in modules with which the provers cannot work.
`Coherent` and the other properties of the workspace beyond `Quiet`: buffers that are
closed over a cached project, cached projects that change (four of the five scripts of
`workspace`). `PrimIntegers`, whose content is arithmetic at concrete widths that TLC
exhausts.

## 15. Where the code and its documentation differ

The first two are runs. The others are reproduced by the change of a configuration or
property named with each.

- **The server outlives its input** (`lsp_input_ends`). The worker's loop ends when
  the channel is disconnected (`cli/src/lsp.rs:148`, `:199`), but the watcher holds a
  sender of that channel until `serve` returns. A client that goes away without
  `exit` leaves the process waiting.
- **An undone edit brings up the wrong artifact** (`caches_undone`). A build digests a
  dependency (`cli/src/lib.rs:2340`) and reads it again to compile it (`:2347`); an edit
  in between is stored under the old key (`:2362`), where builds find it once the edit is
  undone. `cli/src/cache.rs:6`: "a cached artifact is used only while all four are what
  they were". `UsesSourcesUnlessUndercut` says that this is the only way.
- **An abort through an asynchronous foreign function** (`cps` with `NativePromises
  = TRUE` and the invariant `AbortNeverFailsItsOwner`). A synchronous callback inside an
  `async` foreign function aborts a handler of the run that called the function; the
  abort object becomes the rejection of the function's promise, and the run fails
  with it (`src/backend/cps-runtime.js:83`). `.scratch/cps-lir/spec.md:112` asks that
  aborts across an active foreign call be preserved.
- **A lockfile may lose its pin** (`git` with the property `LockfilesKeepTheirPins`).
  The lockfile is read (`cli/src/git.rs:72`) before the cache lock is taken (`:187`) and
  replaced at the end (`:235`) without another look. `README.md:27`: "existing lockfiles
  keep their pinned revisions."
- **A graph is kept under a newer digest** (`caches` with `AnswersAreOfTheirTime` of
  `DependencyMemo`, which is `StaleOnlyIfEdited` without the exception). The digest is
  taken after the graph was compiled (`debug/src/dependency_cache.rs:85`); a file saved
  in between hides behind it until the next edit. `:45` says that a graph is compiled
  again when "the sources it reads have changed".
- **Revisions of two servers are not told apart** (`debug` with `OthersAreKept` without
  `restarts = 0`). Every process starts at 1 (`debug/src/session.rs:71`) and revisions
  are compared for equality (`:51`, `:104`): an agent's edit of the old session may be
  accepted by the new one. `:3-5` says it cannot.
- **A page that is opened late** (`debug` with `late |-> TRUE`, two pages, `OthersAreKept`
  without `~plan.late`). It takes the session's revision (`debug/web/app.js:1331`) and
  the text on disk (`:1333`), which lags behind, and compiles it (`:312`).
- **A late answer takes a page back** (`debug` with `RejectionsSaveEdits`, or with
  `typed = 2`, `written = 2`, one page and `AgentEditsArrive` without `plan.typed = 0`).
  The revision of a stale response is stored (`debug/web/app.js:479`) before it is found
  stale (`:480`): the next compile is rejected although it would undo nothing, or an
  older session is pulled over a newer one (`:554`).
- **The same build is not rejoined** (`debug` with `supervised |-> FALSE`,
  `TypingIsShared`). Pages rejoin only another build number (`debug/web/app.js:518`);
  without the supervisor it is always 1 (`debug/src/main.rs:57`).
- **`ws_poisoned`** (`workspace` with removals of `Part` while `d` is cacheable,
  `InterfacesAreKeyed`). A fresh listing drops a removed module from the digest
  (`cli/src/workspace/files.rs:156`) while its kept text is still analysed; the
  interface is stored under a key without it (`cli/src/workspace.rs:730`).
  `tests/src/workspace.rs:222` says it must not be.
- **`ws_stale_key`** (`workspace` with `ArtifactsAreKeyed`). A reused project keeps the
  key of its dependency's earlier sources (`cli/src/workspace.rs:556`) and stores under
  it what was lowered against the new ones (`:869`). In the server only `std` is cached,
  which has no dependencies; `with_artifact_cache` caches all.
- **`ws_unchecked`** (`workspace` with `BackgroundLowersTheGraph`). Reuse compares the
  interfaces of direct dependencies (`cli/src/workspace.rs:548`), lowering those of all
  (`src/analysis.rs:537`): a root whose indirect dependency changed is passed over by
  the background check (`:853`) until it is edited.
- **`ws_unwatched`** (`workspace` with a project over a cached `std`, whose buffer is
  closed with the text it has, one save, one request and one restart;
  `AcquiredAreWatched`). Closing drops the file (`cli/src/workspace.rs:197`) without making
  the worker dirty. A request that needs `std`'s sources refreshes (`:1014`), reads a
  newer text on disk and retains what that names (`:260`); only the worker's own
  refresh tells the watcher (`cli/src/lsp.rs:438`). The comment at
  `cli/src/workspace/files.rs:94` has only cancelled refreshes in mind that do not publish what
  they acquired. With a removal instead of the save the request's refresh fails and
  drops every project, and nothing records the error (`Coherent`). Both last until the
  watcher has reported the save, or, if its event is lost, until the next
  reconciliation.
- **Reals that are no integer of the target** (`algorithms` with `RealsBecomeTheSame`, or
  with `TheSameTable` and no `DefinedReal` in `OfReal`). NaN becomes 0 in the interpreter
  (`interp/src/prim.rs:334`, `:359`, `:443`) and stays NaN in JavaScript
  (`src/backend/primitives.js:90`, `:361`, `:579`); 1e30 becomes the end of 64 bits, which
  JavaScript's `Nat` and `Int` do not even have, and stays 1e30.
  `tests/src/interp_prim.rs:171` pins the interpreter's results and `docs/src/grammar.md:770`
  says that "every target implements the same table", but
  `.scratch/introspection/spec.md:84` makes such conversions undefined and `:467` wants no
  test to impose a result on them: the divergence is between these documents, and the
  properties follow the one that claims least. The same holds of overflow of a target's own
  integers.
- **Bytes past the count** (`algorithms` with `BytesPastTheCountAreLeftOut`). The 64-bit readers
  of JavaScript reduce over all bytes they are given (`src/backend/primitives.js:22`);
  `interp/src/prim.rs:626` says they do not. The standard library passes eight.
- **Attributes of two files share an anchor** (`low` with two files and
  `AttributesAreApart`). Anchors of attributes are an offset and a width without the file
  (`src/ir.rs:11490`). `src/tracking.rs:80`: "Where every anchor of a program points."
- **A definition that moved is lowered to another value** (`low` with attributes, gaps
  and `UneditedStaysEqual`), for the same reason. `src/tracking.rs:41` says it compares
  equal; inference does it again.

## 16. What is not modelled, and the plan

Most of the repository translates trees and text sequentially: the front end, name
resolution, constraint generation and unification, pattern coverage, lowering to
blocks, emission, artifacts, rendering, the command line, the grammar and the editor
extension. The mapped lines are about a twentieth of the implementation for that
reason. Errors there depend on large data rather than on order or on state that
outlives its text; the tests compare outputs over many programs, which a model with
small data would not improve on. `PROJECT.json` lists each of these components with
its reason.

What remains, in this order:

1. The workspace's other theorems for cached projects that change, as far as they hold.
2. `BoundariesAreRight` for `PresenceStore` with formulas as sets of assignments.
3. The reference interpreter's machine (`interp/src/machine.rs`) as a second
   implementation of `HandlerExtent`.
4. Row unification (`src/inference/solve.rs`) and pattern coverage (`src/patterns.rs`)
   against reference definitions over small inputs.
