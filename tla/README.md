# BitBake and the Familiar metadata in TLA+

The repository holds two things: **BitBake** (`src/bitbake`, about 7,000 lines of
Python 2), a task executor that builds packages from recipes, and the **Familiar
distribution** (`src/org.handhelds.familiar`), some 7,000 recipes, patches,
classes and configuration files for it to execute.  The program's own logic is in
BitBake and in the task skeleton of `classes/base.bbclass`; nearly all of the rest
is data.  Some recipes carry C code of their own, most of it tables, generated
parsers and single-purpose tools; the one large program among them with state worth
modelling is the driver of the SL811HS USB host controller
(`packages/cfu1/files/sl811_hcd.c`).

A BitBake process has one thread.  What makes it hard is *recursion with shared
state* (three mutually recursive walks that keep lists and flags in objects they
share), *failure in the middle of it* (exceptions that unwind past code that meant
to restore something), and *state that outlives the process* (stamps, work
directories, the recipe cache, downloads), may be left half written, and may be
used by another process meanwhile.  The USB driver is hard in the other way: an
interrupt handler, a timer, the hub driver and preempted processes work on two
schedules, and the interrupt handler gives its lock up in the middle.

## Inventory

| component | state | operations | interacts with |
|---|---|---|---|
| task graph: `digraph` (`lib/bb/__init__.py`), `add_task`, `remove_task` (`lib/bb/build.py`) | `dict`: node → [reference count, parents]; the `task` flag | `addnode`, `delnode` (killing or not), `walkdown` | filled by the parser (`addtask`), walked by task execution |
| task execution: `exec_task`, `stamp_is_current`, `mkstamp`, `exec_func` (`lib/bb/build.py`), `do_clean` (`base.bbclass`) | stamps on disk, `_task_cache` and `force` flags in the metadata, the call stack | execute a task and what it runs after, compare stamps, clean | called by the driver and the shell; runs functions; fires events |
| build driver: `BBCooker` (`bin/bitbake`) | `build_cache`, `build_cache_fail`, `building_list`, `configuration.cmd`, statistics | `cook`, `buildProvider`, `tryBuild`, `tryBuildPackage` | reads the parsed recipes, calls `exec_task`, catches `EventException` |
| provider and version selection: `findBestProvider`, `vercmp` | none (parsed recipes, preferences) | choose a recipe file | called by `buildProvider` |
| metadata store: `DataSmart`, `bb.data` | layered dictionaries, flags, pending appends | `setVar`, `getVar`, `createCopy`, `update_data` | everything keeps its state in it |
| recipe cache: `load_bbfile`, `DataSmartPackage`, `__depends` | pickled recipes, mtimes | load, reparse, commit | driver, parser |
| parsers: `BBHandler`, `ConfHandler` | class stack, pending function body, `__bbtasks` | `inherit`, `addtask`, line feeding | metadata store, task graph |
| fetchers: `lib/bb/fetch` | files and `.md5` markers in `DL_DIR` | download, resume, verify, mirror | called by `do_fetch` |
| events: `lib/bb/event.py` | list of handlers | `fire`, `register`, `remove` | every component fires |
| shell: `lib/bb/shell.py` | one cooker for many commands | `build`, `fileBuild`, ... | driver, with metadata that stays |
| USB host driver: `packages/cfu1/files/sl811_hcd.c` | list of control and bulk endpoints, table of interrupt endpoints by frame, the packet under way, port and interrupt registers | `urb_enqueue`, `urb_dequeue`, `endpoint_disable`, `sl811h_irq`, the timer, `hub_control`, resume | usbcore's queues and completion handlers, the hub driver, the chip |

What makes each correct, and what is hard about it:

* **Task graph.**  Counts agree with edges and edges lead to nodes, although the
  counts are kept by hand and deletion recurses over a list it collected earlier.
* **Task execution.**  What `stamp_is_current` accepts was really built, and in
  order; no task starts before those it runs after; none runs twice in a command;
  each of these across failures, kills, cleans and `-f`.
* **Build driver.**  A recipe is built only after its dependencies, cycles are
  noticed and do not poison later targets, nothing is built twice, exit status 0
  is earned, and the recursion ends.
* **Metadata store.**  A copy never changes what it was copied from; pending
  appends are applied once and not lost; an override puts one whole version in a
  variable's place.
* **Recipe cache.**  What is loaded is at least as new as what was there when the
  command began, and nothing is parsed without a reason; edits, kills and other
  processes come in between.
* **Fetchers.**  A `.md5` marker means a complete, verified file; what `do_fetch`
  left behind is complete and what was asked for; retries get there in the end.
* **Parsers, events, shell.**  Global state does not leak from one file, event or
  command into the next.
* **USB driver.**  Both schedules agree with the queues, across completion handlers
  that submit again, unlinks and lost interrupts; a result is taken for the packet
  it belongs to; nothing waits for an interrupt that cannot come.

`PROJECT.json` lists the hazards line by line, with the properties aimed at each.
Some have none: there the code is wrong in the way the hazard says, the properties
close to it leave the case out, and the hazard's note says which and why.

## The modules

| module | what it models |
|---|---|
| `TaskDependencies` | what `add_task` and `remove_task` promise: tasks and "runs after" pairs, one step per operation |
| `TaskGraph` | the `digraph` with its hand-kept counts; `add_task`'s loop and `delnode`'s recursion one node per step |
| `TaskGraph_proofs` | TLAPS: exact counts and known parents in `TaskGraph`, and that it implements `TaskDependencies` |
| `TaskExec` | `exec_task`, `walkdown`, stamps, `do_clean`, commands, kills |
| `TaskExec_proofs` | TLAPS: the task graph, the walks and the stack; types of `TaskExec`, and the walk of one command; then true stamps and dependencies first, in plain sessions, and that what is current was built in order |
| `BuildOrder` | what a run of the driver promises about the order of builds |
| `ProviderSelection` | `findBestProvider` and `vercmp`, as operators |
| `Cooker` | `cook`, `buildProvider`, `tryBuild`, `tryBuildPackage` |
| `Cooker_proofs` | TLAPS: the candidates are the best of their names; the order of the calls in progress; the properties of a run of the driver, and that it implements `BuildOrder` |
| `DataStore` | `DataSmart`: layers, pending appends, `update_data`, `expandKeys` |
| `DataStore_proofs` | TLAPS: copies are independent of what they were copied from; sharing is sound and no piece is applied twice; what has `matchesenv` is as the environment has it |
| `Sessions` | who runs BitBake on what, and what may go wrong: the parameters of the next three |
| `RecipeCache` | `load_bbfile`, `deps_clean`, unpickling and committing, the mtimes a process keeps, edits |
| `Fetch` | `do_fetch` with `wget`, `cvs`, `svn` and `git`: markers, places, resumption, sums, tarballs |
| `Builds` | the two composed: processes that load the recipe, fetch, are killed and started again |
| `Builds_proofs` | TLAPS: types and true markers of `Builds`, what a `do_fetch` that succeeds leaves, that what is taken from the recipe cache is fresh, and that it is used while nothing changed |
| `Sl811Schedule` | the two schedules of the USB driver, as operators on its state |
| `Sl811` | the USB driver, with usbcore, the chip and the device around it |
| `Sl811_proofs` | TLAPS: types of the USB driver, schedules that agree with the queues, nothing used after it is gone |
| `Sl811Packets_proofs` | TLAPS: the packet under way is the right one, and what is given back as done was delivered |
| `Sl811Frames_proofs` | TLAPS: the frames' chains stay right, and work goes on |
| `MC*` | instances for TLC |

### TaskGraph
`nodes`, `parents` and `refs` are the keys and the two halves of the values of
`digraph.dict`.  `adding` is what remains of `add_task`'s loop, `pending` the
children a killing `delnode` has yet to call itself for.  Lists are sets here:
neither `delnode` nor the counts depend on their order.  `RefinesTaskDependencies`
maps the middle of an operation to its end: while `pending` is not empty,
everything that depends on it counts as withdrawn already.

### TaskExec
`exec_task` and `walkdown` call each other through the callback `execute`, so the
state has a stack.  A frame is one `walkdown(item)` on behalf of one
`exec_task(task)`, with the copy of `_task_cache` that this `exec_task` took when
it was entered (`getVar` copies, `setVar` writes back) and `next`, where the loop
over the parents is.  `stamp` is the mtime in whole seconds, `clock` the current
second.  `stamp_is_current` answers with one walk over unchanged files, so it is
an expression over the task's ancestors.  A failing function raises
`EventException` through every frame (`FuncFails`).  `do_clean` has two steps
since it runs two commands, and the process may be killed between them.  The
function of an ordinary task is one step that succeeds, fails or is killed in.

A `session` says how BitBake is used: with or without `-f`, with metadata read
afresh for every command (a new process, or a recipe unpickled from `CACHE`,
which Familiar's `bitbake.conf` sets) or kept from command to command (a shell
without `CACHE`), and where it may be killed.  A command works on a file parsed for
the occasion or on a target's metadata, two objects with a `_task_cache` and
`force` flags each (`Via`).  `done`, `newer` and `ranNow` are ghosts: what was
really executed, in which order.

`GraphAssumption` says that the task graph has no cycle and that `do_clean` has no
edges.  On a cycle of one or two tasks `walkdown` hands the parent straight to the
callback, on a longer one it recurses without end (its `usecache` is never set);
neither is in the model.

### Cooker
A frame is a call of `buildProvider` (the list `eligible` and the position in it)
or of `tryBuild` (the position in `DEPENDS`, `failed`, `depcmd`, `oldcmd`).
`cmd` is `configuration.cmd`, which `tryBuild` changes for the time of the
dependencies; it is restored only when no exception passes.  `PackageFails` is the
`EventException` that unwinds to `cook`; `Escapes` any other exception, and
Control-C.  `RejectFailed`, `BumpStaged` and `BumpPreferred` are the passages of
`buildProvider` that reorder the candidates, the first with the effect of removing
from the list it iterates over (`Without` is a list without one position).  A dictionary's keys come in any order
(`Candidates`); the file of each PN is the one `FindBestProvider` of
`ProviderSelection` returns, from what the configuration prefers (`wanted`), the
order the files were parsed in (`parsed`) and their priorities, preferences and
versions (`about`).  A version is a sequence of what `explode_version` makes of its
text: numbers, words, and dots, which compare like missing pieces.  Stamps are
known by name, version and revision, so two files that agree in these share them
(`SameStamps`).

The assumptions on the constants say that there are finitely many recipes
(`RecipesAreFinite`), that the flags and runs are of their types (`TasksAreTyped`,
`RunsAreTyped`; every recipe of a run was parsed), that None is nothing else
(`NoneIsNothing`), and `DependenciesAllTheWay`: what a `bbdepcmd` names has no empty
`bbdepcmd` itself, as is so of the classes (`base.bbclass:550`, `557`; only
`do_clean` and `do_mrproper` have an empty one).

### DataStore
`mem.layer[s][n]` is what the dictionary of store `s` has under the name `n`,
`chain[s]` the links down to the configuration, by which names are looked up.
Identity of objects matters, since `update_data` puts one object under two names,
and object numbers do not, so the state keeps which entries hold the same object
(`mem.shared`); a change of an object (`Change`) shows in all of them.  Contents
are sequences of pieces, one piece per call of `setVar` and one per name in the
environment (`usage.env`), so that a piece applied twice, lost, or under another name
than its own is visible.  `update_data`, `expandKeys` and `inheritFromOS` go over
keys one per step, in any order, which is what a hash table gives.  A recipe is
linked to the configuration by `LoadRecipe` and ends its parse with `expandKeys`;
tasks and downloads make copies (`CreateCopy`), set `OVERRIDES` in them and call
`update_data`.  While a recipe is parsed only its own data change.  `inheritFromOS` is
called once, before anything is parsed.  `OVERRIDES` is a set: `update_data` loops over
the keys and takes each key's own override, so that its order plays no part in the
code, though it does in the docstring (below, "What the runs found").

Left out of `DataStore`: the keyword `_delete`, whose flag nothing reads (`update_data` looks for
a variable of that name, which `setVar` never makes); flags beside content,
`matchesenv`, `export` and the pending lists, and so `delVarFlags`, which the
parser uses on `__anonymous` alone; and the text of an expansion, given as
`Expanded`.  A `Usage` bounds a behaviour to some names and calls.

### Sessions, RecipeCache, Fetch and Builds
`Builds` composes the two components a command goes through before it builds: a
process loads the recipe (`ps[p]`) and then runs `do_fetch` (`job[p]`) on the
metadata it unpickled, which say what to fetch.

*RecipeCache* has one recipe and the five kinds of files it is parsed from:
`bitbake.conf`, what that includes, a class, the recipe, and what the recipe
includes.  `files` and `cache` are the disk, with mtimes in seconds; a process has
the mtimes it asked for (`mt`, `__mtime_cache`), its configuration, and the
metadata `d`, which are the version read of each file and the times in
`__depends`.  Each `os.stat`, each file read, the opening of the cache file for
writing and the writing are steps of their own, so that edits and other processes
come between them.  `seen` is a ghost: the versions that were there when the
process began, or when the shell reparsed the recipe.  Two facts of the code shape
it.  `bitbake.conf` itself is not in the `__depends` that recipes inherit, and
`commit` ignores the mtime it is given (`data_smart.py:316`), so that a cached
recipe is as new as the moment it was written.

*Fetch* has `DL_DIR` as `dl`: of whom a file's bytes come (`of`), and whether all
are there (`whole`).  A file that `wget -c` continued from another server's is of
both.  `md5` are the markers, `repo` git's tarball of a repository, and a job's
`todo` the sources it has yet to deal with, in the order of the methods in
`bb.fetch`.  `Places` are the premirror, the URI itself and the mirror, each of
which may have the file, another file of that name, nothing, or a page that `wget`
saves under another name.  The programs `wget`, `tar`, `cvs`, `svn` and `git` are
external: they fail before or half way, and what they wrote stays.

A session (`SessionType`) fixes who is there, which files are edited, what the
servers have, and which of six things happen (`env`): edits while a recipe is
parsed, more than one event in a second, a shell, kills, full disks, lost
connections.  Two processes share the cache and do not fetch: nothing in `DL_DIR`
is locked, and a second `wget -c` appends to what the first is writing, so that
there is nothing to promise of it.

### Sl811Schedule and Sl811
`hc` is `struct sl811` with its endpoints, `core` what usbcore keeps (the
endpoints' queues, an URB's status and `actual_length`), `chip` the registers and
the packet under way, `bus` the ghost of what the device acknowledged of each URB.
The driver's handlers are operators on a `World` (all of these) that return the set
of its outcomes, for a handler runs with interrupts off from taking the lock to
releasing it, and all that comes in between is the completion handler that
`finish_request` calls with the lock released.  `Giveback` is that call; its
outcomes are every URB the completion handler may submit, each with the whole of
`urb_enqueue`.  A process is preempted between usbcore's linking an URB to its
queue (`Submit`) and the call of `urb_enqueue` (`UrbEnqueue`), where another may
unlink it.  Use of an URB or endpoint that is gone sets `oops` and ends the
behaviour, as it is undefined what follows.

The chains of the periodic schedule share their tails through the endpoints' one
`next` pointer, and `Sl811Schedule` keeps them that way: `InsertInSlot` and
`RemoveFromSlot` are the walks of `urb_enqueue` and `finish_request` down one
chain, and `LinkSlots` and `UnlinkSlots` the loops over the frames an endpoint is
due in.

A device (`DeviceType`) fixes the endpoints, the URBs and which of ten things
happen.  Without `overtake` no interrupt comes between linking and `urb_enqueue`;
the kernels of this distribution are preemptible, so it can.  Every property says
for which of these things it holds, and the other cases are not left out but wrong
in the code.  `SchedulesMatchQueues` is the one to read with care.  An URB whose
`urb_enqueue` comes when the port is gone is taken back by usbcore, and with it the
last URB of an endpoint may leave the queue, with the endpoint in its schedule
(`Stranded`).  And `sl811h_timer` enables the interrupts of a port that was reset or
resumed without `SOFINTR` (`sl811_hcd.c:1178`), whatever endpoints wait for frames:
they wait until an interrupt endpoint is scheduled once more.

Interrupts are off in a handler, but the chip goes on.  A packet that ends while the
handler is busy can be thought of as ending after it, with one exception.  Called for
nothing, the handler reads `IRQ_STATUS` (line 657), and `checkdone` then looks whether
the packet is still armed and overdue (623).  If the packet ends between the two,
`done()` judges it like any other, `start_transfer` arms the next one (759), and the
retry (762) finds the `DONE_A` the first one left, and has `done()` judge the second,
which is still under way, by the `PKTSTATREG` of the first (499).  This is `Slips`,
for devices with `slip` in their `env`.  `SchedulesMatchQueues`, `PeriodicTreeSound`,
`NoUseAfterGone` and `NoStallUnlessRaced` hold of such devices.
`PacketIsTheActiveOne` and `OkMeansDelivered` do not: when `slip` is admitted to
`Orderly`, TLC shows each of them violated after a dozen steps, an OUT transfer given
back with status 0 whose last packet the device never acknowledged among them.  So the
`lost` devices of these two properties are those whose packets do not end in that
window, and the window is a defect of the driver that they do not cover.

## The runs

| run | question | instance |
|---|---|---|
| `task_graph` | do counts, edges and atomicity hold at every step of any sequence of operations? | three interchangeable names, every graph on them, cycles and self-parents included |
| `exec` | are stamps true, tasks ordered and run once, do commands end? | five tasks of `base.bbclass`: a chain with a second path, one task without stamp below it, and `clean`; four commands; the four sessions below |
| `forced_failure` (violation) | "returns 0 if it is not current" | the session with `-f` |
| `cooker` | order of builds, cycles, exit status, end of the run | every dependency graph on three recipes, with `-k`, without, and with `-c clean`; and two providers of one item, staged or preferred or not, with a missing or ignored dependency, with `-k` and with `-n`; and three files of one name in every order of parsing |
| `failed_is_retried` (violation) | "rejecting already-failed" | two providers, three targets that want them |
| `target_gets_cmd` (violation) | "Specify task to execute" | `-c compile -k` over three recipes |
| `continue_stops_early` (violation) | "the other dependencies of these targets can be processed all the same" | `-k` over three recipes |
| `data_store` | are copies independent, pieces applied once, conditional versions taken whole, and `matchesenv` on nothing but what the environment has? | `FILES`, `FILES_arm`, `FILES_local`, `FILES_${PN}`; the seven usages below |
| `copies_share_objects` (violation) | "Value from source are copy-on-write" | `FILES`, `FILES_arm`, three stores |
| `builds` | is what is loaded fresh, is a marked or fetched file right, do downloads complete, whatever is edited, killed or lost? | 21 sessions, eight of the cache and thirteen of the fetchers |
| `sl811` | do schedules and queues agree, is each result its packet's, is everybody served? | 14 devices, up to three endpoints and three URBs |
| `sl811_stall` (violation) | "pick the next endpoint for a transaction, and issue it" | one device whose URBs are unlinked while they are submitted |

The usages of `data_store` are: a conditional version with appends, three calls of
`setVar` and two stores; the same without appends, two calls and three stores
(configuration, recipe, copy of a task); the same with deletions, in two stores;
the variable and its version both in the environment; two versions for two overrides,
of which any are active; one variable with appends and prepends
for an override and for none; and a name to expand, with deletions.

The sessions of `exec` are: no `-f`, kills at any point but the middle of a clean,
functions that may end in the second they began; `-f`, functions that take a
second or more, kills inside functions; a shell that keeps its metadata, with kills
anywhere; and one started with `-f`, with kills inside functions.  Properties that do not hold in a session by the design
of the code say so in their first lines (`Plain`, `~session.keepsData`), and the
reason is in "What the runs found".

The sessions of `builds` that are about the cache: one process and edits of any
file, in quiet moments, while it parses, or within one second; an included file
that comes and goes; a shell; kills and a full disk; two processes with edits
between and during their work.  Those about fetching: `wget` with a sum and
without, from one place and another, from mirrors that have another file or a
page; a recipe that moves on to another file of the same name; `cvs`, `svn` and
`git` with lost connections, kills, full disks, and a stash that has the tarball,
or moved.  The devices of `sl811`: control transfers with errors and unlinks;
control and bulk endpoints that take turns, plainly, with racing unlinks, with
overtaken submissions, with lost interrupts, and with lost interrupts and packets that
end while `checkdone` gives them up; three interrupt endpoints of three
periods that do not all fit, and with frames that overrun; a low-speed device; a
port that is unplugged, suspended (with an interrupt endpoint, too), or switched off
(between the linking of an URB and its `urb_enqueue`, too).

**Bounds.**  Three names are enough for a node with two parents, two children, a
cycle and a self-parent, and a kill that reaches a node twice.  Four commands
allow build, break, clean, build.  In `Cooker` three recipes give chains, diamonds
with a target, cycles of length one to three, and two of them side by side; four
are needed for two providers, the recipe that wants them and a tool they share.
Three files of one name, of two priorities, preferences 0 and -1, and the versions
1.0, 1-0, 1.0a and 1.1, with a version preferred or not and with its revision or
not, are every pair of reasons `findBestProvider` weighs, and a third file that
comes between.
In `DataStore` an object reaches from one store into another in two stores, and
through a third in three; three pieces are a content with an append and a prepend,
or a base, its version and an append to either; two versions are what an order of
overrides could choose between.  Overrides, deletions, copies and
loops are not counted.
In `Builds` three seconds and three versions of a file give an edit before, in and
after the second of a parse, and a recipe that is edited again after it was
reparsed; three faults are a download killed, resumed and broken, and a run after
them; two sources and two names are a file that another's removal reaches, and two
files of one name; a second process is enough to find what a first left half
written.  In `Sl811` three endpoints are a shared tail with one before and one
after it, packets of two bytes give transfers of a full, a short and an empty
packet, and four frames three periods and the index that passes over the last.
Kills are not combined with a second process, nor edits while parsing with
downloads.
The counters cut off by a guard are `commands` (`MaxCommands`), `pieces` and the
number of stores (`usage`); the clock and the statistics stay finite because the commands and the recursion do.

**Fairness.**  `WF_vars(Step)` in `TaskExec` and `Cooker`: the one interpreter goes
on executing, and the functions it runs come to an end.  Commands, kills and
escaping exceptions are under no fairness.  Without it nothing can be said about
the end of a run; with it `CommandEnds` and `CookEnds` say that the recursion
itself terminates, which is what the code has to ensure.

`WF_vars(Command(p))` in `Builds`: a process that runs goes on, and after a command
that failed or was killed somebody starts another one; that is the retry the
markers and `wget -c` are made for.  Edits, faults and the passing of time are
under none, and faults are bounded by `MaxFaults`: somebody who kills every command
gets no file.

In `Sl811` fairness is of the hardware and of the scheduler: an interrupt that is
pending and enabled is taken, the timer runs, a preempted process goes on, the chip
ends the packet it is given, and frames go by.  The device may answer nothing but
NAK, nobody has to submit, and no step of the hub driver is fair.  It is written
with `[]<>` of the states, each of those steps being what ends its own enabledness.

## What the runs found

* `forced_failure`: `exec_task` with the `force` flag does not remove the old
  stamp (`build.py:264`), so a forced run that fails leaves a task that counts as
  current.  The same property, `StampsTellTruth`, fails in two more ways that the
  passing run excludes: a clean killed between removing the work directory and
  the stamps (`base.bbclass:307-311`), and a shell without `CACHE`, where build,
  clean, build finds the tasks in `_task_cache`, executes nothing and makes the
  stamps (`build.py:271`, `301`).
* `failed_is_retried`: `for p in eligible: ... eligible.remove(p)` skips the entry
  after a removed one (`bin/bitbake:415-418`).
* `target_gets_cmd`: `configuration.cmd` is restored outside the `finally` clause
  (`bin/bitbake:243-244`).
* `continue_stops_early`: with `-k` a failing dependency ends its target at once.
* `copies_share_objects`: `d[name] = d[var]` (`data.py:521`) copies nothing, so
  after `update_data` in a copy a `setVar` of the base name changes the conditional
  version in the source.  `CopyOnWriteUnlessConditional` says when this cannot be.
* `sl811_stall`: an URB unlinked while it is submitted is finished with its endpoint
  in the schedule already, and nothing is started (`sl811_hcd.c:951`).  An URB that
  its completion handler submits to another endpoint finds the first endpoint's
  queue empty, where `start` gives up without a look at the next (line 353), and
  waits until somebody submits once more.

Seen while modelling and not given a run.  Of the metadata: a pending list is dropped
with all its pieces as soon as one is due (`data.py:531`, `542`), where the comment says
"maybe the OVERRIDE was not yet added so keep the append" (529, 540), so what was kept
for an override that is set later is lost.  The docstring of `update_data` shows
`arm:ramses:local` giving `local` (499-503), as if the last override won; the loop is
over the keys of a dictionary, and the version whose key comes last in it wins.
`UpdateTakesOneVersion` therefore says only what is true, that one active version is
taken whole, and reads the pending lists as the code drops them.  An `X_o` in the
environment puts its own content under `X` with `matchesenv` (521), and `emit_var`
hides `X` from the task's shell (427), whose environment has another `X`; `MatchesEnv`
names the version for that reason.  Where a conditional version from
below has a piece due, the order of the keys decides whether the base name gets it;
pending pieces of a base name are lost to an active conditional version, and a
name with only pending pieces is not expanded.

Of the tasks and the driver: `tryBuild` tests the stamp before `-f`
(`bin/bitbake:250`), so a forced target that is up to date is not run; `bbdepcmd`
of `do_compile` is `do_populate_staging`, to which `tryBuildPackage` adds another
`do_`; a target nothing provides exits with 0 under `-k`; `remove_task` with kill
leaves the dependents' `task` flags; a task named only after `after` has no `task`
flag and no stamp, so what runs after it is never current; tasks forced within one
second of each other pass the strict comparison of mtimes.

Further: a shell that was given `-f` and keeps its metadata keeps the `force`
flags of every command, and a task with one gets a new stamp each time a walk comes
to it.  If functions may also end in the second they began, a task which the walk has
passed as current can become older than one before it; it is then run inside the
`exec_task` of another, which has taken its copy of `_task_cache` before and writes
it back without the entry when it returns, so that the function runs again in the
same command (`build.py:256`, `289`).  The proof of `NoDoubleRun` came upon this; a graph of
the size of the run's does not show it, and `NoDoubleRun` leaves that session out.

Of the recipe cache: with two processes of which one is a shell, the mtimes and the
configuration that the shell has kept since it started reach the other through the
cache, and `NeverStale` leaves such sessions out (`Dated`); one that a killed process left half written is newer than the
recipe, and no later load succeeds until the recipe is edited; an edit within the
second of the parse is missed, and so is one of the recipe between its reading and
the commit, which ignores the mtime it is given; an included file that was removed
makes `os.stat` in `deps_clean` raise at every later load.  Of the fetchers: a file
with a wrong sum stays, raises what `base_do_fetch` does not catch, and is resumed by
the next run; the `rm` after a redirected download removes every download whose name
begins like it; without a sum, a file begun from one server and resumed from another
gets its marker; a recipe that moves on to another file of the same base name gets
the old one; a failed `tar` of `cvs` or `svn` is looked for in another directory and
reported to nobody, and git's torn tarball of a repository ends every later fetch.
All tags of a repository share that tarball (`git.py:98`); the sources of the model have
one each, as no session has two tags of one repository.
Of the USB driver: the frame index may pass over the last slot, and since
`urb_dequeue` always answers `-EINVAL`, `endpoint_disable` frees an endpoint that the
schedule and the packet under way may still name; the model ends there (`oops`), and
`NoUseAfterGone` says when that cannot be; a packet that ends between the two reads of
`checkdone`'s check has its interrupt taken for the next packet's (`Slips`, above).

## What is proved

`TaskGraph_proofs` proves, for every finite set of task names,
`Spec => []TypeOK`, `Spec => []ParentsKnown` and `Spec => []RefsExact`.  The
inductive invariant is `IInv`, the conjunction of the three and `OneOperation`
(`add_task` and a kill are never in progress together).  `ParentsKnown` is needed
for `RefsExact`: deleting a node must lower the count of its parents and of
nothing else, so the edges out of the node have to be edges between nodes.
`RefsExact` is needed for `TypeOK`: a count that is lowered was above zero because
the deleted child was counted.  Each step is a lemma on one of the two changes the
code makes, linking a parent and deleting a node; cardinality facts come from
`FiniteSetTheorems`.  The only assumption is `TaskAssumption`: the set of names is
finite and `None` is no call.

On the same invariant rests `Spec => RefinesTaskDependencies`: seen through the view
that counts an operation in progress as done, `add_task` and `remove_task` are the
atomic operations of `TaskDependencies`, at the moment they are called.  A kill is
the hard part.  `Dependents` is a least closed set, and `DependentsStep` says that
one call of `delnode` in the recursion keeps what is doomed: it is the deleted node
and what depends on the pending ones and its children, its own edges gone.  For a
node that an earlier call deleted this needs `ParentsKnown`, by which no edge is
left that touches it.  So cycles and the order of the recursion make no difference.

`TaskExec_proofs` proves `Spec => []TypeOK` for `TaskExec` with any recipe, any
commands and any session.  That no loop runs past its list and that a walk which
returns has a caller takes a little more than types (`StackOK`): every frame but
the top one is in its loop, and the lowest one is at the task it was made for.

It goes on to prove `Spec => []NoDoubleRun` and `Spec => []SuccessIsCurrent`, for any
acyclic graph, with kills, failures and `-f`.  Neither is inductive, and what is
(`WalksOK`) is about the walk of one command.  `here` is what that walk looks at,
as a record: stamps, the object's `_task_cache` (`mem`), the copy that the command's own
`exec_task` took of it (`copy`), what has run (`ran`).  The argument:

* There is a set S of tasks that the walk has passed, with all that comes before
  them, and each is `Quiet`: a walk that comes to it again does nothing, since it is
  in `_task_cache`, or is current and without a flag (`PassedIsQuiet`).
* So `exec_task` nests once at most (`NestOnce`): all that comes before the task of a
  nested one is in S (`NestedOK`, `NestedFindsNothing`).  This is why the copies of
  `_task_cache` lose no entry: the object has what the command's own copy has and
  what has run (`CacheKnows`).
* What could end the quiet is a stamp made anew for a task that others in S come
  after.  Under the rule `Slow` the functions take time, so that what has run is
  younger than what has not, and none of those others can have been current.  Under
  the rule `Unforced` no flag but the target's is set, so that a task which ran stays
  current (or nothing makes it current, `Hopeless`) and is not run or stamped again.
  One of the two rules holds in every session but the one `NoDoubleRun` leaves out.
* When the walk is over every task before the target has run or was current
  (`EndsWell`), and the stamp the target then gets is as young as any.

Each step is a lemma about records before and after it (`NestedStarts`, `NestedRuns`,
`NestedReturns`, `PassesQuiet`, `TargetRuns`), and a second one that says which record
each action makes of the state.

The second part of `TaskExec_proofs` proves `Spec => []CurrentIsDone` and
`Spec => []DepsDoneFirst`, provided that commands name tasks of the recipe, or
names the graph does not have (`CommandsNameTasks`; a node without the `task` flag
gets a stamp when it is named by a command, which the run leaves out too).  Both
properties are about plain sessions, and the invariant `PlainInv` is about them.
It ties memory to disk, along this argument:

* A task that is not done is outdated in a way that no stamp but its own can mend
  (`Outdated`, `UndoneAreOutdated`): an ancestor's stamp is younger, or an ancestor
  is no task at all.  Missing stamps of ancestors would not do, since making them
  within the same second would make the task current; so no task has a stamp
  whose ancestors have none (`StampsOK`).
* What a walk has passed is `Settled`: done, with its stamp, or done in this
  command if it leaves none, and so is all that comes before it (`Visited`).  The
  same holds of the copy of `_task_cache` in every frame (`Cached`) and in the
  object (`ObjectOK`), with one exception: the task of a frame is in the cache
  before it has its stamp.
* Every `exec_task` in progress is for an outdated task (`Stale`), so that a
  failure or a kill, which spoils the task that is running, leaves nothing current.
  Other stamps made meanwhile belong to ancestors (`ChainOK`), and the graph has no
  cycle.
* `do_clean` is alone on the stack (`CleanAlone`), so that no walk depends on what
  it removes.

The assumptions are `TaskExecAssumption` and `GraphAssumption`.

The last part of the module proves `Spec => []CurrentIsInOrder`, with the same
assumption on the commands: in what `stamp_is_current` accepts, no task ran again
after one that used its output.  The invariant is `OrderInv`:

* `Layers`: stamps are made from the first task on, so a task with a stamp has those
  of all its ancestors, and the ancestors of a current task are current.  A name
  without the `task` flag leaves no stamp, and what comes after it is never current
  (`Stuck`); it is the one exception.
* `NeedsRun`: `exec_task` walks only for a task that is not current, or the target
  with its `force` flag set.  So what runs below an unforced task, a new ancestor of
  it, leaves nothing current that comes after.
* `InOrder` has one exception, the target that `-f` runs while it is current: from
  then until its stamp is made anew, what comes after it is out of order and still
  current (`Redone`).  The new stamp is younger than those of all that comes after,
  which is so because functions take time (`Renews`), and a kill must not come
  before it.

Without `-f` neither is needed.

`DataStore_proofs` proves `Spec => CopyOnWriteUnlessConditional` for any names,
expansions and number of stores.  The invariant (`IInv`) is that, as long as no name
in use has a base name, no two entries share an object, every key is a name in use
and so is what a loop has left to do.  `OnlyIn` says that a change of the memory
stays in one store and at names in use; putting a new object and changing one in
place have it (`PutOnlyIn`, `ChangeOnlyIn`), it composes (`OnlyInTwice`), and every
turn of a loop is made of the two.  `DataStoreAssumption` is used for two facts:
names in use are closed under expansion, and include those of the environment.

A second invariant, `EnvInv`, is of objects and links: pending lists are lists of
pieces, and a store's own number is the highest in its chain (`Chains`).  The last is
what `inheritFromOS` needs: `setVarFlag` looks the variable up anew, and must find what
`setVar` has just made (`FoundAfterChange`).  That `None` is no object (`NoneIsNoVar`)
is the one assumption besides `DataStoreAssumption`.

On `EnvInv` stand `Spec => []TypeOK` and `Spec => []AppendedOnce`, for any names,
overrides, expansions and number of stores.  That no piece is twice in a content is
far from inductive; the invariant (`DataInv`) has these parts:

* `Once`: an object has every piece once, be it in its content or in one of the two
  pending lists.  A `setVar` brings a piece that is new; `update_data` moves due pieces
  to the content and drops the list they were in (`WithPendingOnce`), so that calling
  it again, or on a copy, finds nothing.  `Due` is a loop over the list, with `Distinct`
  as what holds after every turn (`DueDistinct`).
* `Shared`, `SharedByBases`: classes of sharing are disjoint and read the same
  throughout, and all names in one are bases of one name, since `d[name] = d[var]` only
  goes from a conditional version to its base (`LinkSound`).
* `expandKeys` is where a piece could come twice: it adds the lists of one name to
  those of another.  They have no piece in common because of where pieces come from
  (`Origins`).  A piece was set under one name, is brought to bases of that name by
  `update_data` (`Unexpanded`), and to what one of these expands to by `expandKeys`
  (`Expanding`).  So if the old and the new name held one piece, two bases of one name
  would expand to the same text, which `ExpansionAssumption` excludes: the expansion of
  `x_o` is that of `x` and one `_o` more.  Its other half is that an expanded name has
  nothing left to expand, as `expand` goes on until nothing changes
  (`data_smart.py:74-79`).  A name that was expanded already is thus never one the loop
  still goes over.
* `FreshStore`: while a recipe is parsed its store is right above the configuration and
  shares no object, so that a turn of `expandKeys` changes two entries and no others
  (`ExpandedIs`).  After the parse `expandKeys` is not called on it again; were it, the
  argument about origins would not go through.
* `Born`, `Nested`: a store that is not made yet is empty, and chains are closed
  downward, the configuration being on its own.

On `DataInv` in turn stands `Spec => []MatchesEnv`: what has the flag `matchesenv` is as
the environment has the variable or a conditional version of it.  Which names hold an
object matters here, for the flag and the content must be right for each of them
(`RightMem`).  Three kinds of change keep it (`ChangeReaches`): `setVar`, and
`update_data` with a piece that is due, take the flag away, for all names at once
(`UnflaggedRight`); a list of pending pieces leaves flag and content (`SameContentRight`);
`inheritFromOS` sets both, of an object that has one name, because it comes before
anything is shared (`EnvTrue`, `UnsharedRight`).  `d[name] = d[var]` makes a version's
object the base's as well: what is right for a name is right for the name it is a
version of (`LinkRight`), which is why the property cannot say less.  A copy made while
the flag is set has what it is a copy of (`ShadowRight`).

`Builds_proofs` proves `Spec => []TypeOK` and `Spec => []MarkedIsVerified` for `Builds`
with any sessions, number of processes, times and faults.  The invariant (`IInv`) has
two halves.  `CacheInv` is of the recipe cache: what a process has read is of the
types it should be, the recipe in the cache is none that was never parsed, and a
process that unpickles finds a cache file.  Without it nothing would be known of what
`do_fetch` is asked for: the sources are those of the version of the recipe that was
unpickled.  `FetchInv` is of the downloads, along this argument:

* Whoever is at a source has found it incomplete, so its file has no marker, and has
  none until the fetcher is done with it (`JobHolds`); what is written to the file
  meanwhile spoils no marker (`NewFile`).
* A file that only one source names, on honest servers, is of nobody else's bytes
  (`PlainFiles`), so that continuing it completes it; with a sum the comparison says
  so whatever the servers have (`FileMarked`).
* `rm <name>*` takes markers and files together (`FilesRemoved`).
* Only one process fetches, which is what `SessionType` says.

`FetchedIsRight` (`Spec => []OkMeansRight`) stands on these.  `RightInv` says that what a
job is done with is right: a file of `wget`'s has its marker, a tarball of the other
methods is whole.  It stays so, since no step makes anything wrong that a `Dependable`
source has (`Spoils`, `NothingSpoilt`): a file is written only by the source it is of;
a tarball is absent until it is made and made in one go, as its process is not
killed, its disk is not full and no stash is half read (`TarInv`); and `rm <name>*`,
which takes other sources' files along (`RmSpares`), is run only after a server had
something else, whose neighbours are not `Dependable`.

The source a job is at is the first of those left, in the order of the methods
(`First`); that there is a first one is `LeastExists`, from the well-founded order of
the natural numbers.  Assumed are the five named assumptions of `Sessions`,
`RecipeCache`, `Fetch` and `Builds`.

The second part of `Builds_proofs` proves `Spec => []NeverStale`,
`Spec => []ParsedOnlyIfChanged` and `Spec => []LoadFailsForAReason`, for `Builds` with
any sessions.  First every action is
described by what it does to the record of a process (`Turn`), to the cache or to the
files (`CacheStepIs`); the invariants then go through these few cases.  Each needs the
ones before it:

* `TimesInv`: what is noted and asked is past, and a process misses no version that
  was there when it started, unless the file is gone.
* `NotesInv`: a recipe that is parsed to its end has noted the files it was made from.
* `FreshInv`: a note no older than the file's mtime is of the file's present content.
  This is where sessions with edits in one second fall out.
* `CurrentInv`: nothing changes under a process that loads, unless people edit
  meanwhile; so a cached recipe as young as the recipe file is of its content.
* `DatedInv`: whether the notes of the cached recipe are compared with mtimes asked
  now or long ago, what passes is as new as what the process could see.  With several
  processes the cache may change between any two steps of another, so the invariant
  is of every process against whatever is in the cache (`CacheFor`, `WrittenForAll`).
* `FailInv` and `ChangedInv`, for a process that is alone.

`Cooker_proofs` proves, for any finite set of recipes, any
dependencies (cycles among them), any versions, priorities and preferences, any
targets, options and stamps of earlier runs, that every state of `Cooker` has
`TypeOK`, `BuildingListIsChain`, `BuiltHaveDeps`, `TriedAreBest`, `ExitTruthful` and
`CleanStaysLocal`; that `NotBuiltTwice` holds; that the recursion
is at most `2 * Cardinality(Recipe) + 1` calls deep (`CookerDepth`), which is why the
program ends although nothing in it counts; and that `Cooker` implements `BuildOrder`.
What they rest on is that the calls in progress are in order (`CallsInv`): each by
itself, and each made for what its caller waits for.  On it stand, each with a proof
that every step keeps it,

* `TriedAreBest`, which is part of what makes a call be in order.  `vercmp_part` is the
  order of the first difference (`VercmpPartOrders`), so `vercmp` is an order of version
  and revision (`OlderIsAnOrder`), and with the preference before it still one
  (`NewerIsAnOrder`).  The loop over the files therefore keeps one that none so far is
  newer than (`LatestIsNewest`); were the comparison not transitive, the order of the
  files would matter.  What the loops of `buildProvider` do with the candidates only
  leaves some out and moves others.  Each loop is a function of the number of
  iterations, which is defined for any length (`LoopIsDefined`).
* `ChainInv`: `building_list` is, position by position, the recipes of every second
  call.  `finally` takes a recipe off by its name, which takes the right one off
  because none is there twice (`ChainShrinks`); none is there twice because
  `tryBuild` looks for it (`ChainGrows`).  The bound on the depth is that of a list
  without repetition (`CookerDepth`).
* `CleanInv`: under an empty `bbdepcmd` no call of `tryBuild` has anything to execute
  for dependencies, so none calls on.
* `DepsInv`: a call of `tryBuild` which no dependency failed has all those before the
  position it is at (`HasDepsSoFar`), and what returns true to it has built what it
  waits for (`Answered`).  `build_cache` only grows, so what was provided stays so.
* `ExitInv`: the outcome of targets is not remembered; with `-k` only the statistics
  say that one failed, and they say nothing of a target whose candidates were all
  rejected as failed.  What holds is that as long as no failure is counted the
  outermost `buildProvider` is at its first candidate (`FirstTry`), as there is only
  one way to come to a second.
* `OnceInv`, by cases.  Where dependencies are executed with the task asked for, what
  was built has that task's stamp, which `tryBuild` looks for.  Where with another,
  that is no task, so everything that is not a target fails or is skipped
  (`NoTaskInv`): only targets are built, and while `buildProvider` looks for a
  provider none of that item was built, since it would not have been called.

`NotBuiltTwice` and the refinement need three facts about the tasks, stated as their
hypotheses because the runs that show violations use tasks without them.
`StampsAreOfTasks`: what `exec_task` leaves are stamps of tasks.  `DepCmdsAreNoTasks`:
the only `bbdepcmd` there is, `do_populate_staging` (`base.bbclass:550`, `557`), becomes
`do_do_populate_staging`, which no recipe has.  `CmdsLeaveStamps`: the task asked for,
if its dependencies are executed with it, leaves its stamp.  A task with `nostamp`
and no `bbdepcmd` (`do_fetch`, `base.bbclass:329`) does not, and two targets that
depend on one recipe do have it executed twice; nothing is claimed of those.  `MCCooker`
has the three checked for the runs it looks at (`BaseIsAsTheTheoremsAssume`).

In the refinement `built` and `failed` are the two caches: a recipe is added to
`build_cache` when its stamp was current or its task succeeded, and `DepsInv` says
that its needs are met; one is added to `build_cache_fail` when its task failed, and
`OnceInv` that it was not built (`OrderStep`).

`Sl811_proofs` proves, for any endpoints, any number of URBs of any length, any packet
size, any number of frames and any devices (`DeviceType`), that every state of `Sl811`
has `TypeOK`, `SchedulesMatchQueues` and `NoUseAfterGone`.  The inductive invariant is
`SlInv`: `Good`, of the state as a `World`, and `Single`, that no second process is
between linking an URB and `urb_enqueue`.  As the handlers are operators on worlds,
most lemmas are about one operator and one world that is `Good`; a step of `Next` is a
handler's outcome that becomes the state (`Becomes`).  `Good` has two layers.

* `Sane` holds whatever went wrong, so that handlers can be followed into an oops: the
  lists name endpoints that were made (`MadeInv`), each once and in the schedule of its
  kind (`ListsInv`), and a packet on the wire is of an URB (`TokInv`).  What the loops
  over the frames do to the chains is seen only as a rewiring within the endpoints that
  were made (`LinkSlotsRewire`, `UnlinkSlotsRewire`).
* `KeptInv` holds until an oops.  It is stated for a set of URBs that are linked and
  whose `urb_enqueue` is still to come (`open`), and with endpoints excepted, because
  both go on in the middle of a handler: between `finish_request`'s unlock and its look
  at the queue, the completion handler submits, and `urb_enqueue` schedules an endpoint
  that `finish_request` has yet to find out is busy (`FinishKeeps`).  Its parts:
  `ServedInv` and `BusyInv` (an endpoint is scheduled exactly if it has an URB that
  `urb_enqueue` took), `AllocInv`, `FramesInv`, `QueuesInv`, `OpenInv`.
* `PortInv` is what makes `NoUseAfterGone` inductive where nothing is unplugged: before
  the first packet nothing is queued and the port comes up (`Idle`), and from then on it
  is not enabled a second time, so its interrupts never find the lists of an older
  connection (`Live`).
* `ActiveInv`: the packet under way is of an URB that `urb_enqueue` took.  It is why
  `done()` finds a queue that is not empty, and where `overtake` breaks it.

`Sl811Packets_proofs` goes on from there, with the same parameters, and proves
`PacketIsTheActiveOne` and `OkMeansDelivered`.  Both leave out the events that confuse
the driver (`Orderly`), as the properties do, a packet that slips by `checkdone` among
them: they are false there.  Neither follows from what it says
alone: that an URB given back with status 0 was delivered needs, at every packet
before, that the driver's count is the device's.  The inductive invariant `ExactInv`
says that the bookkeeping is exact, in two parts.

* `PacketInv`: the packet under way is of the first URB of `active_a`, of the kind of
  its `nextpid`, and has the room that is left in it; and if no endpoint is active
  nothing but the SOF that kickstarts the frames of a new port can be, while
  every queue is empty.
* `DataInv`: of an URB that is not the first of its queue, or that `urb_enqueue` has
  not seen, nothing was sent (`Fresh`).  Of a first one, `nextpid` and `actual_length`
  say what the device acknowledged (`Agree`).  This fails while the answer to a packet
  waits for `done()`, which is when an interrupt is lost or late: the device has the
  bytes, the driver has not counted them.  `Untold` names the endpoint whose packet
  was acknowledged and not judged yet, and `WillAgree` says of it what `done()` will
  find.  So the chip's answer turns `Agree` into `WillAgree`, every outcome `done()`
  can judge turns it back (`InConcluded`, `OutConcluded`, `SetupConcluded`,
  `AckConcluded`) or hands back an URB that is `DeliveredOf`, and everything else
  leaves both alone.  `PidData` is for endpoints between two URBs: `finish_request`
  leaves the `nextpid` that the next one starts with.

As in `Sl811_proofs` the handlers are followed one operator at a time, with the set of
URBs that are linked and not yet enqueued as a parameter, for completion handlers
submit in the middle of `finish_request`.

`Sl811Frames_proofs` goes on from `Sl811_proofs` too, and first proves
`PeriodicTreeSound`.  It needs one more assumption on the constants, `PeriodsNest`: of
two interrupt periods one divides the other.  `usb_submit_urb` rounds the interval of an interrupt URB to a power of two
and `urb_enqueue` bounds it by `PERIODIC_SIZE`, which is one.  TLC evaluates it on the
devices of the runs.  Without it two endpoints may meet in one frame and not in the
next, and one `next` pointer cannot lead to both.  The argument goes in three layers.

* Lists.  `Follows(h, i, c)` says that the pointers of frame `i` lead down the list `c`
  to its end, so that `Chain` finds `c` (`ChainIs`).  A loop that puts an endpoint in
  its frames changes, in each turn, one pointer that may belong to many frames.  `Shape`
  says when that is harmless: in all the frames due the endpoint goes before the same
  element `H`, and behind an endpoint that is in no other frame.  `Between` is what then
  holds after any number of turns (`LinkTurn`, `UnlinkTurn`), and after the last every
  frame due has the endpoint and the others do not (`LinkSlotsFollow`,
  `UnlinkSlotsFollow`).
* Frames.  `Tree` says of every frame that its chain has the endpoints due, slow ones
  first, and that what is reserved of it is their sum and no more than there is.  That
  the loops find a `Shape` is where the periods come in: the slower of two endpoints
  that meet is due in frames of the faster one alone (`DueNest`), chains that share an
  element share all that follows it (`TailsAgree`), and so the place of an endpoint is
  before the same element in all its frames (`HereIsSame`).  `LinkTree` and `UnlinkTree`
  say that `SchedulePeriodic` and `DeschedulePeriodic` keep a `Tree`.
* Handlers.  `FramesRight` adds `TreeInv` to `SlInv`, for devices that do not both race
  and overtake.  An interrupt endpoint may only be taken out when it is in the frames.
  Without `overtake` that follows from `SlInv`.  With it `ActiveIn` says that the active
  one is, or is closed with an empty queue, which `done()` turns into an oops; and
  `LateIn` says of an URB that was unlinked before `urb_enqueue` took it that its
  endpoint will be scheduled just before it is taken out, or has other URBs, or is
  closed.

Its second part proves `NoStallUnlessRaced`, with `Alive(World)` for an enabled port of
a running controller.  It is about the devices that are neither unplugged nor
suspended and whose URBs are not unlinked between the halves of a submission (`Tame`);
they may still lose interrupts, overrun frames, fail, overtake and be switched off.
No line of the code says that the handler which ends a packet starts the next or leaves
the SOF interrupt on.  The inductive invariant `WorkGoesOn` adds to `FramesRight`:

* `Moving`: while an endpoint is scheduled, a packet is under way or the SOF interrupt
  is on (`Mover`).  It is stronger than the property, which a packet of nobody in
  `chip.armed` would satisfy too.
* `Listening`: an enabled port has DONE_A on.  `FramesInv` says of a port that listens
  that SOF is on while interrupt endpoints are scheduled, and so those wait for no
  packet of theirs.
* `Attended`: a packet under way that is not of an interrupt endpoint is of one that is
  in the round, or of a control endpoint whose `nextpid` is SETUP again.  The IN stage
  of a control URB sets its status and leaves it on the queue, where an overtaken
  `urb_enqueue` may yet find it; this says that the endpoint is served then.
* `Overtaken`: an URB that got a status before `urb_enqueue` took it, because the
  interrupt overtook the submission, is off the queue or is a control URB whose
  endpoint is served.  `urb_enqueue` gives such an URB back and starts no packet, which
  is harmless only because the endpoint was scheduled before and something moves
  already.

`Onward` is what all handlers but `finish_request` do (schedules grow, no interrupt is
turned off), `Steady` what `finish_request` leaves, through any submission of the
completion handler.  `IrqPassSteady` follows the handler from `done()`, after which
nothing moves, to `StartTransfer`, which sets it going again (`StartMoves`), and
`IrqExit`, which turns SOF off only when both schedules are empty: for this it needs
that `count` is the number of scheduled interrupt endpoints, which is a part of `Tree`.

Every safety invariant of the USB driver that TLC checks is thus proved, for any
endpoints, URBs, packet size and number of frames, and for the devices it names.

Only model-checked: `UpdateTakesOneVersion` of `DataStore`, and liveness, which is out of
the prover's reach.  `UpdateTakesOneVersion` compares what `update_data` leaves with a
fold over the pending lists; the folds of the community modules are recursive, and the
provers know nothing of what they return.

## What is not modelled

Planned are the parsers, whose global state (class stack, pending function body)
can leak from one file into the next, events, and what the shell keeps beside its
metadata.  Left out for good: the C parser (unfinished and unused), `bbimage`,
`bitdoc` and `manifest.py` (text tools), the shell script a function is run by,
messages, and the recipes and configuration files, which are input.

Of the C and C++ code that recipes carry, only the USB driver is modelled.  About
two thirds of those lines are not program logic: five copies of the firmware tables
`spectrum_fw.h` (22,845 lines), a table of pictures (`gnome-stock-pixbufs.h`, 4,030)
and a parser that bison generated (`parser_yacc.cpp`, 2,048).  The rest are utilities
of one pass over their input (`serialdownload.cpp`, benchmarks, key tables) and
drivers without state of their own beyond a few registers (`x1205-rtc.c`,
`nslu2-io.c`, `sl811_cs.c`).

## Plan

1. `Parser` (class stack, `addtask`, a file that raises in the middle), `Event`, and
   `mrproper`'s nested `exec_task`.
2. Proofs: the types and the list of the parser, once it is a module; what `update_data`
   leaves, should the provers learn of folds.
