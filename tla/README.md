# pwshpy in TLA+

pwshpy is a typed Python library and command line for system work that is
usually done in PowerShell: processes, services, scheduled tasks, accounts,
files, events.  This project
models the parts that keep state over several steps and meet other processes,
threads, signals, failures or clocks on the way, where a unit test reaches few
of the orders in which things can happen, and the conversions between what a
caller asks for and what a platform is told.

All paths below are under `src/src/pwshpy/`; `native/` is `adapters/native/`.
`PROJECT.json` maps every definition to the lines it models.

## Inventory

| Part | State | Operations | What is hard | What makes it correct |
|---|---|---|---|---|
| Packed runner, POSIX (`native/templates/pack_runner.sh`) | cache directory shared by all runs of one pack, lock file, EXIT trap | hash the tree, lock, extract, release, `--pwshpy-clean`, judge what root runs, find and install uv, elevate, hand over to the shim | concurrent first starts, lock-free hashing while another process rebuilds the tree, death at any command | a script only runs from a complete tree; one extractor; no lock left by a process that ends by itself; every start ends; root runs only what was judged; the script gets the caller's environment |
| Packed runner, PowerShell (`native/templates/pack_runner.ps1`) | the same directory, a lock the OS releases, elevation hand-over files | the same, plus UAC relaunch and its relay | the same, plus two processes of different rights | the same |
| Packer (`native/packer.py`, `domain/packing.py`) | files found and still to read, the runner file | import closure, archive, hash list, unpack | the closure on a tree that is edited meanwhile, packages and namespace packages, relative imports, files that lead out of the tree | every module Python would load is embedded or reported; what was searched is what is packed |
| Process tree (`native/process_tree*.py`, `native/_tree_reaper.py`) | the tree, a helper process (POSIX) or a job object (Windows), a status pipe | launch, wait, kill, close | a tree that forks while it is killed, SIGTERM at every point of the helper, Ctrl-C, a helper that dies | result = the whole tree has exited, with the program's own code; timeout = the tree is dead, except what the caller may not signal |
| Bounded call (`native/bounded.py`) | a child process, a pipe | run, wait, receive, reap | the child dies before, while or after it sends; the timeout races the answer | no message lost, the child's own exit code, no child left, the call returns |
| Windows services (`native/service_control.py`) | the service (owned by Windows), a deadline per call | start, stop, restart, set startup | others control the service between any two looks | a restart renews, a stop stopped, no control into a pending state, calls return |
| systemd scheduled tasks (`native/systemd_timers.py`, `native/systemd_dbus.py`) | two unit files and a link on disk, systemd's loaded copy, an active timer | register, unregister, enable, disable, run, stop | every step can fail and leaves a mixture on which the next operation starts; reboots; timers that fire | a finished operation has done what it promises, whatever came before; foreign units are untouched |
| systemd services (`native/systemd_services.py`, `native/systemd_dbus.py`) | a job and the units in systemd | start, stop, restart, set startup, list | jobs end, done or not, and others begin between polls; units load and unload between the two passes of a listing, and systemd remembers names | a verb that returns waited for its job and tells the unit as it is; a listing has every service, once |
| POSIX accounts (`native/posix_account_control.py`) | the account database, a deadline and a progress report per call | create, remove, enable, disable, groups, members | a command after `useradd` fails or is killed half way | an account is never left open unless the error says so; the report is true |
| Elevation (`native/elevation.py`) | a relaunched process | decide, relaunch, hand the exit code over | refusals, a credential that expires between check and use | a command runs once, here or elevated, never unelevated by mistake |
| COM thread (`native/com_thread.py`) | one worker thread per call | run | hand-over of result or failure | exactly one of them arrives |
| Pipeline (`domain/pipeline.py`) | lazy stages | map, filter, group, ... | laziness | equals the list semantics |
| Hosted PowerShell (`adapters/powershell/hosted.py`) | lock, runspace or pool, ready flag | run, invoke, get_command, probe | threads race for the first start; a script that timed out still has the runspace | one runspace, one pipeline at a time, every call returns |
| Files and web (`native/fileio.py`, `native/record_json.py`, `native/web.py`) | a file half written | write_text, write_text_stream, write_records, invoke_web_request, download_file | a CR and its LF in two chunks, a source or a disk that fails half way, a connection that breaks, redirects | pieces do not show; a download is whole or gone |
| Task fields (`domain/scheduling.py`, `native/scheduled_task_control.py`, `native/task_readback.py`, `native/systemd_timers.py`) | a task as the platform stores it | check, write, read back | two platforms with opposite senses and other defaults; unreadable properties | a request is carried out or refused; what is read back was true |
| CLI and facade (`adapters/cli/`, `composition/facade.py`, `adapters/stdio.py`, `adapters/logging/setup.py`) | cached configuration, logging runtime, traceback preferences, a listing under way | every command | repeated calls in one process, a broken configuration, lazy sources that fail late, a reader of stdout that leaves | success means everything was written; a call leaves nothing behind |
| Readers, records, ports | none | one call each | nothing over time | out of scope |

The facade (`composition/facade.py`) calls one adapter per operation.  Adapters
do not call one another, with two exceptions: `run_process_tree` chooses the
POSIX or the Windows strategy, and `run_bounded` is used by adapters whose
library call has no timeout of its own.  Processes meet in the file system (the
pack cache, unit files), in the kernel (process trees, pipes, signals) and in
the service managers.

## Modules

| Module | Models | Kind |
|---|---|---|
| `PackTree` | the cache directory: its files, `rm -rf`, `mkdir`, `tar` writes | shared base, for both runner templates |
| `PackCache` | `pack_runner.sh`: warm check, lock, trap, recheck, extraction, release, signals | component, extends `PackTree` |
| `PackService` | what the cache promises: ready once, launched only when ready | abstract specification |
| `CleanService` | what is left of it beside `--pwshpy-clean`: withdrawn only by a start that discards, launched from less than all only by one that was looking meanwhile | abstract specification |
| `TrustWalk` | `pack_runner.sh`: what a root run trusts (`pwshpy_uv_distrust`, `pwshpy_python_dir_distrust`), against the kernel's path resolution | algorithm and reference |
| `RunnerStart` | `pack_runner.sh` from the arguments to the script, and the generated shim of `domain/packing.py` | component; the cache and the judgements are steps with an outcome, detailed in `PackCache` and `TrustWalk` |
| `ProcessTree` | `process_tree_posix.py` + `_tree_reaper.py` + the kernel's process table | composition of caller, helper and tree |
| `JobTree` | `process_tree_windows.py` + the job object | composition of caller and tree |
| `Bounded` | `bounded.py`: caller, child, pipe | composition |
| `ServiceControl` | `service_control.py` + the service control manager | composition |
| `Hosted` | `hosted.py`: threads, lock, runspace, pipelines with a timeout | composition |
| `SystemdTasks` | `SystemdScheduledTaskController` + systemd | composition |
| `TaskLookup` | `iter_timers`, `_lookup_unit` while a controller works | composition, extends `SystemdTasks` |
| `TaskFields` | what a task is asked to be, what each platform is told, what is read back | conversion and reference |
| `SystemdServices` | `systemd_services.py` + systemd | composition |
| `PosixAccounts` | `posix_account_control.py` + the shadow-utils commands | component |
| `Packer` | `pack_script`, `unpack_script` on a tree others edit | component, against what Python loads |
| `Web`, `Files` | `web.py` over urllib; `fileio.py`, `record_json.py` | components |
| `Facade` | the operations of `Ps`: lazy, immediate or changing; platforms and arguments refused | tables, no state |
| `Commands` | every CLI command as the order of what its body does: the relation `Registered`, and `Commands` as a function | tables over `Facade` |
| `Cli` | `main`, root group, configuration, logging, elevation, output, exit codes | component, extends `Commands` |
| `MCPackCache`, `MCTrustWalk`, `MCCli`, `MCProcessTree`, `MCPacker`, `MCPackTrees` | model values, symmetry and inputs for TLC | |
| `MCWaits` | `ProcessTree`, `JobTree`, `Bounded`, `ServiceControl`, `Hosted` in one run | see below |
| `MCRunner` | `RunnerStart`, `Packer`, `Web`, `Files` in one run | see below |
| `MCAdministration` | `TaskLookup` over `SystemdTasks`, `TaskFields`, `SystemdServices`, `PosixAccounts` in one run | see below |
| `PackCacheProofs` | theorems about `PackCache` | proofs |
| `TrustWalkProofs` | theorems about `TrustWalk` | proofs |
| `WaitsProofs`, `RunnerProofs`, `CliProofs` | theorems about `MCWaits`, `MCRunner` and `Cli`, for every value of their constants | proofs |
| `Induction` | induction over sets of numbers, recursive functions, and what a flattened sequence is | lemmas, for `RunnerProofs` and `TrustWalkProofs` |
| `TaskProofs`, `AdministrationProofs` | lemmas about `SystemdTasks` and `TaskLookup`; theorems about `MCAdministration` | proofs |

Components that never meet are checked together: in `MCWaits`, `MCRunner` and
`MCAdministration` a variable `which` is chosen in the initial state and never
changes, the first component has its own variables and the others share a pool
`x1 .. xN` through `INSTANCE ... WITH`.  A behaviour is one of a single component, so the state
space is the sum of theirs, not the product, and each property is the
component's own, guarded by `which`.  `Fair(i)` of `MCWaits` has, for each
number `i` in `Parts`, at most one step of every component, so that within a
behaviour it is exactly one of that component's fairness conditions.  The
constants of these modules (processes, callers, threads, argument vectors,
trees, requests, services) are parameters like any other's: the theorems below
are about `WaitsSpec`, `RunnerSpec` and `AdminSpec` for all of their values, and
a component's part of such a behaviour is a behaviour of the component alone.

How state corresponds:

- **PackCache.** One step per shell command.  `pc` is the command a process is
  at, `at` its position in the hash list (or in the archive), `attempt` the
  counter of the waiting loop, `trap` the processes whose EXIT trap is set.  A
  file is `missing`, `wrong` or `right` compared with the digest embedded in the
  runner; `rm -rf` removes one entry at a time in no particular order; `tar`
  creates a member (wrong) and then completes it.  The archive's members and the
  hash list are in the same order because `_build_tar_archive` and `pack_script`
  sort the same names: `MemberAt` and `HashedAt`.  `payload` is what was
  embedded: intact, damaged in transit, or consistent with its sha256 and not
  with the hash list.  A process that died can leave any tree, so any tree is
  initial.
- **TrustWalk.** A path is a sequence of components, a node is root's own, sticky,
  writable by others, with an ACL, or another account's.  `cur`, `next`, `rest`
  and `hops` are the shell's variables.  `Resolve` is what the kernel does with
  the same path, one component at a time (`ResolveOne`): the directories it is
  in, what it has still to look up, and what it has seen.  The file system stands still during the judgement.
- **RunnerStart.** `env` maps variables to values known by who chose them; one
  variable stands for each group the code treats alike (dropped, set to the
  account's own, handed over to the script).  `accepted` and `ran` record what
  was judged and what was run, `saw` the variables that were not right when uv or
  git ran as root.  A relaunch under sudo is the same start again, as root, with
  the arguments the runner puts together.
- **ProcessTree.** `proc` and `parent` are the kernel's table with zombies,
  orphans and adoption; `helper` is where `_tree_reaper.main` is; `terms` a
  pending SIGTERM; `status` the messages in the status pipe.  The kill loop is
  modelled by its reads of `/proc`, one process each, and its signals, one each,
  while the tree goes on.  `foreign` are the processes that have run under another
  user id (`SetUid`: sudo, a set-user-id program) and what they have started since: a
  signal to one of them may be refused (`_signal_quietly`), or not, because a
  process may give the other id up again.  `Linux` chooses subreaper or process group.
- **JobTree.** `job` are members of the job object, `away` those that broke
  away as `BREAKAWAY_OK` lets them.
- **Bounded.** `writers` are the open write ends: the parent's, the child's, and
  on Windows the duplicate that `spawn` makes for the child to fetch.  `slow`
  says that a child outlives both grace periods.
- **ServiceControl.** `instance` counts the instances of the service, so that a
  property can say "another one"; `moved` records that the service changed
  state since the call looked.
- **SystemdTasks.** `disk` against `mem` (what systemd has loaded), `armed` and
  `running` for the active units, `plan` the steps of the operation under way,
  any of which may fail and end it there.  A unit file is its author and its content, or
  torn by a failed write.  `static` says that the timer has no `[Install]` section
  and that another unit wants it: such a timer has no link, is armed whenever
  that unit starts (`PullIn`, at boot too), and is somebody else's.
- **TaskLookup.** `look` is the reader and the answer it is putting together,
  one question to systemd per step; `saw` and `steady` are ghosts that record
  what the task has been since the call began.  The answers to a missing unit,
  a refused read and a unit that is loaded without a file are the code's.
- **TaskFields.** A request has an account, a logon type, a level, triggers and
  six settings, each `unset` or a value.  A trigger is `[kind, at, offset, every,
  who]`: local time in half seconds (so that there are fractions), how far its zone
  is ahead of UTC, every how many days.  `Definition` and `UnitFiles` stand for the
  two writers: Windows keeps local time and offset, systemd gets UTC, a daily
  trigger only a time of day, and both lose fractions of a second.  `StartsAt` says
  when a written trigger starts the task and `MeantAt` when the request means it.
  `Behaves` is what the platform does with a stored task (external).  The read-back
  goes property by property; `held` records every value a field has had since the
  write, and `"unseen"` if an edit gave it one that the readers say they do not see.
- **SystemdServices.** `job` is the pending job of a unit and the client polls.  A
  start ends done, failed (the unit is then failed), or undone: a dependency or an
  assertion kept the unit from starting, or it died and waits for `Restart=`
  (activating).  `outcome`, `wasDown`, `renewed` and `meddled` are ghosts of what
  happened to the unit, `report` the state the verb returns.  `load` is the
  `LoadState` systemd holds a unit with, apart from `file`: it comes from the file
  when the unit is loaded, from a unit that refers to it, or from a
  daemon-reload, and a name once not found may be answered so again although
  its file is there.  A listing is two passes with `seen` and `todo` as in the code.
- **PosixAccounts.** A command is one step with three outcomes: done, refused,
  or killed by the deadline with its work done or not.  A `bare` account has no
  password: `usermod --unlock` warns, leaves it and exits 0.  `progress` is
  `_NewUserProgress`, a set of statements.
- **Hosted.** `pc`, `shell` and `pipeline` per thread; the worker thread of a
  call with a timeout is its `pipeline`.  A host is numbered in the order hosts
  are opened; `last` is the ghost that names the one that served last.
- **Packer.** A file is a dotted name and whether it is `__init__.py`; its body
  is the set of its import statements.  `searched` and `steady` are ghosts.
  `PythonLoads` is the reference: the modules the import system would load.  A file
  that is not Python (`IsPython`) refuses the pack.
- **Web, Files.** A body is a number of chunks, a text a sequence of characters
  of which CR, LF and one that cannot be encoded are told apart.  `written` is what
  was handed to the buffered file, `file` and `torn` what the disk has of it: a
  disk that refuses keeps any beginning, which may end inside a character or a
  record (`KeepsABeginning`), at a write or at the close.
- **Cli.** One call of `main` after another; `step` walks the list of steps
  `Commands` gives the command.  `files`, `dotenv` and `reader` belong to others
  and change at any time.  `log`, `prefs`, `logvars`, `cached` and `cachedOwn`
  survive a call, as the globals of the process do.  The exit code of a program, of
  an elevated child and of a relaunch under sudo is passed on as it is, so no code
  tells why a call ended: the ghost `cause` does (the configuration, elevation
  declined, its directory refused).

## Runs

| Run | Bounds | Shows |
|---|---|---|
| `pack_cache` | 3 starts, 3 files, 2 waiting rounds, 2 deaths by signal, I/O errors | safety of the cache without `--pwshpy-clean`, and refinement of `PackService` |
| `pack_cache_clean` | 3 starts, one with `--pwshpy-clean`, 2 files, 1 waiting round, 1 kill | exclusion survives an unlocked removal of the tree; refinement of `CleanService`; every start ends, behind a stale lock too |
| `trust_walk` | every path of up to 3 components, 2 links with 30 combinations of targets, at most one node not plainly root's, 2 hops | the walk accepts only what the kernel resolves through root's own nodes, refuses no program for nothing, and ends |
| `cli` | one command of every sort, each plain and with both JSON formats, one of each kind with every other flag; programs and children that exit with 0, 1, 2, 70, 77 or 78; 2 records, tables of 1 row | success is complete, a broken configuration stops only its readers, an elevated command runs once, nothing is left behind |
| `waits` | trees of 3 (POSIX) and 4 (Windows) processes, 3 kill rounds, one process that may change its user id, 2 Ctrl-C, a helper that may die; a bounded call on both platforms; 2 callers and 1 foreign control of a service; 3 threads with a call each | a result means the tree is gone, a timeout that what may be signalled is dead; no message, exit code or child is lost; a restart renews; one runspace serves all; every call returns |
| `packing_and_files` | 10 argument vectors, 6 caller environments, 3 places of a uv; a package or namespace package with two modules and 1 edit, a file that is not Python among them; 2 redirects and 2 chunks; texts of 3 chunks, 3 records, a disk that refuses at any of them | judged before run, the caller's environment and arguments for the script; the pack is complete; a download is whole or gone; pieces do not show |
| `administration` | 2 registrations, 1 reboot, every step may fail, one reader beside them; 127 requests, looked at from 153 moments of three days, and 2 edits; 1 unit with a second client and any `LoadState` to begin with; 1 account and 1 group | operations after any history, reads beside them, requests and read-backs, verbs and listings, half-made accounts |
| `process_tree_abort` | Linux, 1 Ctrl-C | **violated**: a second SIGTERM ends the kill loop |
| `bounded_torn` | POSIX | **violated**: a torn message is a bare `OSError` |
| `systemd_tasks_boot` | as `administration`, only Reload fails | **violated**: `enable` starts a boot timer |
| `hosted_probe` | 2 threads, 1 probe | **violated**: a second runspace |
| `pack_shadow` | `p.py` beside `p/__init__.py` | **violated**: the module is embedded, Python loads the package |

Why the bounds suffice.  Three starts are one that extracts, one that waits and
one that arrives late; three files are one already read, one being read and one
unread.  Two rounds of the waiting loop are a wait and a time-out (the code has
600: `MaxAttempts`).  `MaxRounds` stands for the ten seconds of the kill loop:
of three processes each round but the last finds one that dies or one that turns
out not to be the caller's to signal, and with one round the timeout property is
violated, so that the bound is large enough and the race is there.
Three processes give a parent killed between the reading of its own and of its
child's entry, and a child forked after both.  Each verdict of the trust walk is
a conjunction over the nodes of the path, so one bad node at a time shows that
each is looked at; two hops stand for the 40 of the code and of the kernel.
Two registrations suffice for a file that differs from the loaded one.  The
moments are every hour of three days, ten minutes later, and the half second of the
trigger itself: a trigger two hours ahead of UTC, at midnight too, so that the day
and the hour differ between the zones.  The two
callers of a service are alike, so their verbs are taken in one order only.
Three threads are one that starts the runtime, one that waits and one whose call
times out.  Two records and one table row are a listing that is cut by the row
limit, and one that fails between two records.  Three chunks are one that ends
in a CR, an empty one and one that begins with the LF.  Commands with the same
steps, whose operations are of the same sort, differ in nothing but their name:
`MCCli` takes one of each (`OfSort`).  Two chunks of a body are enough for a
connection that breaks at the start, in the middle and before the end.
Systemd's units do not share state in these operations, so a listing and a verb
meet one unit at a time.  Counters that only bound the model (`deaths`,
`interrupts`, `foreign`, `regs`, `reboots`, `edits`, `calls`) are constants of
the configuration.  Symmetry is used in runs without a liveness property only,
over the processes that are interchangeable.

Deadlock is not checked: every one of these systems may stop (all starts have
ended, the call has returned).  That they do not stop early is what the
liveness properties check.

The type invariants (`TypeOK` of each module) and the inductive invariants of
the proofs (at the end of each module, under "the inductive invariant of the
proofs") are not among the runs' properties: they are what the properties rest
on, and TLC finds them true under the configurations of these runs as well.

Fairness:

- `PackCache`: weak fairness of each process's own commands; nothing is assumed
  of signals, of `--pwshpy-clean` or of a process that is dead.
- `ProcessTree`: the helper and the caller are scheduled, a pending signal is
  delivered, the deadline passes.  Nothing is assumed of the tree: it may live
  for ever.
- `Bounded`: the caller runs, the child's bootstrap, a send once begun and its
  shutdown make progress, a kill takes effect; the *target* need never return.
  The call may be `patient` (no timeout): that a dead child is noticed is shown
  for those too, that the call returns whatever the target does only for a call
  with a timeout.
- `ServiceControl`: a call runs and its clock does; the service may hang.
- `Hosted`: a thread in a call goes on to its next step, and is given the lock
  when nobody holds it; each step of a thread is the interpreter's to schedule.
  A script without a timeout is taken to end, and so is a pipeline that was told
  to stop; a lock that is freed again and again is shared by three threads with
  a bounded number of calls, so that weak fairness is enough.
- `TrustWalk`: one process that goes on to its next command.
- `Cli`, `RunnerStart`, `Packer`, `Web`, `Files` and the modules of
  `administration` state no liveness property and no fairness.

## Proofs

TLC checks the instances of the table above; the theorems hold for every value
of the constants that the named assumptions allow.  TLC evaluates the
assumptions in the runs.

| Module | Assumptions on the constants |
|---|---|
| `PackCacheProofs` | `TreeAssumption`: at least one packed file; `CacheAssumption`: types |
| `TrustWalkProofs` | `WalkAssumption`: a node is a directory, a file or a link, the root is a directory, a lock file is a file; a link's target has at most `MaxTarget` components (`PATH_MAX`), any number |
| `WaitsProofs` | `TreeOfProcesses`: the program is a process of the tree, and neither the helper nor init is, any of them may change its user id; `WaitsAssumption`: types of the other components' constants |
| `RunnerProofs` | `StartAssumption`: argument vectors are sequences of strings, at least one fixed place of a uv; `RunnerAssumption`: the entry script is in every tree, trees and edits are made of imports as Python's grammar has them, a text's chunks of characters, a record has no key twice |
| `AdministrationProofs` | `TasksAssumption`: types; `AdministrationAssumption`: every request is one that the models of `domain/scheduling.py` can be built with, its zones whole seconds from UTC; the moments are integers |
| `CliProofs` | `CliAssumption`: every call is of a registered command; at least one row in a table; programs exit with any set of codes within 0..255 |

Each proof has the same shape: an inductive invariant as a conjunction of named
parts, one lemma for each part with one step per action, a lemma that combines
them (`WaitsInvariant`, `RunnerInvariant`, `AdminInvariant`, `CliInvariant`), and
theorems that are one step from it.

### The pack cache (`PackCacheProofs`)

- `LockSafety`: types, and no lock file of a process that ended by itself or
  went on to run, also with `--pwshpy-clean`;
- `OneExtractorBesideClean`: extraction is exclusive beside `--pwshpy-clean`
  too, where no TERM meets a shell that runs its EXIT trap on it
  (`~TrapOnSignal`, or no `"term"` in `Signals`).  That hypothesis is needed: a
  TERM between the removal of the lock file and `trap - EXIT` runs the trap
  and removes the lock of the successor, and with `--pwshpy-clean` the tree may
  be incomplete at that moment;
- `RunnersBesideCleanServe`: under the same hypothesis, with any number of
  starts with `--pwshpy-clean`, `PackCache` implements `CleanService`;
- `CleanIsOverIsKept`: once no start discards any more and no hashing goes on
  that one has interfered with (`Settled`), a complete tree stays and nothing
  but a complete tree is run;
- `ColdStartSafety`: without `--pwshpy-clean`, a script runs only from a
  complete tree, and extraction is exclusive, whatever signals there are;
- `VerifiedTreeIsKept`: without `--pwshpy-clean`, no step takes a complete tree
  away;
- `ColdStartImplementsService`: without `--pwshpy-clean`, `PackCache`
  implements `PackService`.

"Complete tree when the script runs" is not inductive: a process checks one file
at a time with no lock, so when it reads the last one, what it knows of the
first is old.  The invariant `IInv` carries the argument why that is sound:

1. `SafeInv`: lock file, trap and program counter agree.
2. `LockInv`: while the tree is incomplete, whoever is behind the lock owns the
   lock file, and a process that extracts is the only one there.  A process can
   remove another's lock file (its trap runs after its `rm`), but only when the
   tree is already complete, when nobody extracts any more.
3. `ExtractInv`: during extraction exactly the members before the current one
   are right.  Archive order equals hash-list order.
4. `VerifyInv`: of a process that hashes, either all files read so far are
   right, or some file still to be read is not.  A file that was right when it
   was read can only have gone by the removal of the tree, after which the files
   come back in hash-list order: until the tree is complete again a later file
   is not right, and the check will meet it.

`--pwshpy-clean` breaks step 4, and with it the promise itself.  A start has
read the first file of a complete tree; `rm -rf` without the lock takes that
file away; an extraction under way goes on with the last one, or the last one is
still there; the start reads it and runs its script from a tree without the
first.  TLC shows such a run at once, so the weaker promise has to name the
starts it can happen to.  `CleanService` does that with `misled`: a set that can
grow only while a start discards, and only by starts that are looking then.  The
refinement mapping needs no history for it.  A process is `Misled` when a file it
has read is gone while every file it has still to read is right, or when an
extraction has gone past the file that is gone (`Lost`), so that the rest may
become right without it.  The invariant `CleanInv` carries the proof:

1. `HolderOwnsLock`: whoever is behind the lock owns the lock file.
2. `Remade`: when an extraction removes the tree some file is not right; from
   there to the end of `tar` no file from the current member on is right; a `tar`
   whose directory was removed finds nothing left.  So the removal under the lock
   and `tar` mislead nobody who is not misled already, and a complete tree is
   never taken away by an extraction, only by `--pwshpy-clean`.

`misled` is empty of a process whenever it begins a look, so that a start that
begins after the last `--pwshpy-clean` has finished is promised what it is
promised without one.

`VerifiedTreeIsKept` and `CleanIsOverIsKept` say plainly what the two refinements
imply; the runs check the refinements.

A packer that wrote the archive in another order than the hash list would break
step 4: the mutant `MemberAtReversed` makes TLC violate it.

For `payload = "mismatched"` (a pack whose files contradict its own hash list)
the tree never becomes complete, so `LockInv` and `OneExtractor` are stated for
the other payloads: on that path a process that ends between the two commands
of `pwshpy_release_lock` does remove its successor's lock.  No script ever runs
from such a pack.

### The trust walk (`TrustWalkProofs`)

`AcceptedIsRootsOwnAlways` and `RefusedForAReasonAlways`: for any file system,
path, number of links to follow and colouring of the nodes.  The two sides go
through the path in different ways: the kernel keeps the directories it is in,
the shell a text, which it hands to `ls`, `test -L` and `readlink` anew for every
look, and the kernel resolves that text again from the root.

1. The operators.  `ResolveEnds`, `ResolveUnfolds`: a resolution ends, with all
   that was seen on the way, and one step more or less does not change where.
   `AlongLstat`: names that lead through directories are resolved to the last of
   them, so a look at the shell's text is a look at the kernel's directory.
2. The invariant `WalkInv`.  `Follows`: wherever the walk is there is a state of
   the kernel's resolution with the same end that stands in the directory `cur`
   names (`Along`), has the same components to go and links left (`Beside`), and
   has seen nothing but what was judged (`Judged`): all fine if no ancestor is
   suspect, one that is not if an ancestor is.  `Asked`: what the climb left out of
   the subject is missing.
3. The kernel may have failed while the walk goes on: a link can lead through a
   regular file as if it were a directory, which the walk does not notice.  Of
   such a subject `Follows` keeps only that everything seen was judged.  For a
   program it cannot be (`NotLost`: `test -f` came first).

### Calls that wait (`WaitsProofs`)

- `ResultMeansTreeGoneAlways`: for a POSIX tree of any size and shape.  What the
  helper knows when `waitpid` has no child left is about its own children only.
  `SubreaperInv` says why that is enough on Linux: while the helper is there,
  no set of living processes holds the parents of all its members, so every one
  of them descends from the helper, and a helper without children has no
  descendants.  Without a subreaper the promise is about the program's process
  group (`ReportInv`).  `RootInv` and `ReportInv` tie the message in the status
  pipe to `code`, and that to the program's own exit; `TreeInv` is all of this.
- `TimeoutKillsTreeAlways`: on Linux, with `Procs` finite and
  `2 * Cardinality(Procs) <= MaxRounds`: the deadline of the kill loop
  (`_KILL_SECONDS`) admits a round for each process to die in and one for each
  to change its user id in (`Fates`).  It concludes that nobody is left but
  processes under another user id and what they started (`TreeAlive \subseteq
  foreign`): `_signal_quietly` passes over a refused signal, so a loop that meets
  one runs out its deadline with that process alive.  `Doomed` are the processes
  that this round will have reaped when it ends; `RoundInv` says that a round
  which finds somebody alive that may be signalled has one of them, or one
  changes its user meanwhile, so that what can still happen and the rounds
  done are together no more than `Fates`, and the loop ends by its deadline only
  when all that is left is `foreign`.
  `EmptyInv`: the helper ends only behind such a tree.  `SignalInv` says that
  one SIGTERM comes, unless Ctrl-C ends the call (finding 1), so that no second
  one cuts the loop short.
- `JobHoldsTheTreeAlways`: for any tree, with a failure of every call.
  `StartsInJob` and `TreeIsInJob`: only a process that broke away is not in the
  job, and the program itself starts suspended.
- `ChildIsAccountedForAlways`: `ChildCanSend`, `WaitsForAChild` and
  `GivenUpIsDead` relate the writers of the pipe, the message and the child.
- `WhatRunsIsNewAlways`, `RefusedOnlyIfItMovedAlways`: for any number of callers
  and foreign controls.  `SentWhenSettled`: a control goes out into a settled
  state, or `moved` says that the service has moved since the look;
  `StopThenStart`: a stop, and the stop half of a restart, ends where the service
  has stopped since the call began.
- `OneRunspaceServesAllAlways`: for any number of threads and calls, with
  `Probers = {}`; a prober breaks it (finding 4).  `ServedUnderTheLock`: without
  a pool, the thread that has taken the runspace has the lock until its pipeline
  has ended or was stopped.

### The packed runner and the packer (`RunnerProofs`)

- `RootRunsOnlyJudgedAlways`, `UvSeesOwnSettingsAlways`,
  `ScriptSeesCallersAlways`, `UnpackIsRootsOwnAlways`: for all argument vectors,
  caller environments and numbers of places.  `StartInv` says of each section
  of the runner what is behind it: what was judged (`SectionInv`), the umask
  (`UmaskInv`), and variable by variable where the caller's value is
  (`EnvInv`), because a section that goes wrong shows only in a later one.
- `RequestSurvivesAlways`: for vectors of any length, across the relaunch.
  The arguments are consumed one at a time and put together again for the
  elevated process, so the invariant `RequestInv` says where in the original
  vector the parsing is (`ParsedTo`), or which of the passed-on switches the
  elevated process has still to read (`RelaunchedWith`).
- `PackIsCompleteAlways`: for any trees, bodies and number of edits, under
  `NoTwins`: the trees do not have both a `p.py` and a `p/__init__.py` (finding 5).
  `WalkInv`: a file that was searched is found, and none that is pending is;
  `NamesInv`: a steady name of a searched file is resolved to files that are
  found or pending, or is reported.
- `DownloadIsWholeOrGoneAlways`: for any number of redirects and chunks.
- `PiecesDoNotShowAlways`: for chunks and records of any length, number and
  content, and a disk that refuses anywhere.  It says what the file is where the
  call ended well or the source failed, and where the disk refused that it is
  a beginning of that, whole but for the last character or record.  The property
  compares the file with a function of the whole input, so the proof has two
  halves.  The operators: `NormalizeIsExpected` (the pass
  over a text, two characters at a time where it meets a CRLF, writes what the
  reference writes), `ExpectedConcat` (a text cut anywhere but inside a CRLF is
  written in parts), `RepairedKeys` (as many names as keys, no two the same).
  The steps: `StreamInv` says that a stream has written all it took but a CR
  that waits, `RecordsInv` what is at each position of a file of records,
  `LengthInv` how much that is for each way a call can end, and `DiskInv` that the
  disk has it, a beginning of it, or the old file.

The library's induction theorems take an operator as a parameter and cannot be
cited here.  `Induction` states induction for a set of numbers instead
(`SetInduction`, `StrongSetInduction`, from the least element of a set), and for
a function that is defined by recursion that there is one (`PrimitiveRecursion`);
every recursive definition of `Files` is unfolded with it.

### Tasks, services, accounts (`TaskProofs`, `AdministrationProofs`)

- `RegisterMakesTaskAlways`, `UnregisterLeavesNothingAlways`,
  `ForeignUnitsStayAlways`: for any number of operations, failures and reboots.
  An operation's promise is about its last step, but rests on all of them, and
  systemd may reload, boot or start the timer between any two.  `PlanInv`
  says which steps can still be to do (`StepsOf`, ordered by `Rank`);
  `RegisterInv`, `UnregisterInv` and `EnablingInv` what those no longer to do
  have left on disk, in systemd and running.
- `QuietStaysQuietAlways`: a quiet task has no active timer and no link that a
  boot would follow, is not static, and no register or enable is under way
  (`WorldInv`).  A static timer is refused by enable and disable
  (`ScheduleRefused`, whose docstring gives this property as its reason); the
  mutant that disables any timer violates the property.
- `ReadsTellTheTruthAlways`: beside any operations.  `LookInv`: everything the
  task is was seen, and a timer that came after the reader asked for one was
  preceded by its service, which register writes first.
- `GetsWhatItAskedAlways`: for every request that can be built, on both
  platforms, at every moment: an accepted request starts the task when its
  triggers mean it and behaves as each setting asked for says.  Two exceptions are
  in the definition of `StartsWhenAsked`, and both are the code's: a fraction of a second is
  cut, and on Linux a daily trigger starts on the first day there is, also
  before its date.  `WrittenInv`: the stored task is what the writer makes of an
  accepted request until it is edited.
- `ReadBackIsTrueAlways`: for the same requests and any number of edits, which may
  put in what the readers do not look at.  `ToldInv`: each property that was
  answered says what the task did at some time.  Where the readers say that they
  do not see a thing (`Unseen`), the property allows what they suppose
  (`Supposed`) and nothing else: a `DynamicUser=` service without `User=` is told
  as root's (`systemd_timers.py:307`), a condition with `|` or `!` is passed
  over, so that a start is told as allowed, never as forbidden; and the time limit of
  a service takes two reads (`Type` and `TimeoutStartUSec`), between which the unit
  can cease to be a oneshot.
- `VerbWasDoneAlways`: with nobody else acting on the unit (`~meddled`).  A start
  or restart returns when its own job is over and the unit was not left failed.  A
  job that was *undone* left the unit inactive or activating, which
  `_refuse_a_failed_unit` lets pass: for that case the property says that the
  state returned is not told as running, and of a restart without a new
  instance as inactive.  `JobInv`: the job the client waits for is the unit's
  last, or over.
- `ListsEveryServiceAlways`: for any set of units, with any `LoadState` systemd
  holds them with.  `ListInv`: a service whose file stayed is yielded, or still to
  come, or the second pass is.  A name `LoadUnit` answers as not found in the
  second pass is passed over, as the docstring says; a listing that marked such a name
  seen in its first pass would lose it, which is the property's mutant.
- `NeverOpenUnsaidAlways`, `ReportIsTrueAlways`: `NewUserInv` says what each
  command of `new_user` finds.  Of an enable that returned the property says that
  the account is open or was without a password.

### The command line (`CliProofs`)

For every command and option, any number of calls, records and rows:

- `NothingLeftBehindAlways` from `PrefsInv`;
- `RunsOnceAlways` from `RunsInv`: as long as the step that runs the command is
  among the steps left (`StepsLeft`), it has not run.  This needs of the command
  table that no body runs its command twice, which is proved of `Registered`;
- `SuccessIsCompleteAlways` from `OutputInv`: what was pulled is written, unless
  the reader has gone or an exception is on its way;
- `BrokenConfigStopsOnlyItsReadersAlways` from `CodeInv`.

Both are about `cause`, with the code that goes with it.  The converse does not
hold and is not claimed: a program may exit with 70, 77 or 78 itself, as the
comment at `adapters/cli/root.py:126` says.

### Only model-checked

- Liveness: `EveryStartEnds`, `EveryCallReturns`, `JudgementEnds`.  The prover
  has no fairness rules.
- What is violated (the last five runs) is shown by TLC's counterexamples.

## Where code and text disagree

Each has a run that TLC shows violated and an entry under `findings`.

1. `process_tree_posix.py:225`: Ctrl-C while `kill()` waits sends a second
   SIGTERM, which ends the helper's kill loop.
2. `bounded.py:167`: a child that dies in the middle of a long message gives an
   untyped `OSError`.
3. `systemd_timers.py:1560`: `enable` decides on the loaded unit before it
   reloads, and can start a boot timer at once.
4. `hosted.py:134`: `is_runtime_available` starts the runtime without the lock;
   beside a first call it opens a second runspace, which replaces the first.
5. `domain/packing.py:801`: with `p.py` beside `p/__init__.py` the packer embeds
   the module where Python loads the package.

Limits that the models contain and no run is kept for:

- `pack_runner.sh:278`: the EXIT trap does not release the lock under a shell
  that does not run it when a signal ends it (dash: `TrapOnSignal = FALSE`);
  later starts wait the lock out and fail.
- `_tree_reaper.py:310`: without a subreaper, a SIGTERM inside `Popen` leaves the
  program running although the timeout says the tree was killed.  `TimeoutKillsTree`
  is therefore stated for Linux.
- `process_tree_windows.py:121`: Ctrl-C between the suspended start and the
  assignment to the job leaves a suspended process; `MayInterrupt` in `MCWaits`
  leaves that one point out.
- `service_control.py:175`: a start that has failed is reported, after the whole
  timeout, as one still on its way.
- `systemd_timers.py:1449`: a failed write truncates the unit and with it the
  proof that pwshpy wrote it; register and unregister refuse it from then on.
- `pack_runner.sh:482`: a program whose path ends in a link to `.` or `..` is
  refused as root whoever owns it, because the link itself is listed.
- `pack_runner.sh:467`: the walk takes whatever is not a link for a directory.  A
  directory that does not exist is judged by the nearest path that does, a
  dangling link included; if that link leads through a regular file
  (`/l -> x/f/../g`), the walk accepts it where the kernel finds nothing.  Nothing can
  be created there, and all the kernel saw is root's: `RootsOwn` asks no more of
  a path that leads nowhere.
- `systemd_timers.py:731`: a timer that runs although its file is gone
  (`LoadState` not-found) is listed and not found by its name, as
  `tests/test_systemd_timers.py:1356` expects of the listing; a timer that was
  stopped and then masked is listed and not found by name either.
  `ReadsTellTheTruth` speaks of timers whose file was in place all the time.
- `systemd_services.py:248`: the second pass of a listing loads the units of the
  files.  A name systemd remembers as not found is looked up again since version
  246; an older one answers not found and the name is passed over, as the
  docstring at line 195 says.  `ListsEveryService` excepts it.
- `systemd_services.py:380`: only a unit that is failed refuses a start or
  restart.  One that a dependency or an assertion kept from starting, or that
  waits for `Restart=`, is returned as done, with its state in the record.
- `_tree_reaper.py:225`: a signal that is refused is passed over, so a descendant
  under another user id outlives the kill loop, after its ten seconds; the error
  (`process_tree.py:188` and 206) still says that every process of the tree was killed.
- `fileio.py:118`: the docstring says that each chunk is newline-complete and
  normalized by itself; lines 151 to 161 carry a CR over to the next chunk, which
  is what `PiecesDoNotShow` relies on.  Lines 133 to 135 say that the chunks before
  a failure stay written, which a buffer that cannot be flushed does not keep.
- `domain/scheduling.py:195`: a daily trigger starts "at `at`"; on Linux it runs
  from the next such time of day on (`systemd_timers.py:1207`), as
  `docs/library-usage.md:203` and `docs/cli-reference.md:285` say.
- `posix_account_control.py`: `set_user_enabled(enabled=True)` returns enabled for an
  account that has no password and stays locked, because `usermod --unlock` only warns.

The properties name these cases where they meet them and except nothing else.

## Not modelled

- Text and layout: the rendering of unit files, of the runner and the shim, of
  JSON and tables, help texts; the wording of calendar expressions (what they mean is
  in `TaskFields`); path names.
- `pack_runner.ps1`: the same cache protocol with a lock that the OS releases,
  and a UAC relaunch in PowerShell.  `PackService` states what it promises too.
- `com_thread.py`: one worker per call, joined without a timeout, so that
  nothing interleaves.
- `records.py`, `enums.py`, `ports.py`, `errors.py`: declarations.
- `marshal.py` (except for the task fields), `known_folders.py` and the readers:
  one call and a mapping of its result, with no state of their own.
- The walk over Task Scheduler's folders, and its verbs other than register: one
  COM call each.
- The merge of configuration layers, which a library does, and the parsing of
  `--set`: a refusal in `Cli`.
- The pump threads of the process tree's standard streams.

The reasons are under `components` in `PROJECT.json`.  The tables of `Facade` and
`Commands` name every operation and command; `PROJECT.json` maps each to one body
of every kind in it, because the others differ in their names only.

## Plan

The model is complete as far as the list above says, and every invariant and
action property of a passing run has a theorem.  Left to TLC are the liveness
properties, which no proof here can reach.
