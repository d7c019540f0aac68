# mlx-spark: a verification project

TLA+ models of the parts of mlx-spark whose correctness depends on order:
system calls, network requests, threads of a CUDA block, reads of files that
other programs are changing. TLC checks the models on small instances; TLAPS
proves what matters most for every value of the constants. `PROJECT.json` maps
every definition to the lines it models and lists runs, mutants, hazards and
theorems. Paths below are relative to the repository.

How to run, in this directory:

    tlc -config AtomicWriteNewSafety.cfg MCAtomicWriteNew.tla
    tlapm AtomicWriteNewProofs.tla

## 1. The system

The repository is the scaffold of an independent MLX-like framework for DGX
Spark: reference oracles in Python, one CUDA kernel, contracts, and the tools
that resolve, review, fetch and audit the sources and evidence. It has no
server and no threads of its own in Python. Concurrency enters through the file
system, through hosts whose refs move, through the GPU, and through several
people or agents running the same tool.

| Component | State it keeps | Operations | Hard because | Correct when | Modelled |
|---|---|---|---|---|---|
| Lock publication, `tools/resolve_sources.py` 621-678 | a temporary file, the output name | `output_exists`, `atomic_write_new`, `run` | racing runs, kills, power loss, failing calls | the output is one whole lock, never replaced, and success means it is ours | `AtomicWriteNew`, `PublishOnce` |
| Source resolution, same file 100-618 | candidate, revision in progress, payloads, collected lock | `validate_candidate`, `resolve_*`, `audit_*`, `build_lock` | refs move between dozens of requests; any may fail | a lock is about one audited revision per source | `SourceResolution` |
| Reference checkpoint, `reference/training.py` | checkpoint file, weights | `save_reference`, `load_reference`, `analytic_sgd` | kills, power loss, two trainers on a path | a reader sees a whole checkpoint; a returned save stays | `ReferenceCheckpoint`, `CheckpointStore` |
| GDN decode kernel, `native/cuda/gdn_decode_reference.cu` | shared array, registers, next state, y | launch checks, `step` | threads, barriers, index arithmetic | no race, no divergent barrier, the recurrence of the row | `GdnDecodeKernel` |
| Qwen cache probe, `tools/probe_qwen_cache.py` | best entry per revision | `probe`, `_probe_snapshot`, `_read_index` | files arrive while they are looked at | the report affirms only what is so and misses no whole snapshot of the kind it looks at | `CacheProbe` |
| Doctor, `runtime/doctor.py` 115-289 | context, finite levels | `_resolve_cgroup_context`, `_cgroup_memory_from_hierarchy` | hybrid hierarchies, unreadable files, moving usage | the headroom overstates no level that constrains the process | `CgroupHeadroom` |
| Upstream fetch, `tools/fetch_upstream.py` | destination directory | read lock, exists, mkdir, five git calls | check and create are two calls, git fails or never answers, the lock is edited | a tree reported done is whole, at a reviewed revision, and its run's own | `UpstreamFetch` |
| Plan and next task, `tools/validate_plan.py`, `next_task.py` | sets and stack of the walk; statuses | `visit`, the checks, the list of ready tasks | a cycle nobody notices blocks the plan | a valid plan always has a task to take until its first phase is done | `TaskPlan` |
| GDN and attention oracles, `reference/gdn.py`, `attention.py` | recurrent state, trace, cotangents | `gdn_forward`, `gdn_vjp`, `causal_gqa` | pieces of a sequence, masked tokens, backward order, cache offset | pieces, masks and gradients agree with the definition | `ReferenceOracles` |
| Checked product, release gate, benchmark, snapshot, memory estimate, evidence validators | none or one record | one pass over recorded data | none of the hard behaviours | | left out, see section 8 |

How the parts interact: the resolver writes a candidate lock; a human
review turns it into an approved lock; `fetch_upstream` consumes that;
the evidence validators read the lock, the probe's report and the doctor's
report. The kernel is compared with a host computation by its CUDA test, that
computation follows the GDN oracle, the checkpoint with a run that was not interrupted by a Python test. All
interaction between programs goes through files; there are no callbacks.

## 2. Modules

Each module has its state as variables, one action per call, handler or turn of
a loop, and a type invariant, which is proved where the module has proofs
(section 5) and checked by a run where it has none. `MC*` modules give
constants their values. Operators marked as defects are never part of `Next`;
they are what a plausible bug would make of the definition that follows, and
each breaks the property it is there for.

**`PublishOnce`, `AtomicWriteNew`, `AtomicWriteNewProofs`.** One action per
system call of `atomic_write_new`: mkstemp, write, flush, fsync, link, unlink,
each of which may fail (`CreateTempFails`, `IoError`, and `UnlinkFails` for the
clean-up, of which the code passes over `FileNotFoundError` only: a run whose
unlink raises ends as `uncleaned`, with an error and its temporary name left,
also when it has published). Before it stands the early `output_exists`
check of `run`, after which the network takes as long as it likes (`Resolve`).
`dir` is the directory as processes see it, `disk` as a power loss would bring
it back; file contents move from buffered to cached to synced. `Kill`,
`PowerLoss`, `WriteBack` and `ForeignCreate` are the environment. `PublishOnce`
is what a reader of the output may see; `PublishesOnce` says that the system
calls implement it under the mapping `output <- Read(dir, Output)`.

**`SourceResolution`, `SourceResolutionProofs`.** One action per request. `head` is where refs point and
moves between any two requests. A model repository has two refs, its default
branch and another one that a candidate may name (`RefOf`); discovery asks for
the default branch whichever is named (`AskedFor`), so `RevisionWasRequested`
speaks of a model repository only when the two are the same. `world` is what the hosts hold for an exact
revision, which never changes. Audits are an uninterpreted predicate of the
revision (`audited`, `declares`, `covers`): the properties need to know that a
payload was audited, not which words were searched for.

**`CheckpointStore`, `ReferenceCheckpoint`, `ReferenceCheckpointProofs`.** As
for publication, but the rename replaces, and trainers resume. A step number
stands for the weights, because the fixture is deterministic. The `finally`
clause is two calls, `os.path.exists` and `os.unlink`, after `os.replace` has
freed the name. Either may fail: `os.path.exists` then answers False and nothing
is unlinked (`ExistsFails`), `os.unlink` raises (`UnlinkFails`); `left` is
history, the files of saves that were killed or failed there. `NamesRepeat` says whether mkstemp may draw that name again.

**`GdnDecodeKernel`, `GdnProofs`.** The launcher's checks
(`Accepts`), then the `Dk` threads of one block; every access to shared memory
is an action of its own, `Sync` releases a barrier that all threads have
reached. Blocks write disjoint rows, so one block at any row of the grid stands
for the grid. Indices are computed by the code's divisions. Floats are integers
here: rounding is not modelled, the order of evaluation is. `Width` is the
code's `Dk`, so that one module can prove things of kernel and oracle.

**`CacheProbe`, `CacheProbeProofs`.** One action per look at the file system, in the order of the
code, with its short cuts (`or`, `and`, the index that is skipped). `seen` is
what each file was when it was looked at; everything in the report is a function
of it. `config.json`, `tokenizer_config.json` and the indices are opened and
read, tokenizer files and shards only stat'ed: of the latter a file that cannot
be read, or an empty one, counts as present (`opaque`, `Accepted`), and the
properties claim no more than that it is there. A whole PyTorch snapshot is
missed when a safetensors index lies beside it, also one that arrives during the
probe; `CompleteIsFound` excepts it (`Shadowed`). The downloader adds files and
moves `refs/main`. Files that have arrived
stay: a snapshot belongs to a revision and files are renamed into place. A
cache cleaner that removes files during the probe is outside the model.

**`CgroupHeadroom`, `CgroupHeadroomProofs`.** A host has a hierarchy the
memory controller is attached to, the process's group and the cgroup namespace's root in each hierarchy, and
mounts; `Shown` prints paths as the kernel does. `Resolve` chooses as the code
does, then `ReadLimit` and `ReadUsage` alternate over the levels while `Use`
moves usage. Files may be missing or hold no number. `most` and `least` are
history: the extremes of each group's headroom since the probe began. Limits
are fixed during a probe. A process at its namespace root has the membership
`/`, for which line 184 takes any mount, also one that shows a group below
(`MountedBelow`). Such hosts are in the model and in the run, and
`LevelsGovern`, `NoLevelOverstated` and `AvailableIsReal` except them: without
the exception TLC finds the first and the last violated. Levels that show
neither file are skipped as in the code, and nothing is claimed of them.

**`UpstreamFetch`, `UpstreamFetchProofs`.** `main` call by call: the lock is
read and checked once, then `dest.exists`, `dest.mkdir`, and `git init`,
`remote`, `fetch`, `checkout` and `rev-parse` with their timeout. Any number of
runs race for one destination. A call that fails, times out or is killed leaves
the tree as it was or `partial`; git may finish its call after its run is dead.
People edit the lock file between any two calls and remove trees no run works
in. `reviewed` is history: every revision the lock file has ever approved. That
the object git fetches for a revision is that revision is git's promise and
assumed.

**`TaskPlan`, `TaskPlanProofs`.** `visit` of the validator with its stack,
`seen` and `active`, for every order of tasks and of dependencies (the code
takes the order of the file), the other checks of the plan, and `Listed`, what
`next_task.py` prints for an owner. The agents who edit statuses are external:
they take what is listed for them, finish it, or are blocked and unblocked.

**`ReferenceOracles`, `GdnProofs`.** A sequence is cut into pieces in every way, as a caller
with a cache does. Each piece goes through the mask of `causal_gqa`, then token
by token through `_forward`; after the last, `gdn_vjp` is called on the pieces
from last to first, each records its trace again and walks it backwards. Array
expressions keep the names of the code; of the variables, `running` and `ys`
are `s` and `y` of `_forward`, `args` and `phase` stand for the arguments of
the call and for where it is. Integers stand for floats, the set of
keys for the softmax over it. The reference definitions are of another form:
one pass over the unmasked tokens, an element at a time, and the derivative of
the loss as a symmetric difference, which is exact because the loss is of
degree at most two in each single element.

## 3. Runs

| Run | Question | Bounds |
|---|---|---|
| `publication_safety` | do racing, killed and failing runs publish at most one whole lock? | 3 runs, 3 names, 1 power loss |
| `publication_liveness` | does every run end? | 2 runs, 2 names, 1 power loss |
| `source_resolution` | is a returned lock coherent although refs move? | a git source with a pin and a model repository, 2 revisions, 2 artifacts, 2 moves |
| `checkpoint` | does the path behave as an atomic store, are returned saves kept, is litter avoided? | 2 trainers, 2 names, 2 saves each, kills, 2 power losses |
| `checkpoint_name_reuse` (violation) | is only the trainer's own incomplete file deleted when names repeat? | as before, no power loss needed |
| `gdn_decode_kernel` | races, barriers, indices, result | blocks of 2, 4 and 8 threads, 1 to 2 batches, grouped and ungrouped heads, and launches to refuse |
| `cache_probe` | is the report true and complete? | 2 roots, 2 revisions, four forms of a download against three of another, expected hashes or none, pinned or `refs/main` |
| `cgroup_headroom` | is the headroom right on each placement? | 8 placements, one of them `MountedBelow`, 3 levels, limits 1, 2 or none, usage 0 to 2 |
| `cgroup_hybrid_fallthrough` (violation) | can a finite v1 limit be taken for an unlimited v2 one? | as before |
| `upstream_fetch` | is a tree that is reported done whole, reviewed and the run's own; does every run end? | 3 runs, 2 revisions, locks of 6 kinds, 2 edits, 1 removal |
| `task_plan` | does the validator accept exactly the sound plans, and do sound plans get done? | every graph of 3 tasks, one task of a later phase or none, wrong initial statuses, a plan for each other fault |
| `reference_oracles` | pieces, masks, causal mask and gradients | 4 tokens in every division, all 16 masks, 2 key heads of 2 value heads, widths 2, two tensors of small integers |

Why the bounds are enough. In publication a third run is needed for one that
loses to a winner while another still holds a name; a fourth repeats a role.
One power loss separates `dir` from `disk` once, and a second begins again from
an agreed state. Two saves of a trainer give a previous checkpoint to lose. In
resolution two revisions are what confusing them takes, and two moves let a
branch leave and come back. Eight threads are three rounds of the reduction: a
first, a middle and a last one; larger blocks are covered by the proofs. Two
roots are what ranking and carrying over take; three levels are a root without
files, a parent and a leaf. A third fetch may find the tree of a first that
ended while a second is between its two questions. Three tasks give a cycle
that is entered from outside and a diamond's shared dependency; larger graphs
are covered by the proofs. Four tokens are a first piece, a middle one and a
last one with a piece of more than one token among them; two heads in a group
make the sum over the group matter; width two tells a matrix from its
transpose; other contents, lengths and widths are covered by the proofs. The index bound of the kernel run (`IntMax = 8`) lets refused
launches exist among small ones. Symmetry is only used in runs without
liveness, over process, trainer and name identities.

Deadlock checking is off everywhere: resolver runs, fetches, kernel blocks,
probes and plans stop when they are done. That the kernel does not stop early,
at a barrier, is the property `Terminates`, and `BarrierUniform` says why; that
a plan does not is `NeverStuck` and `PlanFinishes`.

## 4. Fairness

- `publication_liveness`: weak fairness of each started run (`Proceed`). A
  process that can issue its next call is eventually scheduled; kills and power
  losses are never required to happen. Nothing is assumed of the starting of
  runs: `RunsEnd` is about those that have started.
- `source_resolution`: weak fairness of the run's own `Step`. Every request has
  a timeout, so it returns or raises.
- `gdn_decode_kernel`: weak fairness of `Next`, all of whose actions belong to
  the resident block: the device goes on while some thread can.

- `upstream_fetch`: weak fairness of each run's own `Step`. Of a git call that
  never answers, only `Timeout` remains, and the clock of `subprocess.run` runs;
  kills, hangs and the reading of the lock are never required.
- `task_plan`: weak fairness of the validator's walk. Of the agents it is
  assumed that a blocked task is unblocked, that a task which is again and again
  listed for its owner is taken, and that one which is again and again under
  way is finished: strong fairness of `Take` and `Finish`, because `Block` may
  interrupt. This is about people, not code, and states what `next_task` needs
  of them.

The other specifications state safety and need none.

## 5. What is proved

For every value of the constants that satisfies the named assumptions of the
module. Each proof has the same shape: an inductive invariant `IInv`, lemmas
that `Init` implies it and that every action preserves it, and one theorem per
property that follows from it.

**Publication** (`AtomicWriteNewProofs`; any number of runs, names and power
losses). `IInvariant`, `TypeCorrect`, `OutputIsWhole`, `SuccessMeansPublished`,
`LeavesNoLitter`, `OutputNeverReplaced`, `OnlyOwnUnlinked`, `Refinement`.
`OutputWhole` is not inductive: that link publishes a synced file rests on the
temporary name still linking to the run's own file, on two running processes
never holding one name, and on how much each call has put on the disk. These are
the parts of `IInv`. `LeavesNoLitter` excepts killed runs and those whose own
unlink raised, and says that no other end of a run, success, refusal or error,
leaves a file.

**Checkpoint** (`ReferenceCheckpointProofs`). `TypeCorrect` without condition;
`IInvariant`, `CheckpointIsWhole`, `AckedSaveIsKept`, `LeavesNoLitter`,
`OnlyOwnDeleted` and `Refinement` from `~NamesRepeat`. The condition is
necessary: `checkpoint_name_reuse` violates `DeletesOnlyItsOwn` without it. The
invariant adds to the ownership of names that the name is free again between
`os.replace` and the end of the `finally` clause (`OwnsTemp`), that a
temporary file that is left belongs to a save that did not return
(`TempsUnreturned`), and that a name
that was never drawn is free on disk as well, so that a power loss does not
bring an old file back under a name in use (`FreshNamesFree`).

**Kernel** (`GdnProofs`; any grid, any contents, every width in
{2, 4, ..., 256}). `IInvariant`, `TypeCorrect`, `KernelIsRaceFree`,
`BarriersAreUniform`, `IndicesAreInRange`, `BlockComputesRecurrence`. Race
freedom is not inductive: that
a thread below `offset` reads a cell nobody writes rests on all threads being
in the same round of the same loop. `OneStage` names the stages the barriers
bring about, and each action keeps the block in its stage or moves it whole to
the next. The index theorem is arithmetic over products of dimensions and also
shows that accepted launches keep the row number below `IntMax`, which the
narrowing conversions of the kernel need. `TypeCorrect` uses
`ArrayAssumption`, the header's contract that arrays have the sizes of their
shapes.

`BlockComputesRecurrence` proves `ResultCorrect`. Its invariant `Computes` says
what each stage has in its cells. Within a round of the reduction some threads
have added and some have not; `AtStart` is what shared memory held when the
round began, as recovered from each thread's place in the round, and the sum
of its live part is the total of the products (`Adds`). At the barrier half of
the cells hold sums of two (`HalvesExactly`), so the total carries over, and
after the last round it is in cell 0. Facts about sums of any number of terms
come from `Induction`, induction over the naturals for a set in place of a
predicate, which follows from the order's being well founded; with it also the
recursive functions inside the folds are shown to exist and to be unique.

**Oracles** (`GdnProofs`; any number of tokens and heads, any widths, any
contents, any mask, any division into pieces). `OracleInvariant`,
`AnyCutAgrees`, `AttentionIsCausal`, `BackwardInvariant`, `GradientsAreExact`.
`TurnIsRecurrence` is the algebra: the two
updates of the state in a turn of `_forward`, with `np.repeat` over the heads
of a group, are one turn of the reference recurrence. `StateAfterIs` says that
one pass over the unmasked tokens to a token is the pass to the token before
it, and one turn more if the token is not masked; since the reference takes a
set of tokens, in the order of their numbers, this is where masks and cuts
cancel out. `CallsRight` keeps it for each call, so that the passes `gdn_vjp`
repeats from the recorded states are right as well, and `AtToken` within a call.

`GradientsAreExact` proves `GradientsAreDerivatives`. The loss is the sum of the
outputs weighted by `dy` and of the final state weighted by `ds`, of a whole
sequence. It is a polynomial of degree at most two in each single element (a
key enters a turn twice), so half the difference of the losses one up and one
down is its derivative exactly, and no limit is needed. The invariant `BackInv`
is about the backward pass:

- `CarryRight`: `carry` is the cotangent of the state after the token the pass
  has got to (`Frontier`, within a call and between two). `Adjoint` says what a
  cotangent is: of any two sequences alike after a token, the losses that are
  still to come (`Rest`) differ by the difference of their states under it.
  `AdjointBefore` takes it over one turn of the code, masked or not; the code's
  two branches of the state, decay and correction, are one row of `Value` there.
- `TraceRight`: the turns `_forward` has recorded are those of one pass over
  the sequence, which uses `CallsRight` for the state each call starts from.
- `PiecesMeet`: the calls are made for the pieces from the last to the first and
  leave out no token.
- `CotsRight` and `GradsRight`: each token behind the pass has the cotangents
  that its turn computes from the adjoint of that moment, and after its call
  the sums over groups of heads (`OverGroup`, for `reshape` and `sum`).

`InV`, `InBeta`, `InG`, `InK`, `InQ` and `InState` then show for each kind of
element that the turn's cotangent is the derivative of what the turn is worth,
the output and the state it leaves (`TokenDerivative`). For a key or a query
the change reaches all heads it is repeated for, and their cotangents add up.

**Kernel against oracle** (`GdnProofs`). `KernelAgreesWithOracle`: if the
arrays of a launch hold a token of the oracle's tensors and the state before it,
row by row as NumPy lays them out (`LaidOut`), and the launch is accepted, then
the threads of a block that are done have written the state row that the oracle's
turn leaves, and the output it returns (`BlockAgrees`), masked tokens included.
This is what a comparison of the CUDA kernel with the oracle tests on samples,
here up to rounding, for every shape, every content and every schedule of
threads. `RowLaidOut` shows that the kernel's divisions find the key head and
the row that `np.repeat` and the einsums use.

**Resolution** (`SourceResolutionProofs`; any sources, pins and agenda, any
number of artifacts and moves of refs). `IInvariant`, `TypeCorrect`,
`LockIsCoherent`, `LockedWasRequested` (of a model repository: if its ref is the
default branch), `LockedPinsDeclared`. `LockCoherent`
speaks of the returned lock; what makes it inductive is `InProgress`, what is
known of the revision in hand after each request, and that entries are about
revisions that exist, which never cease to (`EntryCoherent`).

**Cache probe** (`CacheProbeProofs`; any roots, revisions, shards, contents and
command lines, any downloads during the probe). `IInvariant`, `TypeCorrect`,
`EntriesAreSnapshots`, `ReportHolds`, `CompleteHasHashes`, `WholeIsReported`.
The files of an entry were looked at at different times; `Agrees` says that
all of them are there now as they were seen, and it is kept because a file
that has arrived stays (`ArrivalsStay`). `CompleteIsFound` needs `WholeIsSeen`,
that the files of a whole snapshot look so one by one through all the short
cuts of the code, for both kinds of index (`WholeIsSeenOf`), and `WholeIsKept`, that a root which was passed has left a
complete entry which only a complete one replaces. `ShardAssumption`, that no
shard has the name of another file, is what `_safe_shard_name` checks.

**Fetch** (`UpstreamFetchProofs`; any number of runs, revisions, edits and
removals). `IInvariant`, `WorksInOwnTree`, `MaterializedWasReviewed`. `OwnTree`
makes two runs between `mkdir` and their end impossible; with it, that a run has
read an approved revision (`ReadReviewed`) carries over to the tree
(`HeadIsSha`).

**Plan** (`TaskPlanProofs`; any set of tasks, finite or not, any order of the
walk). `IInvariant`, `VerdictIsSound`, `PlanNeverStuck`. That no cycle is
accepted is not inductive: `Founded`, that of any tasks seen one waits for none
of the others, rests on `Closed` and on `active` being what is on the stack.
That a rejection for a cycle is right rests on the stack being a path.

**Headroom** (`CgroupHeadroomProofs`; any groups, placements, namespace roots,
mounts, limits and bound on usage). `Invariant`, `TypeCorrect`,
`LevelsAreGoverning`, `ControllerFirst`, `NeverOverstated`, `NeverInvented`. The
choice is one step, and `LevelsAreAncestors` shows by arithmetic of prefixes
that joining the mount point and what is left of the membership gives the
ancestors of the group, from the mounted directory down (`Down`). It is for
hosts without a mount of a group below that may be taken for the process's own
(`MountedBelow`), a hypothesis of `LevelsAreGoverning`, `NeverOverstated` and
`NeverInvented` that the code does not establish; `TypeCorrect` and
`ControllerFirst` do without. Of the kernel it uses that ".." is no name and
that a v1 membership is a candidate only with the controller attached. Over the
walk, what is kept is that each
headroom taken was true of a level at the instant of the second read, so it
stays between the level's extremes, which only grow apart (`Answered`).

**Only model-checked.** Liveness (`RunsEnd` twice, `Terminates` twice,
`PlanFinishes`): proofs under fairness need ENABLED, which the prover does not
support. The two violations of section 6 are counterexamples of TLC.

## 6. Findings

1. `docs/SECURITY_AND_OPERATIONS.md:26` says to delete only one's own
   incomplete files. `save_reference` asks whether its temporary name exists
   and unlinks it after `os.replace` has given the name back; another trainer
   that draws the name in between loses its incomplete file and its own
   `os.replace` then fails. It takes a repeated random name, so it is rare;
   the published checkpoint is not damaged. `atomic_write_new` does not have it.
2. The comment at `doctor.py:169-172` says that preferring the v1 membership
   keeps a finite v1 limit from being mistaken for an unbounded v2 hierarchy.
   The preference only holds when the v1 membership resolves to a visible
   mount. On a hybrid host where only the unified hierarchy is mounted for the
   process, the answer is `ok` with no limit.

Observed while modelling, with no document or comment that says otherwise, and
so no finding: the clean-up of a publication may raise after the lock has been
published, and the run then reports an error and leaves its temporary file
(`resolve_sources.py:636`); a save whose `os.path.exists` answers False on an
error, or whose `os.unlink` raises, leaves its own (`training.py:19`); the ref of
a model repository is ignored in favour of the default branch
(`resolve_sources.py:273`); tokenizer files and shards that are unreadable or
empty count as present (`probe_qwen_cache.py:133-140`), and a whole PyTorch
snapshot is missed beside a safetensors index (lines 179-184); a process at its
namespace root is given the limits of a group below it when a mount of that
group comes first (`doctor.py:184`); a power loss
after success may undo a publication or a save, because the directory is not
synced; a slow save of an early step may replace a later one; a level of which
neither cgroup file can be read is skipped; after the probe has read a PyTorch
index, a safetensors index may arrive, and the report is about the former.

## 7. Plan

Done: publication, checkpoint, resolution, fetch, kernel, oracles, cache probe,
cgroup headroom and plan; proofs of every safety property of theirs.

Next:

1. Aliased arrays in two blocks of the kernel: the header asks for separation
   of outputs and inputs, the launcher compares three pairs.
2. The composition of fetch and resolution: that what the resolver returns is
   what a reviewer approves is a human act between two files, so it would add
   one external action; it is worth it only with a model of the review itself.

## 8. Not modelled

- Floating-point rounding, softmax and RMS norm: real arithmetic.
- The rest of the doctor: one-shot probes of devices and versions.
- `checked_product`: one loop over a shape, without callers outside its test;
  its invariant is the loop itself.
- The reference snapshot, the memory estimate, the model configuration, tensor
  contracts: checks of one value, no step changes state.
- Benchmark comparison, release gate, evidence validators, integrity manifest,
  configuration comparison: one pass over documents that compares them with
  literals; a model would repeat the literals.
- Argument parsing, printing, lazy imports, device enumeration, docs, task
  cards and recorded evidence: no state of a program.

Hazards without a property are listed in `PROJECT.json` with their reasons:
aliased arrays (`gdn_decode_reference.cu:36`, item 1 of the plan), a level whose
two files are unreadable (`doctor.py:230`) and the overflow test of
`checked_product` (`contracts.cpp:9`).
