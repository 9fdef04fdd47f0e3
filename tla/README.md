# TLA+ models of the mpool pool-metadata engine (`src/src/pmd.c`)

`pmd.c` is the pool metadata (pmd) layer of mpool. It keeps the catalogue of
every object (mblock or mlog) of a pool in metadata containers (MDCs). An MDC
is a pair of mlogs, one active and one standby, holding an append-only log of
records. Memory holds the net effect of those records. The module has these
parts:

| Part | Code | State | Operations |
|---|---|---|---|
| MDC0, the root MDC | `pmd_mdc0_init`, `pmd_objs_load(0)`, `pmd_mdc0_validate`, `pmd_log_mdc0_cobjs` | committed map of the slot-0 mlogs (the mlog pairs of MDC1..N), pool properties, `mdi_slotvcnt` | activation, MDC allocation, compaction |
| User MDCs 1..N | `mdi_slotv[i]` | `mmi_obj`, `mmi_uncobj` (rb trees of layouts by objid), `mmi_luniq`, `mmi_lckpt`, `mmi_pco_cnt`, locks | object API, id generation, compaction |
| Object API | `pmd_obj_alloc/realloc/commit/abort/delete/erase/get/put/find_get` | layout descriptor: `eld_state` (COMMITTED, REMOVED), `eld_isdel`, `eld_refcnt`, `eld_gen` | one call each |
| Id generation | `pmd_alloc_idgen`, `pmd_realloc_idvalidate` | `mmi_luniq`, `mmi_lckpt`, OIDCKPT records | alloc |
| Append path and compaction | `pmd_mdc_addrec`, `pmd_mdc_compact`, `pmd_pre_compact_reset` | the active mlog, `pcc_*` counters | every logged change; EFBIG leads to compaction |
| Pre-compactor | `pmd_precompact`, `pmd_need_compact` | `pco_nmtoc` | periodic delayed work |
| MDC allocator | `pmd_mdc_alloc`, `pmd_mdc_needed`, `pmd_mdc_alloc_set` | MDC0 map, `slotvcnt`, MDC0 `luniq` | creates MDCs |
| MDC selector | `pmd_update_credit`, `pmd_update_mds_tbl`, `pmd_compare_free_space` | `mds_tbl`, `mmi_credit` | refresh of the allocation table |
| Activation | `pmd_mpool_activate`, `pmd_props_load`, `pmd_objs_load(_parallel)`, `pmd_write_meta_to_latest_version` | everything above | replay after a restart or crash |
| Statistics, SB writeback, teardown | `pmd_update_mdc_stats`, `pmd_mpool_usage`, `pmd_mdc0_meta_update`, `pmd_mda_free` | byte counters, superblock image | bookkeeping and I/O |

How the parts interact:
- Client threads call the object API concurrently.
- Every durable change follows "log first, then mutate": it appends a record
  (OCREATE, ODELETE, OERASE, OIDCKPT) with `pmd_mdc_addrec` while holding the
  slot's `mmi_compactlock`, and changes memory only once the append has
  returned.
- Compaction holds the same lock. It rewrites the live state of the slot
  (VERSION, OIDCKPT(lckpt), one OCREATE per committed object) into the
  standby log and swaps the two logs at `cend`.
- Compaction runs in two places. One is the caller's own `addrec`, when the
  append returns EFBIG. The other is the pre-compactor work item, when
  `pmd_need_compact` says the log is full enough and has enough garbage.
- Erases run on a separate work queue (`pmd_obj_erase_start`), which frees
  the layout.
- A crash loses memory. `pmd_mpool_activate` then replays every log with
  `pmd_objs_load`. The replay fails on a duplicate OCREATE, on an
  ODELETE/OERASE of a missing object, or on a non-increasing OIDCKPT. After
  it, `luniq = uniq(lckpt) + OBJID_UNIQ_DELTA - 1`, so no id is reissued.
- Before that replay, `pmd_props_load` reads MDC0's drive records and
  reconciles them with the drives mpool open found. The latest record of
  each drive decides its state, missing drives become UNAVAIL phantoms, and
  a drive with no live record stops activation.

The hard parts, where a test rarely reaches:
- A commit moves a layout from `mmi_uncobj` to `mmi_obj` in two separate
  lock regions.
- A delete updates `pcc_cobj` after it has dropped `mmi_compactlock`.
- A compaction can run inside any logging call, from EFBIG.
- Any append or compaction can fail with an I/O error.
- A crash can happen between any two steps.
- The counters are read without a lock.

## Modules

### `PmdMdc` — user MDCs, the object API, the append path, compaction, crash and replay

State (`VARIABLES`) and how it corresponds to the code:
- `mdclog[s]`: the durable records of the active mlog of MDC s. A
  synchronous append is durable on return. Compaction replaces the whole
  log at `cend`.
- `luniq`, `lckpt`, `obj`, `uncobj`, `pco_cnt`: the `pmd_mdc_info` fields of
  the same names. The maps hold layout handles.
- `lay[h]`: the layout descriptor (objid, gen, committed, removed, isdel,
  refcnt). `live` holds the allocated handles. `erasing` holds the layouts
  queued for the erase work item.
- `compactlock[s]` and `wrlock[h]`: the locks a call holds between two of its
  steps. Locks taken and released within one step are implicit in the
  step's atomicity.
- `pc[t]`, `loc[t]`: the phase and locals of thread t's current call.
- `pco_nmtoc`: the pre-compactor cursor.
- `crashes`: the crash count, bounded.
- `issued`: a history variable, the set of ids `pmd_alloc_idgen` has handed
  out.
- `stats[s]`: `mmi_stats`, with the mblock and mlog counts and
  `pms_mblock_wlen`. An object's capacity and an mblock's written length
  are one unit, so the `_alen` sums would equal the counts and are left out.
  A u64 that wraps below zero is kept as a negative number.

Actions, one per step of a call:
- **Allocation.** `pmd_alloc_idgen`, then `pmd_obj_alloc` (layout allocation
  with its failures, then the insert into `mmi_uncobj`). `pmd_obj_realloc` is
  `pmd_realloc_idvalidate` followed by the same insert, which also checks
  `mmi_obj`.
- **Commit.** `pmd_obj_commit` logs OCREATE, sets COMMITTED and unlinks the
  layout from `mmi_uncobj`. `pmd_obj_commit_insert` links it into `mmi_obj`
  (or puts it back on EEXIST) and releases both locks.
  `pmd_obj_commit_stats` is the `PMD_OBJ_COMMIT` statistics update that
  follows the unlock (pmd.c:1831-1832). It reads the type from the layout,
  and from any type once the layout has been freed.
- **Delete.** `pmd_obj_delete` sets the flags, logs ODELETE, and either
  unlinks the layout or rolls the flags back. `pmd_obj_delete_finish` runs
  after the unlock: it does `pcc_cobj--`, `pcc_del++` and starts the erase.
- **Other calls.** `pmd_obj_abort`, `pmd_obj_erase` (mlog gen bump with
  OERASE), `pmd_obj_erase_cb`, `pmd_obj_put`, and `pmd_obj_find_get` (two
  steps: committed map, then uncommitted map, each with `pmd_obj_get`).
- **Pre-compactor.** `pmd_precompact`: the cursor, `pmd_need_compact`, then
  the compaction.
- **Crash.** `pmd_mpool_activate`: a crash, then the replay of every log.
  `LoadStats` folds `pmd_update_mdc_stats(..., PMD_OBJ_LOAD)` over the
  replayed objects, as `pmd_objs_load` does (pmd.c:1070).

`pmd_update_mdc_stats` is the switch of pmd.c:766-797 with its two
fall-throughs: LOAD into ALLOC, DELETE into ABORT. Alloc applies ALLOC
(pmd.c:3179). On EEXIST the ABORT undo (3222) cancels it, so the model
leaves the statistics unchanged there. Abort applies ABORT (1945).
Delete applies DELETE after its unlock, when the object was found (2057).

`pmd_mdc_addrec` gives the set of possible outcomes of an append:
- success;
- an I/O error;
- on a full log (EFBIG), a compaction that fails, or that succeeds and is
  followed by a retry that succeeds, fails, or hits EFBIG post compaction.

`Replay` is the read loop of `pmd_objs_load`, written as a direct recursion
over the log. It has the same checks as the code. A `FoldLeft` over the log
would be the natural form, but it runs from its TLA+ definition, which makes
the refinement check about five times slower.

Abstractions:
- The objid encoding is a triple (slot, uniq, type).
- SMAP zone allocation and ECIO layout allocation are one nondeterministic
  failure.
- The mds_tbl slot choice is any user MDC.
- `pcc_len/pcc_cap` are the log length and `LogCap`, in records.

Client contract assumed by the model:
- A client commits only a layout it has not aborted.
- A correct client (`ReallocLive = FALSE`) reallocs only an objid that no
  live layout has and no allocation in flight was given. That is the
  documented use: re-creating an uncommitted object lost in a crash.
- `pmd_obj_erase` is called with the layout's write lock free (the caller
  serialises erases of one mlog).

Properties:
- `TypeOK`.
- `LogReplayable`: in every state, every log replays without error, so a
  crash anywhere leaves an activatable pool.
- `DurableMatchesMemory`: whenever no call holds the slot's compactlock
  between steps, the replay of the log equals memory: the same committed
  objids, the same generations, the same checkpoint.
- `NoObjidReuse` (action property): `pmd_alloc_idgen` never hands out an id
  it handed out before, across crashes.
- `ErasedUnreachable`: a layout given to the erase worker is in neither map.
- `CatalogRefined`: refinement of `PmdCatalog` (see below).
- `StatsMatchMaps`: once every call has returned, the per-MDC object
  counts of `mmi_stats` equal the objects in `mmi_obj` and `mmi_uncobj`.
  They must, through the updates made outside the map locks, the EEXIST
  undo, a failed delete, and the LOAD replay after a crash.
- `CommitStatsOnLiveLayout` (violation run): the layout that
  `pmd_obj_commit` reads for its statistics update is still allocated and
  still holds the committed objid.
- `PccCobjExact`: once every call has returned, `pcc_cobj` equals the number
  of committed objects. It is checked only in a violation run, below.

### `PmdObjid` — object ids

The constants `NumMdc`, `UniqDelta` (`OBJID_UNIQ_DELTA`) and `MaxUniq`.
An objid is a triple (slot, uniq, type). `objid_ckpt` says which ids must
be checkpointed first. `PmdMdc` and `PmdCatalog` both extend this module.

### `PmdCatalog` — what the user MDCs promise (abstract specification)

The durable catalogue: objid ↦ mlog generation, plus a checkpoint per MDC.
A step does one of four things:
- creates one object, with generation 0, whose id the checkpoint covers
  (uniq ≤ ckpt + UniqDelta − 1);
- deletes one object;
- raises one mlog's generation strictly;
- advances one checkpoint by exactly `UniqDelta`.

Every other step leaves the catalogue unchanged.

`PmdMdc` instantiates it with the refinement mapping
`catalog <- DurableCatalog` (the replayed logs) and
`ckpt <- DurableCkpt` (the replayed `mmi_lckpt`). The property
`CatalogRefined == Catalog!CatalogSpec` is checked in both passing runs.
It shows three things:
- a compaction cutover, a crash, or a failed append never changes the
  durable catalogue;
- each logged call changes it by exactly its one operation;
- no durable object has an id that a crash could hand out again.

The abstract steps are written over explicit before/after values. This way
TLC evaluates the replayed catalogue once per step, not once per candidate
objid.

### `MCPmdMdc` — model-checking instance

The threads are model values `t1`, `t2`. `MCThreads` has two threads and
`MCThread` has one. The two threads are interchangeable, so the two-thread
runs use `Permutations` symmetry. This is sound because no definition
distinguishes threads.

### `PmdMdcAlloc` — MDC0 and the MDC allocator

MDC0's committed map `mmi_obj` holds the slot-0 mlogs of every MDC: the
mlogs with uniq `2i` and `2i+1` are the pair of MDCi, and uniq 0 and 1 are
MDC0's own boot mlogs. The module names an MDC0 mlog by its uniq.

State:
- `obj`, `uncobj`: MDC0's committed and uncommitted maps, from uniq to
  `eld_refcnt`.
- `mdc0log`: the durable object records of MDC0's active mlog, plus the
  VERSION record a compaction writes first.
- `luniq` (MDC0's `mmi_luniq`) and `slotvcnt` (`mdi_slotvcnt`).
- `pc`, `mdcslot`: the step of the `pmd_mdc_alloc` in progress and its slot.
- `todo`: the calls left in the running `pmd_mdc_alloc_set`.
- `crashes`.
- `binary`: the content version of the binary now running. The system starts
  under an older binary (`"old"`, version 1.0.0.0, no VERSION record) and
  every activation runs this binary (`"new"`, the latest).
- `uver`: the version each user MDC's log is in on media. `memver`: the
  `mmi_mdccver` each slot was loaded with at the last activation.
- `ucur`: the `cslot` of the upgrade loop.

Records carry the format they were written in. `LogVersion` is what
`pmd_objs_load` sets `mmi_mdccver` to: the VERSION record's version, else
1.0.0.0 (`pmd_mda_init`).

Actions:
- `pmd_mdc_alloc_set`: the batch count `MPOOL_MDC_SET_SZ - ((slotvcnt-1) %
  MPOOL_MDC_SET_SZ)`, capped by the free slots. `pmd_mdc_needed`'s fill and
  garbage thresholds are a free choice; it is false at `MDC_SLOTS`.
- `pmd_mdc_alloc`, in four steps, split where MDC0's log is written:
  1. `pmd_mdc_alloc`: `pmd_mdc0_validate(mp, 0)` with its clean-up, the
     ENOSPC check, reserving `mdcslot`, allocating and erasing both mlogs.
  2. `pmd_mdc_alloc_commit1`: the OCREATE of the first mlog.
  3. `pmd_mdc_alloc_commit2`: the OCREATE of the second mlog.
  4. `pmd_mdc_alloc_open`: `mp_mdc_open`, the VERSION record and publishing.
  Every error path is part of the step that fails. The aborts cannot fail
  here. Each `pmd_obj_delete` can fail on its ODELETE append, and its
  rollback sets the refcount to 2 as the code does.
- `pmd_mpool_activate`: a crash, then the MDC0 part of activation.
  `pmd_mdc0_init` seeds the boot mlogs; the log is replayed with
  `pmd_objs_load(mp, 0)`; `luniq = mdcmax` and `slotvcnt = mdcmax + 1`; then
  `pmd_mdc0_validate(mp, 1)` runs, which after a clean-up lowers both even
  if the deletes fail. Its clean-up appends in this binary's format. It
  sets `memver` from MDC0's log and from `uver` (`pmd_objs_load_parallel`).
- `pmd_write_meta_to_latest_version`: one iteration of its slot loop, with
  `permitted = TRUE` (its only caller, pmd.c:1338). A slot loaded at the
  latest version is skipped. MDC0 is compacted with VERSION first, and its
  EFBIG or I/O failure fails the activation. A user MDC's compaction
  succeeds, which upgrades it, or fails the activation. `mmi_mdccver` is
  never updated, as in the code.
- `pmd_mpool_activate_done`: the loop has passed `slotvcnt` slots, so
  activation returns and the allocator may run.

MDC0's appends go through the same `pmd_mdc_addrec` as the user MDCs: EFBIG,
then compaction, then one retry. The compaction writes VERSION and an
OCREATE for every committed mlog except the boot mlogs. The pool-property
records of MDC0 are left out. `pmd_obj_find_get` in the clean-up looks only
in `mmi_obj`: no uncommitted MDC0 mlog exists when validation runs, because
allocations are serialised by `pmd_s_lock` and their aborts cannot fail.

Properties:
- `Mdc0Activatable`: at every state, that is at every crash point, the
  durable MDC0 log replays without EEXIST or ENOENT and passes
  `pmd_mdc0_validate(mp, 1)`.
- `Mdc0MatchesMemory`: MDC0's in-memory map is what its log replays to.
- `CrashKeepsPublished`: after a crash, activation returns the current
  `slotvcnt`, plus one exactly when both mlogs of the next slot are already
  committed. This is spec.md's case 6 (a crash between the two commits
  restores the old `slotvcnt`), generalised to every crash point.
- `AllocRecoverable` (violation run): whenever no allocation runs, the
  clean-up of the next one can succeed once writes succeed.
- `UpgradedBeforeUse`: once an activation has returned, MDC0's log and
  every user MDC in use are at the latest version. The mutant that starts
  the loop at MDC1 breaks it.
- `Mdc0OneFormat` (violation run): every record of MDC0's log is in the
  format of its content version, which is the mix the upgrade comment at
  pmd.c:3919 means to avoid.

A remark from reading the code, which no run checks: spec.md's boundary list
says `mdc_alloc` at `slotvcnt == MDC_SLOTS-1` returns no space. The code
(pmd.c:2446) tests `luniq >= MDC_SLOTS - 1` with `luniq = slotvcnt - 1`, so
it does create slot `MDC_SLOTS - 1`. spec.md's own step 2 agrees with the
code.

### `PmdCredit` — the pre-compactor and the MDC selector

State: `pcc_len` and `pcc_cap` per user MDC (as `pmd_precompact_alsz` last
reported them; capacity 0 until then), `slotvcnt`, `pco_nmtoc` (kept modulo
`NmtocWrap`, a multiple of every possible `slotvcnt - 1`, so every
`nmtoc % (slotvcnt - 1)` the code takes is exact), `mds_tbl`, `oops` (where
the kworker died, if it did) and `nbnoalloc` (the tunable
`mp_pconbnoalloc`, fixed for the pool and chosen in `Init` from
`NbNoAllocs`). `visited` is a history variable: the `cslot` of the last run,
which in the code is a local.

Actions:
- `pmd_precompact` is the whole work item: fetch-add of the cursor, the
  modulo at 3767, the compaction of the MDC it names (a shorter reported
  length, or none: `pmd_need_compact`'s thresholds are tunables),
  `pmd_mdc_needed` and `pmd_mdc_alloc_set` (any prefix of the batch, since
  a failed `pmd_mdc_alloc` ends it), then `pmd_update_credit`. A division
  by zero, a write past `cset` or an endless fill loop ends the kworker:
  the work is not re-queued.
- `pmd_update_credit` and `pmd_update_mds_tbl` are operators. The walk from
  the cursor with the `pconbnoalloc` window is `CandidateSlots`; the
  almost-full test keeps its shape, `cap - used < cap / FullDiv`. `sort()`
  with `pmd_compare_free_space` is every order in which no element compares
  ahead of an earlier one. The comparator answers 1 for equal keys, so every
  tie order is explored. The credit sets (`FillSet`, `BuildSets`) and the
  round-robin fill (`FillTbl`) are RECURSIVE operators that follow the two
  loops of `pmd_update_mds_tbl`. A failed `kcalloc` keeps the old table.
- `pmd_precompact_alsz` (the mlog layer reporting a length and the
  capacity) runs at any time.
- `pmd_alloc_idgen` only reads `mds_tbl` in this module. Its state changes
  (`mmi_luniq`, OIDCKPT) are `PmdMdc`'s, so it has no action here. What it
  can read from a table a run wrote is what `TableProportional` states.
- `Init` is the state after activation and `pmd_precompact_start`: any
  `slotvcnt`, all counters, the cursor and the table zero.

Properties:
- `TableProportional` (action property) compares every table the work item
  writes with a reference that does not use the credit sets. The table must
  name only the `MPOOL_MDC_SET_SZ` MDCs with most free space among those
  outside the window and not almost full. This is spec.md 4.G, steps 1-4.
  Each MDC must appear `MDC_TBL_SZ * free / total` times, rounded down, or
  once more. The spec hands the remainder out round-robin, and the code
  (3607-3618) starts from the first MDC of the sorted set. So an MDC that
  got one more has at least as much free space as one that did not.
  - Even an MDC whose share divides exactly can get the extra entry: free
    spaces 2, 1, 1 over a table of 6 give 4, 1, 1.
  - Two mutants are caught: the window walk starting one slot early, and
    the remainder handed out from the last MDC back.
- `MdsTblBuildSafe`: `pmd_update_mds_tbl` never starts more credit sets than
  the `num_mdc` it allocated and never loops forever. Both depend on the
  sort putting the largest credit first; the inverted comparator breaks it.
- `EveryMdcPrecompacted` (liveness): every MDC in use is the run's `cslot`
  again and again, unless the worker has died. MDCs that
  `pmd_mdc_alloc_set` adds while the cursor runs must join the rotation.
  The mutant that takes the cursor modulo one MDC too few never visits
  the newest MDC, and TLC returns a lasso.
- `PrecompactNoDivZero`: the work item never divides by zero, at 3767,
  3599 or 3613. It is the violation run `credit_div_zero` below.
- No property covers what `pmd_alloc_idgen` reads before the first table
  is written. `pmd_update_credit` is called only from the work item,
  queued one jiffy after activation (3815). `pmd_mda_init` never sets
  `mds_tbl`, so what that read returns depends on how the descriptor is
  allocated, outside `pmd.c` (see the hazard at 2934 in `PROJECT.json`).

### `PmdProps` — loading the pool properties from MDC0

`pmd_props_load` (pmd.c 263–535) is the first pass over MDC0 at activation.
It runs once, single threaded, so the whole function is one action. The
model chooses its inputs in `Init`:
- `mdc0`: a log of up to `MaxRecs` records. The records are MCCONFIG (drive
  id, state ACTIVE or DEFUNCT, parms), MCSPARE (a class, possibly invalid),
  VERSION (newer than the binary or not), and OBJ for any object record.
- `desc`: the descriptor mpool open hands over. It holds one or more drives
  in pdh order, each with parms and an UNAVAIL flag.

Drive ids are numbers, so the rb-tree order of `netdev` is numeric order.
Parms are numbers, and a drive's media class is `parm % MedNumber`. The
action `pmd_props_load` also chooses its faults. A read, unpack or kmalloc
can fail at any record (`rf`), and `mpool_desc_unavail_add` can fail (`af`).
It then follows the code in order:
- `ReadFrom`: the read loop. MCCONFIG replaces the record kept for its drive
  (`devid_to_dstate_mdcrec_upsert`: search, erase, insert). An invalid spare
  class is EINVAL. A newer VERSION sets `mmi_mdccver` and then EOPNOTSUPP.
  Any error returns before the descriptor is touched.
- `ReconcileFrom`: every descriptor drive is marked DEFUNCT. Then each
  non-defunct record, in devid order, either goes through
  `pmd_cmp_drv_mdc0` (the drive takes the record's state; any parms
  mismatch is EINVAL) or is appended as an UNAVAIL phantom. The walk stops
  at the first error.
- `FirstZombie`, `UacntUpTo`, `ZombieErr`: the first drive still DEFUNCT is
  ENXIO, and `mc_uacnt` counts up to it. Otherwise a class with
  `MP_MED_NUMBER` or more UNAVAIL drives is EINVAL.
- The DEFUNCT reset, then `SpareFrom`: the spare classes in order. A class
  without a drive fails `mc_set_spzone`.

Property `PropsLoadMatchesLog` restates the load over the whole log instead
of the walk:
- Without injected failures, the load succeeds exactly when:
  - the latest MCCONFIG record of every descriptor drive is live and has
    its parms;
  - no record is a bad spare or a newer version;
  - no class has `MP_MED_NUMBER` UNAVAIL drives, phantoms included;
  - every spare class has a drive.
- On success the descriptor holds exactly the live drives, phantoms
  UNAVAIL, and `mc_uacnt` and the spare classes are exact.
- On any exit after the walk began, no drive is left DEFUNCT.

Mutants:
- Keeping the first record of a drive instead of the latest breaks it.
- A descriptor lookup that never matches duplicates drives and breaks
  `TypeOK`.

`PropsLoadUnavailWarns` states spec.md's rule that a mismatch on an
UNAVAIL drive only warns. It is the violation run `props_unavail_mismatch`.

## Runs

| Run | Config | Expect | What it shows |
|---|---|---|---|
| core_two_threads | `MCPmdMdc.cfg` | pass | Two threads and the pre-compactor, 3-record log, I/O errors, one crash: the five invariants, `NoObjidReuse` and `CatalogRefined` hold (899,923 distinct states, about 3 min). |
| core_long_log | `MCPmdMdcLog.cfg` | pass | One thread with a 4-record log, so a compaction cuts over with a committed object and appends continue after it (323,653 states, about 100 s). |
| pcc_cobj_drift | `MCPmdMdcPcc.cfg` | violation | `PccCobjExact` fails in 8 steps: commit, erase, delete (step 1), a pre-compactor compaction, delete (step 2). `pcc_cobj` ends at −1 with no object. |
| realloc_during_commit | `MCPmdMdcRealloc.cfg` | violation | `LogReplayable` fails. A realloc of an objid whose commit is between its two map updates is accepted, and committing that second layout logs a second OCREATE. |
| mdc_alloc_crash | `PmdMdcAlloc.cfg` | pass | MDC creation with every append, allocation, erase, open and compaction able to fail, and up to three crashes, each followed by an activation of the newer binary with its upgrade loop: `TypeOK`, `Mdc0Activatable`, `Mdc0MatchesMemory`, `CrashKeepsPublished` and `UpgradedBeforeUse` hold (1,494 distinct states, 1 s). |
| mdc_alloc_wedge | `PmdMdcAllocWedge.cfg` | violation | `AllocRecoverable` fails in 5 steps: the second commit fails, and the ODELETE of the first mlog on the error path fails too. That mlog is left with refcount 2. |
| mdc0_version_mix | `PmdMdcAllocVersionMix.cfg` | violation | `Mdc0OneFormat` fails in 5 steps. The older binary commits the first mlog of MDC1 and crashes. The newer binary's activation clean-up then appends a new-format ODELETE to MDC0's old-format log, before the upgrade. |
| commit_stats_uaf | `MCPmdMdcStats.cfg` | violation | `CommitStatsOnLiveLayout` fails in 6 steps: realloc, commit, and commit_insert, which puts the layout into `mmi_obj` and unlocks. Then the other thread deletes the object and `pmd_obj_erase_cb` frees the layout before the commit's statistics update reads it. |
| credit_table | `PmdCredit.cfg` | pass | Any MDC count up to four user MDCs, any reported space, cursor, tie order and window tunable: every table written meets `TableProportional`, and the credit sets never overflow or stall. Under weak fairness of the work item, `EveryMdcPrecompacted` holds (967,418 distinct states, about 3 min). |
| credit_div_zero | `PmdCreditDivZero.cfg` | violation | `PrecompactNoDivZero` fails in 1 step: with MDC0 only, the first pre-compactor run divides by zero at 3767. This is TLC's shortest trace; the property also covers 3599 and 3613 (finding 5). |
| props_load | `PmdProps.cfg` | pass | Every MDC0 log of up to 3 records over 2 drives and 2 parms, every descriptor, every read or add failure: `TypeOK` and `PropsLoadMatchesLog` hold (295,608 distinct states, about 25 s). |
| props_unavail_mismatch | `PmdPropsUnavail.cfg` | violation | `PropsLoadUnavailWarns` fails in 1 step: a descriptor drive marked UNAVAIL whose MCCONFIG record has other parms, and the load returns EINVAL. |
Bounds and why they are enough:
- One user MDC. Every property is per slot, and no code path touches two
  user MDCs at once.
- `UniqDelta = 2` and `MaxUniq = 3`: ids 1, 2 (checkpointed) and 3. An id is
  issued after a checkpoint and before a crash. Mutants that restart `luniq`
  wrongly then reissue id 3.
- `MaxLayouts = 2`: two layouts are enough for a collision, for a committed
  object beside an uncommitted one, and for handle reuse after an erase.
- `LogCap = 3` (two threads) and `4` (one thread). These exercise every
  outcome of `addrec`: append; EFBIG, compaction and retry; EFBIG post
  compaction; a compaction that does not fit. With 4, a compaction carries a
  committed object and is followed by successful appends.
- `MaxGen = 1`, `MaxRef = 2`: one erase per mlog, and one extra reference
  (find_get then put).
- `MaxCrash = 1`: one crash at any point, followed by the replay.
- `PmdMdcAlloc`: `MDC_SLOTS = 4` (three user MDCs), `MPOOL_MDC_SET_SZ = 2`.
  A failure in a batch leaves an odd count, which the next batch tops up.
  `Mdc0Cap = 5`: MDC0 compacts, and with three MDCs the compacted log no
  longer fits, which gives EFBIG post compaction. `MaxRef = 3` is one more
  than `pmd_obj_delete` accepts, so EBUSY is reached. Up to three crashes.
  The violation runs use smaller bounds that still reach their trace.
- `PmdCredit`: `MDC_SLOTS = 5` (four user MDCs), `MPOOL_MDC_SET_SZ = 3`,
  `MDC_TBL_SZ = 6`, `Cap = 2` units with `FullDiv = 2` (an MDC with no
  free unit is almost full). `pconbnoalloc` is 0 or 4.
  - With 0, the window is the pre-compacted MDC alone. At five slots it
    leaves three candidates, and all three share the table. At two slots
    `num_mdc` is 0, which is the empty-window edge.
  - With 4, every count of slots is below `pconbnoalloc + 2`, so the code
    takes its no-exclusion branch. Four candidates are then cut to the
    three with most free space.
  - Free spaces 1 and 2 over a table of 6 give exact shares, remainders
    (including one that goes to an MDC whose share is exact) and ties. A
    zero credit needs a table smaller than the total free space, which
    these bounds do not give.
  - TLC confirmed each of these cases is reached, with a property that
    fails when it is. `PmdCredit` has no step once a pool with MDC0 only
    has lost its worker, so this run sets `CHECK_DEADLOCK FALSE`.
- `PmdProps`: two drives, two parms in two classes (`MP_MED_NUMBER = 2`),
  and logs of up to three records. Three records are enough for a replaced
  record (two MCCONFIG for one drive) next to a record of the other drive
  or a spare. Two UNAVAIL drives in one class reach the `uacnt` limit. All
  seven outcomes are reached: OK, EIO, EINVAL, EOPNOTSUPP, ENOMEM, ENXIO
  and the spare failure.

Fairness: one assumption, in `PmdCredit`: weak fairness of the
pre-compactor's run. `pmd_precompact` ends every run with
`queue_delayed_work` (pmd.c:3800-3803). Nothing cancels the work while the
pool is active, so as long as the kworker has not died, another run
follows. The fairness is stated on `PrecompactRuns`, a step that advances
`pco_nmtoc` while the worker is alive. In this module only
`pmd_precompact` takes such a step, and `pmd_update_credit` always yields a
table or an oops, so it admits exactly the runs of `pmd_precompact`. It
also spares TLC rebuilding the credit tables to decide enabledness.
The length reports of application appends get no fairness, because
nothing obliges an application to call them. The other modules state
safety only. Their threads may stop between any two steps, so they check
no liveness.
`PmdProps` has no step after the load, so its runs set `CHECK_DEADLOCK
FALSE`: activation calls `pmd_props_load` once.

### Findings

1. **`pcc_cobj` drifts below the committed count**
   (`pmd_obj_delete_impl`, pmd.c:2056).
   - The decrement runs after `mmi_compactlock` is released.
   - A compaction in between resets the counters to the committed count,
     which already excludes the object. The decrement then applies on top of
     that.
   - The counter stays one too low until the next compaction. This skews
     `pmd_need_compact`'s garbage estimate and `pmd_mdc_needed`.
   - With assertions on, a compaction in the window trips the assert at
     pmd.c:1593.
2. **Realloc during a commit**
   (`pmd_obj_alloc_cmn`, pmd.c:3192, against `pmd_obj_commit`, 1785–1794).
   - The realloc check against `mmi_obj` is meant to reject invalid reallocs
     (comment at pmd.c:3188).
   - A commit has the layout in neither tree between its two lock regions,
     and realloc does not take `mmi_compactlock`. A realloc in that window
     passes the check.
   - Committing the second layout writes a second OCREATE for the objid.
     `pmd_objs_load` fails the next activation with EEXIST, which is exactly
     the outcome the comment in `pmd_obj_commit` calls a serious bug.

3. **MDC allocation wedges after one failed delete**
   (`pmd_obj_delete_impl`, pmd.c:2046, on MDC0 mlogs).
   - When the ODELETE append fails, the rollback sets `eld_refcnt = 2`
     whatever the count was.
   - Two callers hit this. `pmd_mdc_alloc`'s error paths (2555, 2574, 2594)
     delete an mlog whose refcount is 1. The clean-up in
     `pmd_mdc0_validate` (686–706) never puts the reference its
     `pmd_obj_find_get` took.
   - The next `pmd_mdc0_validate(mp, 0)` takes the count to 3.
     `pmd_obj_delete` then returns EBUSY (2012), and allocator mode treats a
     clean-up failure as fatal (720).
   - So every later `pmd_mdc_alloc` fails until the pool is re-activated.
     The comment at 589–592 promises that the next validation cleans such
     detritus up.
4. **MDC0 holds old and new records after a recovered allocation**
   (`pmd_mpool_activate`, pmd.c:1103, against 1338 and 3919–3920).
   - The comment in `pmd_write_meta_to_latest_version` compacts MDC0 first
     "to avoid having a potential mix of new and old records in MDC0".
     spec.md says the codec follows the content version read from the log,
     and that VERSION must come first.
   - But `pmd_mdc0_validate(mp, 1)` runs earlier in activation. When it
     cleans up a half-created MDC, it appends ODELETE records in the latest
     format to a log still at the old version.
   - The upgrade compaction at 1338 removes the mix only if it runs and
     succeeds. If it fails (activation fails), or the system crashes before
     it, the mixed log stays on media. The next `pmd_objs_load(mp, 0)`
     decodes it with the old version.

5. **The pre-compactor dies on three divisions by zero**
   (`pmd_precompact`, pmd.c:3767; `pmd_update_credit`, 3599 and 3613).
   - 3767: the cursor is taken `% (slotvcnt - 1)` before any check.
     `slotvcnt = 1` is a state the code expects: activation leaves it after
     cleaning up a half-created MDC1, and `pmd_update_credit` (3516) and
     `pmd_alloc_idgen` (2922) both test for it.
   - 3599: an MDC with `pcc_cap == 0` is "closed for now" to
     `pmd_need_compact` and `pmd_mdc_needed`, but `pmd_update_credit` keeps
     it with `ci_free = 0`. If all chosen MDCs are in that state, the total
     is 0. This happens when the pre-compactor runs after activation, before
     any `pmd_precompact_alsz` report.
   - 3613: at `slotvcnt = pconbnoalloc + 2`, `num_mdc` is 0. The comment
     says the window is impossible only below that count. The same happens
     when every candidate is almost full. The remainder loop then computes
     `sidx % 0`.
   - Each of these ends the kworker, and with it every later compaction and
     table refresh.
6. **Commit reads a freed layout for its statistics**
   (`pmd_obj_commit`, pmd.c:1832, against `pmd_obj_erase_cb`, 1836-1859).
   - `pmd_obj_commit` releases `mmi_compactlock` and the layout's write lock
     (1828-1829). Only then does it call `pmd_update_mdc_stats(mp, layout,
     ...)`, which reads `eld_objid` and `eld_mblen`.
   - By then the layout is in `mmi_obj`. Another thread can do the
     following before the statistics update runs:
     - `pmd_obj_find_get` it (refcount 2, which `pmd_obj_delete` accepts);
     - delete it;
     - queue the erase, whose callback calls `pmd_layout_free`.
   - The commit then reads freed memory. Even when the free comes later,
     DELETE is applied before COMMIT, so the u64 `pms_mblock_wlen` wraps
     below zero for a moment, and `pmd_mpool_usage` can report that.

7. **A parms mismatch on an UNAVAIL drive fails activation**
   (`pmd_cmp_drv_mdc0`, pmd.c:248, against spec.md 4.H).
   - spec.md says a mismatch between a descriptor drive and its MCCONFIG
     record is fatal unless the drive is UNAVAIL, in which case the load
     warns.
   - The code chooses the warning text by the drive's status, but returns
     EINVAL in both branches.
   - So a pool whose missing drive was recorded with other parms cannot be
     activated in degraded mode.

Remark. A `pmd_obj_find_get` can miss an object that is being committed
(pmd.c:2325, against `pmd_obj_commit`, 1776-1785). The commit leaves the
layout in neither tree between its `mmi_uncobj` removal and its `mmi_obj`
insertion. `pmd_obj_find_get` takes neither `mmi_compactlock` nor the
layout lock, so in that window it returns NULL for an object whose OCREATE
is durable. The model reaches this in 4 steps. spec.md 4.E does not say
whether the miss is allowed, so no run checks it as a property.

## Plan (later work)

1. (Done: `PmdMdcAlloc`, with the upgrade loop.) Still open for MDC0: its
   pool-property records.
2. (Done: `PmdCatalog` and `CatalogRefined`.) Next, extend the catalogue
   with MDC0's map, so that `PmdMdcAlloc` can refine it too.
3. (Done: `PmdCredit`.)
4. (Done for the rotation: `EveryMdcPrecompacted`.) Whether a visited
   MDC is compacted depends on the tunables of `pmd_need_compact`, which
   `PmdCredit` leaves free.
5. (Done: `PmdProps` for `pmd_props_load`, and `PmdMdcAlloc` for
   `pmd_write_meta_to_latest_version`.)

## Not modelled, and why

- **SMAP, ECIO, the MDC log and OMF encoding.** They are outside this file.
  Their observable effect is success or failure of the call, and that is
  modelled.
- **Statistics, in part.** `PmdMdc` models `pmd_update_mdc_stats` and
  every call to it. `pmd_mpool_usage` and `pmd_mdc_cap` only read and sum
  the counters under the stats lock, and change no state, so they have no
  action. Byte sizes are one unit per object. `pmd_precompact_alsz` is
  modelled in `PmdCredit`.
- **Superblock writeback** (`pmd_mdc0_meta_update`). It copies the
  in-memory MDC0 image `pds_sbmdc0` into a superblock and writes it through
  the SB component, outside this file. The image is read back at activation
  by code that is also outside this file. `pmd_obj_erase` of an MDC0 mlog
  sets the new gen in `pds_sbmdc0` before the write, and leaves it there
  when the write fails (pmd.c:2196-2206). That is listed as a hazard.
  Checking it would need a model of how activation picks MDC0's active
  mlog from the superblock, and that code is not here.
- **Teardown** (`pmd_mpool_deactivate`, `pmd_mda_free`). It is serialised
  by `pmd_s_lock` and frees every map and log with no step that another
  action of these models could interleave with. Stopping the pre-compactor
  (`pmd_precompact_stop`) and draining the erase queue are up to the
  callers, outside this file.
- **MDC0's pool-property records in `PmdMdcAlloc`.** `PmdMdcAlloc` keeps
  only MDC0's object records. `PmdProps` reads the property records
  separately, but neither model writes them. `MPCONFIG` only sets
  `pds_cfg`, so `PmdProps` leaves it out. `pmd_smap_insert` is not
  modelled.
- **OUPDATE and `pcc_up`.** The code never logs OUPDATE for user MDCs; it
  only replays the record.
