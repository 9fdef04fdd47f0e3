------------------------------- MODULE PmdMdc -------------------------------
(***************************************************************************)
(* The user metadata containers MDC1..MDCn of the pool metadata (pmd)      *)
(* module, src/src/pmd.c: per-slot committed and uncommitted object maps,  *)
(* object-id generation with OIDCKPT checkpoints, the object lifecycle     *)
(* (alloc, realloc, commit, abort, delete, erase, get, put, find_get),    *)
(* the append path pmd_mdc_addrec with compaction on a full log, the      *)
(* background pre-compactor, and a crash followed by re-activation, which *)
(* replays every MDC log (pmd_objs_load).                                 *)
(*                                                                         *)
(* The variable mdclog holds the durable content of each MDC's active     *)
(* mlog: a synchronous append is durable when it returns, and compaction  *)
(* replaces the whole active log atomically at cend.  Layouts are the      *)
(* in-memory ecio_layout_descriptor structures, named by handles; the      *)
(* maps mmi_obj and mmi_uncobj hold handles, keyed by the objid of the     *)
(* layout, exactly like the rb trees of the code.                          *)
(***************************************************************************)
EXTENDS PmdObjid, Integers, Sequences, FiniteSets, SequencesExt, Functions

CONSTANTS
    Threads,        \* client threads calling the pmd object API
    MaxLayouts,     \* bound on layout descriptors alive at once
    MaxGen,         \* bound on mlog generations (pmd_obj_erase)
    MaxRef,         \* bound on eld_refcnt
    LogCap,         \* records the active mlog of an MDC holds before EFBIG
    MaxCrash,       \* bound on crash/re-activation cycles
    PcoPctFull,     \* mp_pcopctfull tunable
    PcoPctGarbage,  \* mp_pcopctgarbage tunable
    IoFail,         \* TRUE: mlog appends and compactions may fail with an I/O error
    ReallocLive,    \* TRUE: clients may realloc an objid that a live layout still has
    None            \* model value: no thread holds the lock

ASSUME MaxLayouts \in Nat \ {0} /\ MaxGen \in Nat /\ MaxRef \in Nat \ {0}
ASSUME LogCap \in Nat \ {0} /\ MaxCrash \in Nat
ASSUME IoFail \in BOOLEAN /\ ReallocLive \in BOOLEAN

Handles == 1 .. MaxLayouts

(***************************************************************************)
(* MDC records (omf_mdcrec_data), abstracted to the fields replay reads.   *)
(***************************************************************************)
RecKinds == {"VERSION", "OCREATE", "ODELETE", "OIDCKPT", "OERASE"}
Rec == [k : RecKinds, oid : Objids \cup {NoOid}, u : 0 .. MaxUniq, gen : 0 .. MaxGen]
VersionRec      == [k |-> "VERSION", oid |-> NoOid, u |-> 0, gen |-> 0]
OCreateRec(o, g) == [k |-> "OCREATE", oid |-> o, u |-> 0, gen |-> g]
ODeleteRec(o)    == [k |-> "ODELETE", oid |-> o, u |-> 0, gen |-> 0]
OIdCkptRec(u)    == [k |-> "OIDCKPT", oid |-> NoOid, u |-> u, gen |-> 0]
OEraseRec(o, g)  == [k |-> "OERASE", oid |-> o, u |-> 0, gen |-> g]

(***************************************************************************)
(* Layout descriptor fields the pmd code reads and writes.  ECIO_LYT_*    *)
(* state bits are the booleans committed and removed.                      *)
(***************************************************************************)
Layout == [oid : Objids, gen : 0 .. MaxGen, committed : BOOLEAN,
           removed : BOOLEAN, isdel : BOOLEAN, refcnt : 0 .. MaxRef]
FreeLayout == [oid |-> <<1, 1, "mblock">>, gen |-> 0, committed |-> FALSE,
               removed |-> FALSE, isdel |-> FALSE, refcnt |-> 0]
PccCtrs == [cr : Nat, cobj : Int, del : Nat, er : Nat]
NoPcc   == [cr |-> 0, cobj |-> 0, del |-> 0, er |-> 0]

(***************************************************************************)
(* Per-MDC space statistics (struct pmd_mdc_stats).  An object's capacity *)
(* and an mblock's written length are one unit, so the _alen sums equal   *)
(* the counts and pms_mblock_wlen counts written mblocks; a u64 below zero *)
(* is kept as a negative number.                                          *)
(***************************************************************************)
Stats   == [mblock_cnt : Int, mlog_cnt : Int, mblock_wlen : Int]
NoStats == [mblock_cnt |-> 0, mlog_cnt |-> 0, mblock_wlen |-> 0]
\* The switch of pmd_update_mdc_stats: LOAD falls through to ALLOC,
\* DELETE to ABORT.
CntDelta  == [LOAD |-> 1, ALLOC |-> 1, COMMIT |-> 0, DELETE |-> -1, ABORT |-> -1]
WlenDelta == [LOAD |-> 1, ALLOC |-> 0, COMMIT |-> 1, DELETE |-> -1, ABORT |-> 0]

\* Mutant: PMD_OBJ_LOAD does not fall through to PMD_OBJ_ALLOC.
pmd_update_mdc_stats_nofall(st, ty, op) ==
    LET d == IF op = "LOAD" THEN 0 ELSE CntDelta[op] IN
    IF ty = "mblock"
    THEN [st EXCEPT !.mblock_cnt = @ + d, !.mblock_wlen = @ + WlenDelta[op]]
    ELSE [st EXCEPT !.mlog_cnt = @ + d]

\* pmd_update_mdc_stats(): the statistics after operation op on an object
\* of type ty, under mmi_stats_lock.
pmd_update_mdc_stats(st, ty, op) ==
    IF ty = "mblock"
    THEN [st EXCEPT !.mblock_cnt = @ + CntDelta[op],
                    !.mblock_wlen = @ + WlenDelta[op]]
    ELSE [st EXCEPT !.mlog_cnt = @ + CntDelta[op]]

\* What a thread is doing between two atomic steps of one API call.
Phases  == {"idle", "alloc", "commit", "cstats", "delfin", "find"}
NoLocal == [h |-> 0, oid |-> NoOid, found |-> FALSE, err |-> FALSE]

VARIABLES
    mdclog,      \* slot -> durable records of the MDC's active mlog
    luniq,       \* slot -> mmi_luniq, highest uniq issued
    lckpt,       \* slot -> uniq of mmi_lckpt, last checkpointed uniq
    obj,         \* slot -> mmi_obj, handles of committed layouts
    uncobj,      \* slot -> mmi_uncobj, handles of uncommitted layouts
    lay,         \* handle -> layout descriptor
    live,        \* handles of allocated (not yet freed) layouts
    erasing,     \* handles queued on pds_erase_wq by pmd_obj_erase_start
    pco_cnt,     \* slot -> pre-compaction counters pcc_cr/cobj/del/er
    compactlock, \* slot -> thread holding mmi_compactlock across two steps
    wrlock,      \* handle -> thread holding the layout rwlock for writing
    pc,          \* thread -> phase of its current call
    loc,         \* thread -> the call's locals carried between steps
    pco_nmtoc,   \* pre-compactor cursor, pco_nmtoc modulo the user MDCs
    crashes,     \* crash/re-activation cycles so far
    stats,       \* slot -> mmi_stats
    issued       \* history: slot -> every uniq pmd_alloc_idgen handed out

vars == <<mdclog, luniq, lckpt, obj, uncobj, lay, live, erasing, pco_cnt,
          compactlock, wrlock, pc, loc, pco_nmtoc, crashes, stats, issued>>

TypeOK ==
    /\ mdclog \in [Slots -> Seq(Rec)]
    /\ \A s \in Slots : Len(mdclog[s]) <= LogCap
    /\ luniq \in [Slots -> 0 .. MaxUniq + UniqDelta]
    /\ lckpt \in [Slots -> 0 .. MaxUniq]
    /\ obj \in [Slots -> SUBSET Handles] /\ uncobj \in [Slots -> SUBSET Handles]
    /\ lay \in [Handles -> Layout]
    /\ live \subseteq Handles /\ erasing \subseteq live
    /\ pco_cnt \in [Slots -> PccCtrs]
    /\ compactlock \in [Slots -> Threads \cup {None}]
    /\ wrlock \in [Handles -> Threads \cup {None}]
    /\ pc \in [Threads -> Phases]
    /\ loc \in [Threads -> [h : Handles \cup {0}, oid : Objids \cup {NoOid},
                            found : BOOLEAN, err : BOOLEAN]]
    /\ pco_nmtoc \in 0 .. NumMdc - 1
    /\ crashes \in 0 .. MaxCrash
    /\ stats \in [Slots -> Stats]
    /\ issued \in [Slots -> SUBSET (1 .. MaxUniq)]

-----------------------------------------------------------------------------
(***************************************************************************)
(* Helpers on the maps.                                                    *)
(***************************************************************************)
\* objid_to_layout_search_mdc(): the layouts of a map with this objid.
Search(m, oid) == {h \in m : lay[h].oid = oid}
Oids(m) == {lay[h].oid : h \in m}
\* rb-tree order of objids: slot, then uniq, then type.
OidLess(a, b) ==
    \/ a[1] < b[1]
    \/ a[1] = b[1] /\ a[2] < b[2]
    \/ a[1] = b[1] /\ a[2] = b[2] /\ a[3] = "mblock" /\ b[3] = "mlog"


-----------------------------------------------------------------------------
(***************************************************************************)
(* pmd_objs_load(cslot > 0): replay of an MDC log.  The result is the net *)
(* committed map (objid -> gen), the last checkpoint, the pre-compaction  *)
(* counters, and ok = FALSE where the code fails the activation.          *)
(***************************************************************************)
ReplayInit == [ok |-> TRUE, co |-> <<>>, lckpt |-> 0, cr |-> 0, cobj |-> 0,
               del |-> 0, er |-> 0]

pmd_objs_load_rec(st, r) ==
    CASE ~st.ok -> st
      [] r.k = "VERSION" -> st
      \* OCREATE duplicate object ID: EEXIST
      [] r.k = "OCREATE" /\ r.oid \in DOMAIN st.co -> [st EXCEPT !.ok = FALSE]
      [] r.k = "OCREATE" ->
            [st EXCEPT !.co = (r.oid :> r.gen) @@ @, !.cr = @ + 1, !.cobj = @ + 1]
      \* ODELETE object not found: ENOENT
      [] r.k = "ODELETE" /\ r.oid \notin DOMAIN st.co -> [st EXCEPT !.ok = FALSE]
      [] r.k = "ODELETE" ->
            [st EXCEPT !.co = Restrict(@, DOMAIN @ \ {r.oid}), !.del = @ + 1,
                       !.cobj = @ - 1]
      \* OIDCKPT not above the previous checkpoint (unless both are 0): EINVAL
      [] r.k = "OIDCKPT" /\ (r.u # 0 \/ st.lckpt # 0) /\ r.u <= st.lckpt ->
            [st EXCEPT !.ok = FALSE]
      [] r.k = "OIDCKPT" -> [st EXCEPT !.lckpt = r.u]
      \* OERASE of a missing object, or with a gen below the layout's: fail
      [] r.k = "OERASE" /\ (r.oid \notin DOMAIN st.co \/ r.gen < st.co[r.oid]) ->
            [st EXCEPT !.ok = FALSE]
      [] r.k = "OERASE" -> [st EXCEPT !.co[r.oid] = r.gen, !.er = @ + 1]

\* The read loop: records in log order until the end of the log.  (A
\* direct recursion: this is evaluated on every state and step.)
RECURSIVE ReplayFrom(_, _)
ReplayFrom(st, lg) ==
    IF lg = <<>> THEN st ELSE ReplayFrom(pmd_objs_load_rec(st, Head(lg)), Tail(lg))

Replay(s) == ReplayFrom(ReplayInit, mdclog[s])

-----------------------------------------------------------------------------
(***************************************************************************)
(* The append path and compaction of MDCi, i > 0.                          *)
(***************************************************************************)
\* pmd_mdc_append(): EFBIG when the active mlog is full, else the record is
\* appended, or the append fails with an I/O error and nothing is written.
pmd_mdc_append(lg, rec) ==
    IF Len(lg) >= LogCap THEN {[err |-> "EFBIG", log |-> lg]}
    ELSE {[err |-> "OK", log |-> Append(lg, rec)]}
         \cup (IF IoFail THEN {[err |-> "EIO", log |-> lg]} ELSE {})

\* pmd_log_all_mdc_cobjs() walks mmi_obj in objid order.
SortedObj(s) == SetToSortSeq(obj[s], LAMBDA a, b : OidLess(lay[a].oid, lay[b].oid))

\* Mutant: the compaction checkpoints luniq instead of lckpt.
CompactedLog_luniq(s) ==
    <<VersionRec, OIdCkptRec(luniq[s])>>
    \o [i \in 1 .. Cardinality(obj[s]) |->
            OCreateRec(lay[SortedObj(s)[i]].oid, lay[SortedObj(s)[i]].gen)]

\* cstart; VERSION; OIDCKPT(lckpt) (pmd_log_non_mdc0_cobjs); one OCREATE
\* per committed layout; cend swaps the new log in.
CompactedLog(s) ==
    <<VersionRec, OIdCkptRec(lckpt[s])>>
    \o [i \in 1 .. Cardinality(obj[s]) |->
            OCreateRec(lay[SortedObj(s)[i]].oid, lay[SortedObj(s)[i]].gen)]

\* pmd_mdc_compact(): the retries either end in a cutover to the compacted
\* log, or all fail (the live state does not fit, or I/O errors) and the
\* old active log stays.
pmd_mdc_compact(s) ==
    (IF Len(CompactedLog(s)) <= LogCap
     THEN {[ok |-> TRUE, log |-> CompactedLog(s)]} ELSE {})
    \cup (IF IoFail \/ Len(CompactedLog(s)) > LogCap
          THEN {[ok |-> FALSE, log |-> mdclog[s]]} ELSE {})

\* pmd_pre_compact_reset(): counters after a compaction of n objects.
pmd_pre_compact_reset(n) == [cr |-> n, cobj |-> n, del |-> 0, er |-> 0]

\* pmd_mdc_addrec(): append with sync; on EFBIG compact and retry once.
\* cpt says a compaction cut over, which resets the counters.
pmd_mdc_addrec(s, rec) ==
    IF Len(mdclog[s]) < LogCap
    THEN {[err |-> a.err # "OK", log |-> a.log, cpt |-> FALSE] :
              a \in pmd_mdc_append(mdclog[s], rec)}
    ELSE {[err |-> TRUE, log |-> c.log, cpt |-> FALSE] :
              c \in {x \in pmd_mdc_compact(s) : ~x.ok}}
         \cup {[err |-> a.err # "OK", log |-> a.log, cpt |-> TRUE] :
                   a \in UNION {pmd_mdc_append(c.log, rec) :
                                    c \in {x \in pmd_mdc_compact(s) : x.ok}}}

\* The counters once an addrec has returned.
PccAfter(s, r) ==
    IF r.cpt THEN pmd_pre_compact_reset(Cardinality(obj[s])) ELSE pco_cnt[s]

-----------------------------------------------------------------------------
(***************************************************************************)
(* Initial state: an activated pool whose user MDCs hold no objects yet.   *)
(* luniq is UniqDelta - 1 after pmd_objs_load of an empty MDC, or 0 for an *)
(* MDC that pmd_mdc_alloc() has just created.                              *)
(***************************************************************************)
Init ==
    /\ mdclog = [s \in Slots |-> <<VersionRec>>]
    /\ luniq \in [Slots -> {0, UniqDelta - 1}]
    /\ lckpt = [s \in Slots |-> 0]
    /\ obj = [s \in Slots |-> {}] /\ uncobj = [s \in Slots |-> {}]
    /\ lay = [h \in Handles |-> FreeLayout]
    /\ live = {} /\ erasing = {}
    /\ pco_cnt = [s \in Slots |-> NoPcc]
    /\ compactlock = [s \in Slots |-> None]
    /\ wrlock = [h \in Handles |-> None]
    /\ pc = [t \in Threads |-> "idle"] /\ loc = [t \in Threads |-> NoLocal]
    /\ pco_nmtoc = 0 /\ crashes = 0
    /\ stats = [s \in Slots |-> NoStats]
    /\ issued = [s \in Slots |-> {}]

\* Thread t returns from its current call.
Return(t) == pc' = [pc EXCEPT ![t] = "idle"] /\ loc' = [loc EXCEPT ![t] = NoLocal]

-----------------------------------------------------------------------------
(***************************************************************************)
(* Allocation: pmd_obj_alloc() = pmd_alloc_idgen(), then the layout and    *)
(* insertion into mmi_uncobj; pmd_obj_realloc() validates a given objid.   *)
(***************************************************************************)
\* Mutant: luniq advances even when the OIDCKPT append failed.
pmd_alloc_idgen_noerr(t, s, ty) ==
    LET u == luniq[s] + 1 IN
    /\ pc[t] = "idle"
    /\ u <= MaxUniq
    /\ \/ /\ ~objid_ckpt(u)
          /\ UNCHANGED <<mdclog, lckpt, pco_cnt>>
       \/ /\ objid_ckpt(u)
          /\ compactlock[s] = None
          /\ \E r \in pmd_mdc_addrec(s, OIdCkptRec(u)) :
                /\ mdclog' = [mdclog EXCEPT ![s] = r.log]
                /\ pco_cnt' = [pco_cnt EXCEPT ![s] = PccAfter(s, r)]
                /\ lckpt' = IF r.err THEN lckpt ELSE [lckpt EXCEPT ![s] = u]
    /\ luniq' = [luniq EXCEPT ![s] = u]
    /\ issued' = [issued EXCEPT ![s] = @ \cup {u}]
    /\ pc' = [pc EXCEPT ![t] = "alloc"]
    /\ loc' = [loc EXCEPT ![t] = [NoLocal EXCEPT !.oid = <<s, u, ty>>]]
    /\ UNCHANGED <<obj, uncobj, lay, live, erasing, compactlock, wrlock,
                   pco_nmtoc, crashes, stats>>

\* pmd_alloc_idgen(): under mmi_uqlock take luniq + 1; when that uniq must
\* be checkpointed, log OIDCKPT under mmi_compactlock first.  luniq only
\* advances when the checkpoint (if any) is durable.  The slot picked from
\* mds_tbl is any user MDC.
pmd_alloc_idgen(t, s, ty) ==
    LET u == luniq[s] + 1 IN
    /\ pc[t] = "idle"
    /\ u <= MaxUniq
    /\ \/ /\ ~objid_ckpt(u)
          /\ luniq' = [luniq EXCEPT ![s] = u]
          /\ issued' = [issued EXCEPT ![s] = @ \cup {u}]
          /\ pc' = [pc EXCEPT ![t] = "alloc"]
          /\ loc' = [loc EXCEPT ![t] = [NoLocal EXCEPT !.oid = <<s, u, ty>>]]
          /\ UNCHANGED <<mdclog, lckpt, pco_cnt>>
       \/ /\ objid_ckpt(u)
          /\ compactlock[s] = None
          /\ \E r \in pmd_mdc_addrec(s, OIdCkptRec(u)) :
                /\ mdclog' = [mdclog EXCEPT ![s] = r.log]
                /\ pco_cnt' = [pco_cnt EXCEPT ![s] = PccAfter(s, r)]
                /\ IF r.err
                   THEN UNCHANGED <<lckpt, luniq, issued, pc, loc>>
                   ELSE /\ lckpt' = [lckpt EXCEPT ![s] = u]
                        /\ luniq' = [luniq EXCEPT ![s] = u]
                        /\ issued' = [issued EXCEPT ![s] = @ \cup {u}]
                        /\ pc' = [pc EXCEPT ![t] = "alloc"]
                        /\ loc' = [loc EXCEPT ![t] = [NoLocal EXCEPT !.oid = <<s, u, ty>>]]
    /\ UNCHANGED <<obj, uncobj, lay, live, erasing, compactlock, wrlock,
                   pco_nmtoc, crashes, stats>>

\* The tail of pmd_obj_alloc_cmn() for objid o: ecio_layout_alloc() and
\* pmd_layout_alloc() (ENOMEM when no descriptor is free, ENOSPC/ENOENT
\* from the space map once the retries are spent), then under mmi_uncolock
\* the realloc check against mmi_obj and the insert into mmi_uncobj, where
\* a duplicate gives EEXIST and frees the layout.  The statistics count
\* the object (PMD_OBJ_ALLOC) before the insert, and an EEXIST undoes
\* that with PMD_OBJ_ABORT.
AllocLayout(o, realloc) ==
    LET s == objid_slot(o)
        h == Min(Handles \ live)
    IN
    \/ /\ \/ live = Handles
          \/ IoFail
          \/ realloc /\ Search(obj[s], o) # {}
          \/ Search(uncobj[s], o) # {}
       /\ UNCHANGED <<uncobj, lay, live, stats>>
    \/ /\ live # Handles
       /\ ~(realloc /\ Search(obj[s], o) # {})
       /\ Search(uncobj[s], o) = {}
       /\ live' = live \cup {h}
       /\ lay' = [lay EXCEPT ![h] = [FreeLayout EXCEPT !.oid = o, !.refcnt = 1]]
       /\ uncobj' = [uncobj EXCEPT ![s] = @ \cup {h}]
       /\ stats' = [stats EXCEPT ![s] = pmd_update_mdc_stats(@, objid_type(o), "ALLOC")]

pmd_obj_alloc(t) ==
    /\ pc[t] = "alloc"
    /\ AllocLayout(loc[t].oid, FALSE)
    /\ Return(t)
    /\ UNCHANGED <<mdclog, luniq, lckpt, obj, erasing, pco_cnt, compactlock,
                   wrlock, pco_nmtoc, crashes, issued>>

\* A client reallocs an objid that no live layout holds and no allocation
\* in flight was given (re-creating an uncommitted object lost in a
\* crash), or, with ReallocLive, any objid.
ReallocTargets(s) ==
    {o \in Objids : /\ objid_slot(o) = s
                    /\ \/ ReallocLive
                       \/ /\ \A h \in live : lay[h].oid # o
                          /\ \A t \in Threads : loc[t].oid # o}

\* pmd_realloc_idvalidate(): EINVAL when uniq is above mmi_luniq (the slot
\* is a user MDC below slotvcnt by construction).
pmd_realloc_idvalidate(s, o) == objid_uniq(o) <= luniq[s]

\* pmd_obj_realloc(): pmd_realloc_idvalidate() (EINVAL if uniq > luniq),
\* then the same layout allocation and insertion with the realloc check.
pmd_obj_realloc(t, s, o) ==
    /\ pc[t] = "idle"
    /\ o \in ReallocTargets(s)
    /\ pmd_realloc_idvalidate(s, o)
    /\ AllocLayout(o, TRUE)
    /\ UNCHANGED <<mdclog, luniq, lckpt, obj, erasing, pco_cnt, compactlock,
                   wrlock, pc, loc, pco_nmtoc, crashes, issued>>

-----------------------------------------------------------------------------
(***************************************************************************)
(* pmd_obj_commit(), in two steps.  Step one takes the layout write lock   *)
(* and mmi_compactlock, logs OCREATE, marks the layout committed and takes *)
(* it out of mmi_uncobj (under mmi_uncolock).  Step two inserts it into    *)
(* mmi_obj (under mmi_colock) and releases both locks.  A client commits  *)
(* only a layout it allocated and has not aborted.                         *)
(***************************************************************************)
\* Mutant: no "already committed" early return.
pmd_obj_commit_recommit(t, h) ==
    LET o == lay[h].oid
        s == objid_slot(o)
    IN
    /\ pc[t] = "idle"
    /\ h \in live /\ ~lay[h].removed
    /\ wrlock[h] = None /\ compactlock[s] = None
    /\ \E r \in pmd_mdc_addrec(s, OCreateRec(o, lay[h].gen)) :
          /\ mdclog' = [mdclog EXCEPT ![s] = r.log]
          /\ pco_cnt' = [pco_cnt EXCEPT ![s] = PccAfter(s, r)]
          /\ IF r.err
             THEN UNCHANGED <<lay, uncobj, compactlock, wrlock, pc, loc>>
             ELSE /\ lay' = [lay EXCEPT ![h].committed = TRUE]
                  /\ uncobj' = [uncobj EXCEPT ![s] = @ \ Search(@, o)]
                  /\ compactlock' = [compactlock EXCEPT ![s] = t]
                  /\ wrlock' = [wrlock EXCEPT ![h] = t]
                  /\ pc' = [pc EXCEPT ![t] = "commit"]
                  /\ loc' = [loc EXCEPT ![t] = [NoLocal EXCEPT !.h = h, !.oid = o]]
    /\ UNCHANGED <<luniq, lckpt, obj, live, erasing, pco_nmtoc, crashes, stats, issued>>

pmd_obj_commit(t, h) ==
    LET o == lay[h].oid
        s == objid_slot(o)
    IN
    /\ pc[t] = "idle"
    /\ h \in live /\ ~lay[h].removed
    /\ wrlock[h] = None /\ compactlock[s] = None
    /\ ~lay[h].committed          \* else: already committed, returns 0
    /\ \E r \in pmd_mdc_addrec(s, OCreateRec(o, lay[h].gen)) :
          /\ mdclog' = [mdclog EXCEPT ![s] = r.log]
          /\ pco_cnt' = [pco_cnt EXCEPT ![s] = PccAfter(s, r)]
          /\ IF r.err
             THEN UNCHANGED <<lay, uncobj, compactlock, wrlock, pc, loc>>
             ELSE /\ lay' = [lay EXCEPT ![h].committed = TRUE]
                  /\ uncobj' = [uncobj EXCEPT ![s] = @ \ Search(@, o)]
                  /\ compactlock' = [compactlock EXCEPT ![s] = t]
                  /\ wrlock' = [wrlock EXCEPT ![h] = t]
                  /\ pc' = [pc EXCEPT ![t] = "commit"]
                  /\ loc' = [loc EXCEPT ![t] = [NoLocal EXCEPT !.h = h, !.oid = o]]
    /\ UNCHANGED <<luniq, lckpt, obj, live, erasing, pco_nmtoc, crashes, stats, issued>>

\* objid_to_layout_insert_mdc(mmi_obj): on a collision (EEXIST) the layout
\* goes back to mmi_uncobj and the call returns; else pcc_cr and pcc_cobj
\* are incremented and, once both locks are released, the statistics
\* update follows as a step of its own.
pmd_obj_commit_insert(t) ==
    LET h == loc[t].h
        o == lay[h].oid
        s == objid_slot(o)
    IN
    /\ pc[t] = "commit"
    /\ IF Search(obj[s], o) = {}
       THEN /\ obj' = [obj EXCEPT ![s] = @ \cup {h}]
            /\ pco_cnt' = [pco_cnt EXCEPT ![s].cr = @ + 1, ![s].cobj = @ + 1]
            /\ pc' = [pc EXCEPT ![t] = "cstats"]
            /\ UNCHANGED <<uncobj, loc>>
       ELSE /\ uncobj' = [uncobj EXCEPT ![s] = @ \cup {h}]
            /\ Return(t)
            /\ UNCHANGED <<obj, pco_cnt>>
    /\ compactlock' = [compactlock EXCEPT ![s] = None]
    /\ wrlock' = [wrlock EXCEPT ![h] = None]
    /\ UNCHANGED <<mdclog, luniq, lckpt, lay, live, erasing, pco_nmtoc,
                   crashes, stats, issued>>

\* The type pmd_update_mdc_stats reads from the layout: the committed
\* object's, or, once the layout has been freed, whatever the memory holds.
LayoutTypeRead(t) ==
    IF loc[t].h \in live /\ lay[loc[t].h].oid = loc[t].oid
    THEN {objid_type(loc[t].oid)} ELSE Otypes

\* The tail of pmd_obj_commit: pmd_update_mdc_stats(PMD_OBJ_COMMIT) on the
\* layout, with no lock held but mmi_stats_lock.
pmd_obj_commit_stats(t) ==
    LET s == objid_slot(loc[t].oid) IN
    /\ pc[t] = "cstats"
    /\ \E ty \in LayoutTypeRead(t) :
          stats' = [stats EXCEPT ![s] = pmd_update_mdc_stats(@, ty, "COMMIT")]
    /\ Return(t)
    /\ UNCHANGED <<mdclog, luniq, lckpt, obj, uncobj, lay, live, erasing,
                   pco_cnt, compactlock, wrlock, pco_nmtoc, crashes, issued>>

\* pmd_obj_erase_start(): queue the layout on pds_erase_wq (or, without
\* memory for the work item, run the erase synchronously: the same
\* pmd_obj_erase_cb step, taken at once).
pmd_obj_erase_start(h) == erasing' = erasing \cup {h}

\* Mutant: the layout stays in mmi_uncobj.
pmd_obj_abort_nounlink(t, h) ==
    /\ pc[t] = "idle"
    /\ h \in live /\ wrlock[h] = None
    /\ ~lay[h].committed /\ ~lay[h].isdel /\ lay[h].refcnt <= 2
    /\ lay' = [lay EXCEPT ![h].refcnt = 0, ![h].isdel = TRUE, ![h].removed = TRUE]
    /\ stats' = [stats EXCEPT ![objid_slot(lay[h].oid)] =
                    pmd_update_mdc_stats(@, objid_type(lay[h].oid), "ABORT")]
    /\ erasing' = erasing \cup {h}
    /\ UNCHANGED <<mdclog, luniq, lckpt, obj, uncobj, live, pco_cnt, compactlock,
                   wrlock, pc, loc, pco_nmtoc, crashes, issued>>

\* pmd_obj_abort(): EINVAL if committed or isdel, EBUSY if refcnt > 2;
\* else mark the layout deleted, take it out of mmi_uncobj and hand it to
\* the erase work queue (pmd_obj_erase_start).
pmd_obj_abort(t, h) ==
    LET o == lay[h].oid
        s == objid_slot(o)
    IN
    /\ pc[t] = "idle"
    /\ h \in live /\ wrlock[h] = None
    /\ ~lay[h].committed /\ ~lay[h].isdel /\ lay[h].refcnt <= 2
    /\ lay' = [lay EXCEPT ![h].refcnt = 0, ![h].isdel = TRUE, ![h].removed = TRUE]
    /\ uncobj' = [uncobj EXCEPT ![s] = @ \ Search(@, o)]
    /\ stats' = [stats EXCEPT ![s] = pmd_update_mdc_stats(@, objid_type(o), "ABORT")]
    /\ pmd_obj_erase_start(h)
    /\ UNCHANGED <<mdclog, luniq, lckpt, obj, live, pco_cnt, compactlock,
                   wrlock, pc, loc, pco_nmtoc, crashes, issued>>

-----------------------------------------------------------------------------
(***************************************************************************)
(* pmd_obj_delete() = pmd_obj_delete_impl(), in two steps.  Step one runs  *)
(* under the layout write lock and mmi_compactlock: the refcnt/isdel       *)
(* check, the deleted marks, ODELETE, and removal from mmi_obj, or on a    *)
(* log failure the rollback of the marks (refcnt back to 2).  Step two,   *)
(* after both locks are released, decrements pcc_cobj if the object was   *)
(* found, increments pcc_del and starts the erase.                         *)
(***************************************************************************)
pmd_obj_delete(t, h) ==
    LET o == lay[h].oid
        s == objid_slot(o)
    IN
    /\ pc[t] = "idle"
    /\ h \in live /\ wrlock[h] = None /\ compactlock[s] = None
    /\ lay[h].committed /\ ~lay[h].removed /\ ~lay[h].isdel /\ lay[h].refcnt <= 2
    /\ \E r \in pmd_mdc_addrec(s, ODeleteRec(o)) :
          /\ mdclog' = [mdclog EXCEPT ![s] = r.log]
          /\ pco_cnt' = [pco_cnt EXCEPT ![s] = PccAfter(s, r)]
          /\ IF r.err
             THEN /\ lay' = [lay EXCEPT ![h].refcnt = 2, ![h].isdel = FALSE,
                                        ![h].removed = FALSE]
                  /\ UNCHANGED <<obj, pc, loc>>
             ELSE /\ lay' = [lay EXCEPT ![h].refcnt = 0, ![h].isdel = TRUE,
                                        ![h].removed = TRUE]
                  /\ obj' = [obj EXCEPT ![s] = @ \ Search(@, o)]
                  /\ pc' = [pc EXCEPT ![t] = "delfin"]
                  /\ loc' = [loc EXCEPT ![t] = [NoLocal EXCEPT
                                 !.h = h, !.found = Search(obj[s], o) # {}]]
    /\ UNCHANGED <<luniq, lckpt, uncobj, live, erasing, compactlock, wrlock,
                   pco_nmtoc, crashes, stats, issued>>

pmd_obj_delete_finish(t) ==
    LET h == loc[t].h
        s == objid_slot(lay[h].oid)
    IN
    /\ pc[t] = "delfin"
    /\ pco_cnt' = [pco_cnt EXCEPT ![s].cobj = IF loc[t].found THEN @ - 1 ELSE @,
                                  ![s].del = @ + 1]
    /\ stats' = IF loc[t].found
                THEN [stats EXCEPT ![s] =
                        pmd_update_mdc_stats(@, objid_type(lay[h].oid), "DELETE")]
                ELSE stats
    /\ pmd_obj_erase_start(h)
    /\ Return(t)
    /\ UNCHANGED <<mdclog, luniq, lckpt, obj, uncobj, lay, live, compactlock,
                   wrlock, pco_nmtoc, crashes, issued>>

\* pmd_obj_erase(): EINVAL unless a committed, not removed mlog and a gen
\* above the layout's; else under mmi_compactlock log OERASE and, once it
\* is durable, set eld_gen and increment pcc_er.  The caller holds the
\* layout write lock (as mpool's mlog erase path does).
pmd_obj_erase(t, h, g) ==
    LET o == lay[h].oid
        s == objid_slot(o)
    IN
    /\ pc[t] = "idle"
    /\ h \in live /\ wrlock[h] = None /\ compactlock[s] = None
    /\ objid_type(o) = "mlog" /\ lay[h].committed /\ ~lay[h].removed
    /\ g > lay[h].gen
    /\ \E r \in pmd_mdc_addrec(s, OEraseRec(o, g)) :
          /\ mdclog' = [mdclog EXCEPT ![s] = r.log]
          /\ IF r.err
             THEN /\ pco_cnt' = [pco_cnt EXCEPT ![s] = PccAfter(s, r)]
                  /\ UNCHANGED lay
             ELSE /\ pco_cnt' = [pco_cnt EXCEPT ![s] = [PccAfter(s, r) EXCEPT !.er = @ + 1]]
                  /\ lay' = [lay EXCEPT ![h].gen = g]
    /\ UNCHANGED <<luniq, lckpt, obj, uncobj, live, erasing, compactlock,
                   wrlock, pc, loc, pco_nmtoc, crashes, stats, issued>>

\* pmd_obj_erase_cb(): the erase work item erases the media and frees the
\* layout descriptor.
pmd_obj_erase_cb(h) ==
    /\ h \in erasing
    /\ erasing' = erasing \ {h}
    /\ live' = live \ {h}
    /\ lay' = [lay EXCEPT ![h] = FreeLayout]
    /\ UNCHANGED <<mdclog, luniq, lckpt, obj, uncobj, pco_cnt, compactlock,
                   wrlock, pc, loc, pco_nmtoc, crashes, stats, issued>>

-----------------------------------------------------------------------------
(***************************************************************************)
(* Reference counting and lookup.                                          *)
(***************************************************************************)
\* pmd_obj_get() under mmi_reflock: ENOSPC if isdel, else refcnt++.
pmd_obj_get(h) ==
    /\ lay[h].isdel \/ lay[h].refcnt < MaxRef
    /\ lay' = IF lay[h].isdel THEN lay ELSE [lay EXCEPT ![h].refcnt = @ + 1]

\* Mutant: put decrements whenever the object is not deleted.
pmd_obj_put_any(t, h) ==
    /\ pc[t] = "idle"
    /\ h \in live /\ wrlock[h] = None
    /\ ~lay[h].removed /\ ~lay[h].isdel
    /\ lay' = [lay EXCEPT ![h].refcnt = @ - 1]
    /\ UNCHANGED <<mdclog, luniq, lckpt, obj, uncobj, live, erasing, pco_cnt,
                   compactlock, wrlock, pc, loc, pco_nmtoc, crashes, stats, issued>>

\* pmd_obj_put(): under the layout read lock, EINVAL if removed; under
\* mmi_reflock decrement if refcnt > 1 and not isdel.
pmd_obj_put(t, h) ==
    /\ pc[t] = "idle"
    /\ h \in live /\ wrlock[h] = None
    /\ ~lay[h].removed /\ lay[h].refcnt > 1 /\ ~lay[h].isdel
    /\ lay' = [lay EXCEPT ![h].refcnt = @ - 1]
    /\ UNCHANGED <<mdclog, luniq, lckpt, obj, uncobj, live, erasing, pco_cnt,
                   compactlock, wrlock, pc, loc, pco_nmtoc, crashes, stats, issued>>

\* pmd_obj_find_get(), first step: search mmi_obj under mmi_colock and get
\* the layout found; a miss goes on to search mmi_uncobj in a second step.
\* Clients look up objids that some layout has (a lookup of any other id
\* misses both maps and changes nothing).
pmd_obj_find_get(t, o) ==
    LET s == objid_slot(o) IN
    /\ pc[t] = "idle"
    /\ IF Search(obj[s], o) # {}
       THEN /\ \E h \in Search(obj[s], o) : pmd_obj_get(h)
            /\ UNCHANGED <<pc, loc>>
       ELSE /\ pc' = [pc EXCEPT ![t] = "find"]
            /\ loc' = [loc EXCEPT ![t] = [NoLocal EXCEPT !.oid = o]]
            /\ UNCHANGED lay
    /\ UNCHANGED <<mdclog, luniq, lckpt, obj, uncobj, live, erasing, pco_cnt,
                   compactlock, wrlock, pco_nmtoc, crashes, stats, issued>>

pmd_obj_find_get_unco(t) ==
    LET o == loc[t].oid
        s == objid_slot(o)
    IN
    /\ pc[t] = "find"
    /\ IF Search(uncobj[s], o) # {}
       THEN \E h \in Search(uncobj[s], o) : pmd_obj_get(h)
       ELSE UNCHANGED lay
    /\ Return(t)
    /\ UNCHANGED <<mdclog, luniq, lckpt, obj, uncobj, live, erasing, pco_cnt,
                   compactlock, wrlock, pco_nmtoc, crashes, stats, issued>>

-----------------------------------------------------------------------------
(***************************************************************************)
(* The pre-compactor and crash/re-activation.                              *)
(***************************************************************************)
\* pmd_need_compact(): the active log is at least PcoPctFull percent full
\* and at least PcoPctGarbage percent of the records counted are garbage.
pmd_need_compact(s) ==
    LET c       == pco_cnt[s]
        rec     == c.cr + c.del + c.er
        pct     == (Len(mdclog[s]) * 100) \div LogCap
        garbage == IF rec > c.cobj THEN ((rec - c.cobj) * 100) \div rec ELSE 0
    IN pct >= PcoPctFull /\ garbage >= PcoPctGarbage

\* pmd_precompact(): advance pco_nmtoc and pick the next user MDC; if it
\* needs compaction, take its mmi_compactlock, check again and compact.
\* Its calls to pmd_mdc_needed/pmd_mdc_alloc_set/pmd_update_credit change
\* only the MDC set and the allocation table, which this module abstracts
\* (pmd_alloc_idgen may pick any slot).
pmd_precompact ==
    LET s == pco_nmtoc + 1 IN
    /\ pco_nmtoc' = (pco_nmtoc + 1) % NumMdc
    /\ \/ /\ ~pmd_need_compact(s)
          /\ UNCHANGED <<mdclog, pco_cnt>>
       \/ /\ pmd_need_compact(s) /\ compactlock[s] = None
          /\ \E c \in pmd_mdc_compact(s) :
                /\ mdclog' = [mdclog EXCEPT ![s] = c.log]
                /\ pco_cnt' = IF c.ok
                              THEN [pco_cnt EXCEPT ![s] = pmd_pre_compact_reset(Cardinality(obj[s]))]
                              ELSE pco_cnt
    /\ UNCHANGED <<luniq, lckpt, obj, uncobj, lay, live, erasing, compactlock,
                   wrlock, pc, loc, crashes, stats, issued>>

\* Mutant: luniq restarts at the checkpoint itself.
LuniqAfterLoad_ckpt(s) == Replay(s).lckpt

\* pmd_objs_load(cslot > 0): "set luniq to guaranteed max value previously
\* used and ensure next objid allocation will be checkpointed".
LuniqAfterLoad(s) == Replay(s).lckpt + UniqDelta - 1

\* Every objid committed in the replayed logs, in objid order.
ReplayedOids == SetToSortSeq(UNION {DOMAIN Replay(s).co : s \in Slots}, OidLess)

\* pmd_mda_init zeroes mmi_stats and pmd_objs_load applies PMD_OBJ_LOAD to
\* every committed object it rebuilt.
LoadStats(s) ==
    FoldSet(LAMBDA o, st : pmd_update_mdc_stats(st, objid_type(o), "LOAD"),
            NoStats, DOMAIN Replay(s).co)

\* A crash loses all memory state; the next pmd_mpool_activate() replays
\* every MDC (pmd_objs_load): the committed layouts are rebuilt with
\* refcnt 1, mmi_uncobj is empty, pcc_* come from the replay, and luniq is
\* set to uniq(lckpt) + OBJID_UNIQ_DELTA - 1.  pmd_precompact_start()
\* resets pco_nmtoc.  Activation fails, and the pool stays down, if any
\* log does not replay.
pmd_mpool_activate ==
    LET n == Len(ReplayedOids) IN
    /\ crashes < MaxCrash
    /\ \A s \in Slots : Replay(s).ok
    /\ n <= MaxLayouts
    /\ crashes' = crashes + 1
    /\ live' = 1 .. n
    /\ lay' = [h \in Handles |->
                 IF h <= n
                 THEN [FreeLayout EXCEPT
                         !.oid = ReplayedOids[h],
                         !.gen = Replay(objid_slot(ReplayedOids[h])).co[ReplayedOids[h]],
                         !.committed = TRUE, !.refcnt = 1]
                 ELSE FreeLayout]
    /\ obj' = [s \in Slots |-> {h \in 1 .. n : objid_slot(ReplayedOids[h]) = s}]
    /\ uncobj' = [s \in Slots |-> {}]
    /\ lckpt' = [s \in Slots |-> Replay(s).lckpt]
    /\ luniq' = [s \in Slots |-> LuniqAfterLoad(s)]
    /\ pco_cnt' = [s \in Slots |-> [cr |-> Replay(s).cr, cobj |-> Replay(s).cobj,
                                    del |-> Replay(s).del, er |-> Replay(s).er]]
    /\ erasing' = {}
    /\ compactlock' = [s \in Slots |-> None]
    /\ wrlock' = [h \in Handles |-> None]
    /\ pc' = [t \in Threads |-> "idle"] /\ loc' = [t \in Threads |-> NoLocal]
    /\ pco_nmtoc' = 0
    /\ stats' = [s \in Slots |-> LoadStats(s)]
    /\ UNCHANGED <<mdclog, issued>>

-----------------------------------------------------------------------------
Next ==
    \/ \E t \in Threads, s \in Slots, ty \in Otypes : pmd_alloc_idgen(t, s, ty)
    \/ \E t \in Threads : pmd_obj_alloc(t)
    \/ \E t \in Threads, s \in Slots, o \in Objids : pmd_obj_realloc(t, s, o)
    \/ \E t \in Threads, h \in Handles : pmd_obj_commit(t, h)
    \/ \E t \in Threads : pmd_obj_commit_insert(t)
    \/ \E t \in Threads : pmd_obj_commit_stats(t)
    \/ \E t \in Threads, h \in Handles : pmd_obj_abort(t, h)
    \/ \E t \in Threads, h \in Handles : pmd_obj_delete(t, h)
    \/ \E t \in Threads : pmd_obj_delete_finish(t)
    \/ \E t \in Threads, h \in Handles, g \in 1 .. MaxGen : pmd_obj_erase(t, h, g)
    \/ \E h \in Handles : pmd_obj_erase_cb(h)
    \/ \E t \in Threads, h \in Handles : pmd_obj_put(t, h)
    \/ \E t \in Threads, o \in Oids(live) : pmd_obj_find_get(t, o)
    \/ \E t \in Threads : pmd_obj_find_get_unco(t)
    \/ pmd_precompact
    \/ pmd_mpool_activate

Spec == Init /\ [][Next]_vars

-----------------------------------------------------------------------------
(***************************************************************************)
(* Properties.                                                             *)
(***************************************************************************)
\* Every MDC log, as it is on media in any state, replays without error:
\* a crash at any point leaves a pool pmd_objs_load() can activate (no
\* duplicate OCREATE from pmd_obj_commit, no ODELETE/OERASE of an object
\* the log does not hold, checkpoints strictly increasing).
LogReplayable == \A s \in Slots : Replay(s).ok

\* "Log first, then mutate": whenever no call holds a slot's compactlock
\* between steps, replaying its log gives exactly the committed map in
\* memory (the same objids with the same mlog generations) and the
\* in-memory checkpoint mmi_lckpt.  This covers commit, delete with its
\* rollback, erase, compaction cutover and re-activation.
DurableMatchesMemory ==
    \A s \in Slots :
        compactlock[s] = None =>
            LET R == Replay(s) IN
            /\ DOMAIN R.co = Oids(obj[s])
            /\ \A h \in obj[s] : R.co[lay[h].oid] = lay[h].gen
            /\ R.lckpt = lckpt[s]

\* pmd_alloc_idgen() never hands out an objid it handed out before, across
\* any number of crashes: the OIDCKPT written before every UniqDelta-th id
\* and luniq = uniq(lckpt) + OBJID_UNIQ_DELTA - 1 on replay must agree.
NoObjidReuse ==
    [][\A t \in Threads :
          (pc[t] = "idle" /\ pc'[t] = "alloc")
              => objid_uniq(loc'[t].oid) \notin issued[objid_slot(loc'[t].oid)]]_vars

\* A layout handed to the erase work queue, which frees it, is no longer
\* reachable from mmi_obj or mmi_uncobj (pmd_obj_abort and
\* pmd_obj_delete_impl unlink it first): no lookup can return a layout
\* that pmd_obj_erase_cb frees.
ErasedUnreachable ==
    \A h \in erasing, s \in Slots : h \notin obj[s] \cup uncobj[s]

\* pcc_cobj counts the committed objects of the slot whenever no call is
\* between two of its steps (the invariant pmd_pre_compact_reset asserts).
PccCobjExact ==
    (\A t \in Threads : pc[t] = "idle")
        => \A s \in Slots : pco_cnt[s].cobj = Cardinality(obj[s])

\* The object counts of mmi_stats equal the objects of the MDC, committed
\* or not, whenever no call is between two steps: alloc and realloc (with
\* the EEXIST undo), abort, delete (not when its ODELETE failed and the
\* object stays) and the PMD_OBJ_LOAD of every object after a crash all
\* move the counts with the maps, though the updates run outside the map
\* locks.
StatsMatchMaps ==
    (\A t \in Threads : pc[t] = "idle") =>
        \A s \in Slots :
            LET hs == obj[s] \cup uncobj[s]
                nb == Cardinality({h \in hs : objid_type(lay[h].oid) = "mblock"})
            IN  /\ stats[s].mblock_cnt = nb
                /\ stats[s].mlog_cnt = Cardinality(hs) - nb

\* pmd_obj_commit updates the statistics from the layout after releasing
\* the layout's write lock and mmi_compactlock.  The layout it reads must
\* still be the one it committed, not one a delete has already handed to
\* pmd_obj_erase_cb, which frees it.
CommitStatsOnLiveLayout ==
    \A t \in Threads :
        pc[t] = "cstats" => loc[t].h \in live /\ lay[loc[t].h].oid = loc[t].oid

-----------------------------------------------------------------------------
(***************************************************************************)
(* Refinement of the abstract catalogue: the durable catalogue is what     *)
(* replaying the logs gives, the checkpoint is the replayed mmi_lckpt.     *)
(***************************************************************************)
DurableCatalog ==
    LET R == [s \in Slots |-> Replay(s).co] IN
    [o \in UNION {DOMAIN R[s] : s \in Slots} |-> R[objid_slot(o)][o]]

DurableCkpt == [s \in Slots |-> Replay(s).lckpt]

Catalog == INSTANCE PmdCatalog WITH catalog <- DurableCatalog, ckpt <- DurableCkpt

\* Every step of the code, compactions and crashes included, changes the
\* durable catalogue by at most one create of an id the durable checkpoint
\* covers (so no crash can reissue it), one delete, one strictly higher
\* mlog generation, or one checkpoint advance of exactly OBJID_UNIQ_DELTA.
CatalogRefined == Catalog!CatalogSpec

====
