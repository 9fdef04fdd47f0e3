----------------------------- MODULE PmdMdcAlloc -----------------------------
(***************************************************************************)
(* MDC0 and the MDC allocator of src/src/pmd.c.  MDC0 is the root          *)
(* metadata container; its committed map mmi_obj holds the slot-0 mlogs    *)
(* of every MDCi: mlog uniq 2i and 2i+1 are the pair of MDCi (uniq 0 and 1 *)
(* are MDC0's own boot mlogs, inserted by pmd_mdc0_init).  pmd_mdc_alloc   *)
(* creates MDC(luniq+1) by allocating, erasing and committing its two     *)
(* mlogs in MDC0, opening the new MDC, writing its VERSION record and      *)
(* finally publishing luniq and slotvcnt.  A failure part way leaves       *)
(* detritus that pmd_mdc0_validate cleans up, both when the next           *)
(* pmd_mdc_alloc starts (allocator mode) and at activation after a crash   *)
(* (activation mode).                                                      *)
(*                                                                         *)
(* An MDC0 mlog is named by its uniq.  obj and uncobj map the uniq of each *)
(* layout in MDC0's committed and uncommitted maps to its eld_refcnt.     *)
(* mdc0log is the durable content of MDC0's active mlog, reduced to the   *)
(* object records pmd_objs_load(mp, 0) reads plus the VERSION record that *)
(* a compaction writes first.                                              *)
(*                                                                         *)
(* Content versions.  Every record carries the format of the binary that   *)
(* wrote it.  The pool starts as written by an older binary (content       *)
(* version 1.0.0.0, which writes no VERSION record); every activation runs *)
(* this binary, whose latest version is at least 1.0.0.1, so its           *)
(* compactions and new MDCs start with a VERSION record.  uver is the      *)
(* content version of each user MDC's log, memver the mmi_mdccver each     *)
(* slot was loaded with, and activation ends with                          *)
(* pmd_write_meta_to_latest_version, one loop iteration per step.          *)
(***************************************************************************)
EXTENDS Integers, Sequences, FiniteSets, FiniteSetsExt, Functions, SequencesExt

CONSTANTS
    MdcSlots,   \* MDC_SLOTS: MDC0 plus at most MdcSlots-1 user MDCs
    MdcSetSz,   \* MPOOL_MDC_SET_SZ: MDCs created per pmd_mdc_alloc_set
    Mdc0Cap,    \* records MDC0's active mlog holds before EFBIG
    MaxRef,     \* bound on eld_refcnt of an MDC0 mlog layout
    MaxCrash,   \* bound on crash/re-activation cycles
    IoFail      \* TRUE: appends, allocations, erases and opens may fail

ASSUME MdcSlots \in Nat \ {0, 1} /\ MdcSetSz \in Nat \ {0}
ASSUME Mdc0Cap \in Nat \ {0} /\ MaxRef \in Nat \ {0, 1, 2}
ASSUME MaxCrash \in Nat /\ IoFail \in BOOLEAN

Uniqs == 0 .. 2 * MdcSlots - 1
\* The slot-0 mlog uniqs of MDCi: logid_make(2 * i, 0), logid_make(2 * i + 1, 0).
MdcLogs(i) == {2 * i, 2 * i + 1}
\* objid_uniq(objid) >> 1
mdcn(u) == u \div 2
\* objid_mdc0log(): MDC0's own boot mlogs.
Mdc0Logs == MdcLogs(0)

\* Content versions: an older binary's and this binary's latest.
Fmts == {"old", "new"}
Rec == [op : {"VERSION", "OCREATE", "ODELETE"}, u : Uniqs, fmt : Fmts]
VersionRec   == [op |-> "VERSION", u |-> 0, fmt |-> "new"]
OCreateRec(u, f) == [op |-> "OCREATE", u |-> u, fmt |-> f]
ODeleteRec(u, f) == [op |-> "ODELETE", u |-> u, fmt |-> f]

\* The content version pmd_objs_load(mp, 0) sets from MDC0's log: that of
\* its VERSION record, 1.0.0.0 without one.
LogVersion(lg) ==
    IF \E i \in DOMAIN lg : lg[i].op = "VERSION" THEN "new" ELSE "old"

VARIABLES
    mdc0log,   \* durable records of MDC0's active mlog
    obj,       \* MDC0 mmi_obj: uniq -> eld_refcnt
    uncobj,    \* MDC0 mmi_uncobj: uniq -> eld_refcnt
    luniq,     \* MDC0 mmi_luniq: the last MDC slot handed out
    slotvcnt,  \* mdi_slotvcnt: MDC slots in use, MDC0 included
    pc,        \* where the pmd_mdc_alloc in progress is
    mdcslot,   \* the slot the pmd_mdc_alloc in progress creates
    todo,      \* pmd_mdc_alloc calls left in the running pmd_mdc_alloc_set
    crashes,   \* crash/re-activation cycles so far
    binary,    \* the content version the running binary writes
    uver,      \* content version of the log of each user MDC
    memver,    \* mmi_mdccver of each slot, as activation loaded it
    ucur       \* cslot of the upgrade loop

vars == <<mdc0log, obj, uncobj, luniq, slotvcnt, pc, mdcslot, todo, crashes,
          binary, uver, memver, ucur>>
\* What the upgrade leaves alone, and what the allocator leaves alone.
allocvars == <<binary, uver, memver, ucur>>

Phases == {"idle", "commit1", "commit2", "open"}
UserSlots == 1 .. MdcSlots - 1

TypeOK ==
    /\ mdc0log \in Seq(Rec) /\ Len(mdc0log) <= Mdc0Cap
    /\ DOMAIN obj \subseteq Uniqs /\ obj \in [DOMAIN obj -> 1 .. MaxRef]
    /\ DOMAIN uncobj \subseteq Uniqs /\ uncobj \in [DOMAIN uncobj -> 1 .. MaxRef]
    /\ luniq \in 0 .. MdcSlots - 1
    /\ slotvcnt \in 1 .. MdcSlots
    /\ pc \in Phases \cup {"upgrade", "failed"}
    /\ mdcslot \in 0 .. MdcSlots - 1
    /\ todo \in 0 .. MdcSetSz
    /\ crashes \in 0 .. MaxCrash
    /\ binary \in Fmts
    /\ uver \in [UserSlots -> Fmts]
    /\ memver \in [0 .. MdcSlots - 1 -> Fmts]
    /\ ucur \in 0 .. MdcSlots

-----------------------------------------------------------------------------
(***************************************************************************)
(* MDC0's append path.  A compaction of MDC0 writes VERSION, the mpool     *)
(* properties (abstracted away) and an OCREATE for every committed layout  *)
(* except MDC0's own mlogs.                                                *)
(***************************************************************************)
\* pmd_mdc_append(): EFBIG on a full active mlog, else appended or EIO.
pmd_mdc_append(lg, rec) ==
    IF Len(lg) >= Mdc0Cap THEN {[err |-> TRUE, log |-> lg]}
    ELSE {[err |-> FALSE, log |-> Append(lg, rec)]}
         \cup (IF IoFail THEN {[err |-> TRUE, log |-> lg]} ELSE {})

\* pmd_log_all_mdc_cobjs() in objid order, skipping objid_mdc0log(),
\* after the VERSION record a binary of version >= 1.0.0.1 writes.
CompactedLog(o, f) ==
    LET live == SetToSortSeq(DOMAIN o \ Mdc0Logs, <)
    IN (IF f = "new" THEN <<VersionRec>> ELSE <<>>)
       \o [i \in 1 .. Len(live) |-> OCreateRec(live[i], f)]

\* pmd_mdc_compact(mp, 0): cutover to the compacted log, or every retry
\* fails and the old active log stays.
pmd_mdc_compact(o, lg, f) ==
    (IF Len(CompactedLog(o, f)) <= Mdc0Cap
     THEN {[ok |-> TRUE, log |-> CompactedLog(o, f)]} ELSE {})
    \cup (IF IoFail \/ Len(CompactedLog(o, f)) > Mdc0Cap
          THEN {[ok |-> FALSE, log |-> lg]} ELSE {})

\* pmd_mdc_addrec(mp, 0, rec): append; on EFBIG compact and retry once.
pmd_mdc_addrec(o, lg, rec) ==
    LET cs == pmd_mdc_compact(o, lg, rec.fmt) IN
    IF Len(lg) < Mdc0Cap THEN pmd_mdc_append(lg, rec)
    ELSE {[err |-> TRUE, log |-> c.log] : c \in {x \in cs : ~x.ok}}
         \cup UNION {pmd_mdc_append(c.log, rec) : c \in {x \in cs : x.ok}}

-----------------------------------------------------------------------------
(***************************************************************************)
(* Replay of MDC0 at activation, pmd_objs_load(mp, 0): the set of          *)
(* committed mlog uniqs, starting from the boot mlogs pmd_mdc0_init        *)
(* inserted.                                                               *)
(***************************************************************************)
pmd_objs_load_rec(st, r) ==
    CASE r.op = "OCREATE" /\ r.u \in st.co    -> [st EXCEPT !.ok = FALSE]
      [] r.op = "OCREATE"                     -> [st EXCEPT !.co = @ \cup {r.u}]
      [] r.op = "ODELETE" /\ r.u \notin st.co -> [st EXCEPT !.ok = FALSE]
      [] r.op = "ODELETE"                     -> [st EXCEPT !.co = @ \ {r.u}]
      [] OTHER                                -> st

RECURSIVE ReplayFrom(_, _)
ReplayFrom(st, lg) ==
    IF lg = <<>> \/ ~st.ok THEN st
    ELSE ReplayFrom(pmd_objs_load_rec(st, Head(lg)), Tail(lg))

Replay(lg) == ReplayFrom([ok |-> TRUE, co |-> Mdc0Logs], lg)

-----------------------------------------------------------------------------
(***************************************************************************)
(* pmd_mdc0_validate(): the checks over MDC0's committed map D, with       *)
(* lcnt[i] the number of mlogs of MDCi in D.                               *)
(***************************************************************************)
lcnt(D, i) == Cardinality({u \in D : mdcn(u) = i})
MdcMax(D) == Max({mdcn(u) : u \in D})

\* The error the checks return (mdcn >= MDC_SLOTS and a non-mlog or
\* non-slot-0 objid cannot occur: D holds slot-0 mlog uniqs only).
pmd_mdc0_validate_err(D, svc) ==
    LET m == MdcMax(D) IN
    CASE svc = 0                               -> "EINVAL"
      [] \E i \in 0 .. m : lcnt(D, i) > 2      -> "EINVAL"
      [] m = 0 /\ (lcnt(D, 0) # 2 \/ svc # 1)  -> "EINVAL"
      [] m = 0                                 -> "OK"
      [] m # svc - 1 /\ m # svc                -> "EINVAL"
      [] \E i \in 0 .. m - 1 : lcnt(D, i) # 2  -> "ENOENT"
      [] OTHER                                 -> "OK"

\* Mutant: the clean-up test forgets the alloc-in-flight case mdcmax = slotvcnt.
NeedsCleanup_paironly(D, svc) ==
    MdcMax(D) > 0 /\ lcnt(D, MdcMax(D)) # 2

\* Clean-up from a failed mdc alloc is needed.
NeedsCleanup(D, svc) ==
    MdcMax(D) > 0 /\ (lcnt(D, MdcMax(D)) # 2 \/ MdcMax(D) = svc)

\* The error of a step of the clean-up: the first one is kept (err1, err2).
FirstErr(e, new) == IF e = "OK" THEN new ELSE e

\* Mutant: a failed ODELETE leaves refcnt 0 instead of restoring it.
pmd_obj_delete_norestore(st, u, f) ==
    IF st.obj[u] > 2 THEN {[st EXCEPT !.err = FirstErr(@, "EBUSY")]}
    ELSE {IF r.err
          THEN [obj |-> [st.obj EXCEPT ![u] = 0], log |-> r.log,
                err |-> FirstErr(st.err, "EIO")]
          ELSE [obj |-> Restrict(st.obj, DOMAIN st.obj \ {u}), log |-> r.log,
                err |-> st.err]
          : r \in pmd_mdc_addrec(st.obj, st.log, ODeleteRec(u, f))}

\* Mutant: a failed ODELETE still removes the layout from mmi_obj.
pmd_obj_delete_unlogged(st, u, f) ==
    IF st.obj[u] > 2 THEN {[st EXCEPT !.err = FirstErr(@, "EBUSY")]}
    ELSE {[obj |-> Restrict(st.obj, DOMAIN st.obj \ {u}), log |-> r.log,
           err |-> IF r.err THEN FirstErr(st.err, "EIO") ELSE st.err]
          : r \in pmd_mdc_addrec(st.obj, st.log, ODeleteRec(u, f))}

\* pmd_obj_delete() of the committed MDC0 mlog u, on st = [obj, log, err]:
\* EBUSY with more than two references; else the ODELETE is logged and the
\* layout leaves mmi_obj, or the log fails and refcnt is set back to 2.
pmd_obj_delete(st, u, f) ==
    IF st.obj[u] > 2 THEN {[st EXCEPT !.err = FirstErr(@, "EBUSY")]}
    ELSE {IF r.err
          THEN [obj |-> [st.obj EXCEPT ![u] = 2], log |-> r.log,
                err |-> FirstErr(st.err, "EIO")]
          ELSE [obj |-> Restrict(st.obj, DOMAIN st.obj \ {u}), log |-> r.log,
                err |-> st.err]
          : r \in pmd_mdc_addrec(st.obj, st.log, ODeleteRec(u, f))}

\* pmd_obj_find_get() then pmd_obj_delete(), as the clean-up does for each
\* mlog of MDC(mdcmax); the reference find_get takes is never put.
FindGetDelete(st, u, f) ==
    IF u \notin DOMAIN st.obj THEN {st}
    ELSE pmd_obj_delete([st EXCEPT !.obj[u] = @ + 1], u, f)

\* The clean-up of both mlogs of MDCm, logid1 first.
Cleanup(st, m, f) ==
    UNION {FindGetDelete(s1, 2 * m + 1, f) : s1 \in FindGetDelete(st, 2 * m, f)}

\* pmd_obj_delete() of both mlogs of MDCm, as pmd_mdc_alloc's error paths do.
DeleteBoth(st, m, f) ==
    UNION {pmd_obj_delete(s1, 2 * m + 1, f) : s1 \in pmd_obj_delete(st, 2 * m, f)}

\* An operation that can fail independently of the logs.
Outcomes == IF IoFail THEN BOOLEAN ELSE {TRUE}

-----------------------------------------------------------------------------
Init ==
    /\ mdc0log = <<>>
    /\ obj = [u \in Mdc0Logs |-> 1]
    /\ uncobj = <<>>
    /\ luniq = 0
    /\ slotvcnt = 1
    /\ pc = "idle"
    /\ mdcslot = 0
    /\ todo = 0
    /\ crashes = 0
    /\ binary = "old"
    /\ uver = [s \in UserSlots |-> "old"]
    /\ memver = [s \in 0 .. MdcSlots - 1 |-> "old"]
    /\ ucur = 0

\* The end of a pmd_mdc_alloc that failed: pmd_mdc_alloc_set stops.
AllocFailed == pc' = "idle" /\ todo' = 0 /\ uncobj' = <<>>

\* pmd_mdc_alloc_set(), called by pmd_precompact when pmd_mdc_needed()
\* (false once slotvcnt = MDC_SLOTS; its fill test is left open).
pmd_mdc_alloc_set ==
    /\ pc = "idle" /\ todo = 0
    /\ slotvcnt < MdcSlots
    /\ todo' = Min({MdcSetSz - ((slotvcnt - 1) % MdcSetSz), MdcSlots - slotvcnt})
    /\ UNCHANGED <<mdc0log, obj, uncobj, luniq, slotvcnt, pc, mdcslot, crashes>>
    /\ UNCHANGED allocvars

\* pmd_mdc_alloc() up to the first commit: pmd_mdc0_validate(mp, 0), the
\* ENOSPC check, reserving mdcslot, the recbuf, pmd_obj_alloc_cmn of both
\* mlogs and their erase; any failure after the validation aborts both.
pmd_mdc_alloc ==
    /\ pc = "idle" /\ todo > 0
    /\ \A u \in DOMAIN obj : obj[u] < MaxRef
    /\ LET D == DOMAIN obj
           st0 == [obj |-> obj, log |-> mdc0log, err |-> "OK"]
       IN IF pmd_mdc0_validate_err(D, slotvcnt) # "OK"
          THEN AllocFailed /\ UNCHANGED <<mdc0log, obj, mdcslot>>
          ELSE \E c \in IF NeedsCleanup(D, slotvcnt)
                        THEN Cleanup(st0, MdcMax(D), binary) ELSE {st0} :
                 /\ obj' = c.obj /\ mdc0log' = c.log
                 /\ IF c.err # "OK" \/ luniq >= MdcSlots - 1
                    THEN AllocFailed /\ UNCHANGED mdcslot
                    ELSE \E ok \in Outcomes :
                           IF ok
                           THEN /\ mdcslot' = luniq + 1
                                /\ uncobj' = [u \in MdcLogs(luniq + 1) |-> 1]
                                /\ pc' = "commit1" /\ UNCHANGED todo
                           ELSE AllocFailed /\ UNCHANGED mdcslot
    /\ UNCHANGED <<luniq, slotvcnt, crashes>> /\ UNCHANGED allocvars

\* pmd_obj_commit() of an uncommitted MDC0 mlog u: the OCREATE is logged,
\* then the layout moves to mmi_obj unless an equal objid is there (EEXIST).
CommitOk(r, u) == ~r.err /\ u \notin DOMAIN obj
Committed(u) == (u :> uncobj[u]) @@ obj

\* The first commit; on failure both mlogs are aborted.
pmd_mdc_alloc_commit1 ==
    /\ pc = "commit1"
    /\ \E r \in pmd_mdc_addrec(obj, mdc0log, OCreateRec(2 * mdcslot, binary)) :
         /\ mdc0log' = r.log
         /\ IF CommitOk(r, 2 * mdcslot)
            THEN /\ obj' = Committed(2 * mdcslot)
                 /\ uncobj' = Restrict(uncobj, {2 * mdcslot + 1})
                 /\ pc' = "commit2" /\ UNCHANGED todo
            ELSE AllocFailed /\ UNCHANGED obj
    /\ UNCHANGED <<luniq, slotvcnt, mdcslot, crashes>> /\ UNCHANGED allocvars

\* The second commit; on failure the first mlog is deleted, the second
\* aborted.
pmd_mdc_alloc_commit2 ==
    /\ pc = "commit2"
    /\ \E r \in pmd_mdc_addrec(obj, mdc0log, OCreateRec(2 * mdcslot + 1, binary)) :
         IF CommitOk(r, 2 * mdcslot + 1)
         THEN /\ mdc0log' = r.log
              /\ obj' = Committed(2 * mdcslot + 1)
              /\ uncobj' = <<>>
              /\ pc' = "open" /\ UNCHANGED todo
         ELSE \E d \in pmd_obj_delete([obj |-> obj, log |-> r.log, err |-> "OK"],
                                      2 * mdcslot, binary) :
                /\ obj' = d.obj /\ mdc0log' = d.log
                /\ AllocFailed
    /\ UNCHANGED <<luniq, slotvcnt, mdcslot, crashes>> /\ UNCHANGED allocvars

\* mp_mdc_open() of the new MDC and, from a binary of version >= 1.0.0.1,
\* pmd_mdc_addrec_version() into it; on success luniq and slotvcnt publish
\* the MDC, on failure both mlogs are deleted.
pmd_mdc_alloc_open ==
    /\ pc = "open"
    /\ \/ /\ luniq' = mdcslot /\ slotvcnt' = mdcslot + 1
          /\ pc' = "idle" /\ todo' = todo - 1
          /\ uver' = [uver EXCEPT ![mdcslot] = binary]
          /\ UNCHANGED <<mdc0log, obj, uncobj>>
       \/ /\ IoFail
          /\ \E d \in DeleteBoth([obj |-> obj, log |-> mdc0log, err |-> "OK"],
                                  mdcslot, binary) :
               /\ obj' = d.obj /\ mdc0log' = d.log
               /\ AllocFailed
          /\ UNCHANGED <<luniq, slotvcnt, uver>>
    /\ UNCHANGED <<mdcslot, crashes, binary, memver, ucur>>

\* Mutant: activation keeps luniq and slotvcnt after the clean-up.
pmd_mdc0_validate_adjust_none(m) == luniq' = m /\ slotvcnt' = m + 1

\* Activation mode after a clean-up: the mda forgets MDC(mdcmax).
pmd_mdc0_validate_adjust(m) == luniq' = m - 1 /\ slotvcnt' = m

\* A crash, then pmd_mpool_activate by this binary: pmd_mdc0_init,
\* pmd_objs_load(mp, 0) (mmi_mdccver of MDC0, mdcmax, luniq = mdcmax,
\* slotvcnt = mdcmax + 1) and pmd_mdc0_validate(mp, 1), which ignores
\* clean-up failures and sets luniq = mdcmax - 1, slotvcnt = mdcmax after a
\* clean-up; pmd_objs_load_parallel sets the mmi_mdccver of the user MDCs;
\* the upgrade loop follows.
pmd_mpool_activate ==
    /\ crashes < MaxCrash
    /\ LET R == Replay(mdc0log)
           m == MdcMax(R.co)
           st0 == [obj |-> [u \in R.co |-> 1], log |-> mdc0log, err |-> "OK"]
       IN /\ R.ok
          /\ pmd_mdc0_validate_err(R.co, m + 1) = "OK"
          /\ IF NeedsCleanup(R.co, m + 1)
             THEN \E c \in Cleanup(st0, m, "new") :
                    /\ obj' = c.obj /\ mdc0log' = c.log
                    /\ pmd_mdc0_validate_adjust(m)
             ELSE /\ obj' = st0.obj /\ UNCHANGED mdc0log
                  /\ luniq' = m /\ slotvcnt' = m + 1
    /\ uncobj' = <<>> /\ mdcslot' = 0 /\ todo' = 0
    /\ crashes' = crashes + 1
    /\ binary' = "new"
    /\ memver' = [s \in 0 .. MdcSlots - 1 |-> IF s = 0 THEN LogVersion(mdc0log)
                                                    ELSE uver[s]]
    /\ pc' = "upgrade" /\ ucur' = 0
    /\ UNCHANGED uver

\* Mutant: the upgrade loop starts at MDC1.
UpgradeNeeded_user_only(s) == s > 0 /\ memver[s] # "new"

\* The loop's test: the slot was loaded at a version other than the latest.
UpgradeNeeded(s) == memver[s] # "new"

\* One iteration of the loop of pmd_write_meta_to_latest_version(mp, TRUE),
\* cslot = ucur: skip a slot loaded at the latest version, else compact it
\* under its compaction lock; a failed compaction fails the activation.  The
\* compaction of MDCi, i > 0, is modelled in PmdMdc; here it writes a
\* VERSION record first or fails.  mmi_mdccver is not updated.
pmd_write_meta_to_latest_version ==
    /\ pc = "upgrade" /\ ucur < slotvcnt
    /\ \/ /\ ~UpgradeNeeded(ucur)
          /\ ucur' = ucur + 1 /\ UNCHANGED <<mdc0log, uver, pc>>
       \/ /\ UpgradeNeeded(ucur) /\ ucur = 0
          /\ \E c \in pmd_mdc_compact(obj, mdc0log, "new") :
               /\ mdc0log' = c.log
               /\ IF c.ok THEN ucur' = 1 /\ UNCHANGED pc
                  ELSE pc' = "failed" /\ UNCHANGED ucur
          /\ UNCHANGED uver
       \/ /\ UpgradeNeeded(ucur) /\ ucur > 0
          /\ \E ok \in Outcomes :
               IF ok THEN /\ uver' = [uver EXCEPT ![ucur] = "new"]
                          /\ ucur' = ucur + 1 /\ UNCHANGED pc
                     ELSE pc' = "failed" /\ UNCHANGED <<uver, ucur>>
          /\ UNCHANGED mdc0log
    /\ UNCHANGED <<obj, uncobj, luniq, slotvcnt, mdcslot, todo, crashes,
                   binary, memver>>

\* The loop has passed every slot: activation returns 0 and the
\* allocator may run.
pmd_mpool_activate_done ==
    /\ pc = "upgrade" /\ ucur >= slotvcnt
    /\ pc' = "idle"
    /\ UNCHANGED <<mdc0log, obj, uncobj, luniq, slotvcnt, mdcslot, todo,
                   crashes, binary, uver, memver, ucur>>

Next ==
    \/ pmd_mdc_alloc_set
    \/ pmd_mdc_alloc
    \/ pmd_mdc_alloc_commit1
    \/ pmd_mdc_alloc_commit2
    \/ pmd_mdc_alloc_open
    \/ pmd_mpool_activate
    \/ pmd_write_meta_to_latest_version
    \/ pmd_mpool_activate_done

Spec == Init /\ [][Next]_vars

-----------------------------------------------------------------------------
(***************************************************************************)
(* Properties.                                                             *)
(***************************************************************************)
\* The number of MDCs activation settles on from an MDC0 log.
ActivatedSlotvcnt(lg) ==
    LET D == Replay(lg).co
    IN IF NeedsCleanup(D, MdcMax(D) + 1) THEN MdcMax(D) ELSE MdcMax(D) + 1

\* A crash at any point of pmd_mdc_alloc, of its error paths, of a
\* clean-up or of an MDC0 compaction leaves an MDC0 log that the next
\* activation loads (pmd_objs_load(mp, 0): no duplicate OCREATE, no
\* ODELETE of a missing mlog) and that passes pmd_mdc0_validate(mp, 1)
\* (no MDC below mdcmax missing an mlog, none with three).
Mdc0Activatable ==
    LET R == Replay(mdc0log)
    IN R.ok /\ pmd_mdc0_validate_err(R.co, MdcMax(R.co) + 1) = "OK"

\* MDC0's in-memory committed map is exactly what its log replays to:
\* every insertion into and removal from mmi_obj by pmd_obj_commit and
\* pmd_obj_delete matches a record that reached the log.
Mdc0MatchesMemory == DOMAIN obj = Replay(mdc0log).co

\* A crash never loses a published MDC and never publishes half of one:
\* activation comes back with the current slotvcnt, plus one exactly when
\* both mlogs of the next slot are already committed in MDC0 (the
\* allocation got past its second commit, or its error path could not
\* delete them).
CrashKeepsPublished ==
    ActivatedSlotvcnt(mdc0log)
        = slotvcnt + (IF MdcLogs(slotvcnt) \subseteq DOMAIN obj THEN 1 ELSE 0)

\* Whenever no pmd_mdc_alloc runs, the next one, with every write
\* succeeding, gets through the clean-up of a failed allocation's mlogs
\* (pmd_mdc0_validate(mp, 0)): pmd_obj_find_get's reference leaves each
\* of them at no more than the two references pmd_obj_delete accepts.
AllocRecoverable ==
    (pc = "idle" /\ NeedsCleanup(DOMAIN obj, slotvcnt))
        => \A u \in MdcLogs(MdcMax(DOMAIN obj)) \cap DOMAIN obj : obj[u] + 1 <= 2

\* Once an activation by this binary has returned, MDC0 and every user MDC
\* in use are at its content version on media: the upgrade loop decides by
\* the mmi_mdccver each slot was loaded with, which neither the clean-up's
\* appends nor its EFBIG compaction of MDC0 update, and a failure on the
\* way fails the activation.
UpgradedBeforeUse ==
    binary = "new" /\ pc \in Phases =>
        /\ LogVersion(mdc0log) = "new"
        /\ \A s \in 1 .. slotvcnt - 1 : uver[s] = "new"

\* Every record of MDC0's log is in the format of the log's content
\* version, so the next pmd_objs_load(mp, 0) decodes it with the right
\* codec: the upgrade compacts MDC0 first "to avoid having a potential mix
\* of new and old records in MDC0".
Mdc0OneFormat ==
    \A i \in DOMAIN mdc0log : mdc0log[i].fmt = LogVersion(mdc0log)

====
