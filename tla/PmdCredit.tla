------------------------------ MODULE PmdCredit ------------------------------
(***************************************************************************)
(* The MDC selector of pmd.c: the pre-compactor work item pmd_precompact,  *)
(* the credit computation pmd_update_credit with its comparator            *)
(* pmd_compare_free_space, the table builder pmd_update_mds_tbl, and the   *)
(* writer outside the worker, pmd_precompact_alsz (the mlog layer          *)
(* reporting an MDC's active-log length and capacity).  The reader of the  *)
(* table, pmd_alloc_idgen, changes no state of this module: what it can    *)
(* pick is what TableProportional says a table holds, and its changes to   *)
(* mmi_luniq and the OIDCKPT log are modelled in PmdMdc.                   *)
(*                                                                         *)
(* MDC space is abstracted to units: an MDC's capacity is Cap units once   *)
(* reported and 0 before; the "almost full" test cap/400 keeps its shape   *)
(* with the divisor FullDiv.  A division by zero in the kernel ends the    *)
(* kworker with an oops: the variable oops records where, and the worker  *)
(* is never re-queued after it.                                            *)
(***************************************************************************)
EXTENDS Integers, Sequences, FiniteSets, Functions, FiniteSetsExt

CONSTANTS
    MdcSlots,     \* MDC_SLOTS: slots 0 .. MdcSlots-1, slot 0 is MDC0
    MdcSetSz,     \* MPOOL_MDC_SET_SZ: MDCs per allocation batch and credit set
    MdcTblSz,     \* MDC_TBL_SZ: entries of mds_tbl
    NbNoAllocs,   \* values the tunable mp_pconbnoalloc may have in a pool
    Cap,          \* reported capacity of an MDC's active mlog, in units
    FullDiv,      \* 400 in the code: free < cap/FullDiv counts as full
    NmtocWrap     \* pco_nmtoc is kept modulo this (a multiple of 1..MdcSlots-1)

ASSUME /\ MdcSlots >= 2 /\ MdcSetSz >= 1 /\ MdcTblSz >= 1 /\ NbNoAllocs \subseteq Nat
       /\ Cap >= 1 /\ FullDiv >= 1
       /\ \A k \in 1..MdcSlots-1 : NmtocWrap % k = 0

UserSlots == 1..MdcSlots-1
TblIdx    == 0..MdcTblSz-1
Oops      == {"none", "div3767", "div3599", "mod3613", "cset_overflow", "hang"}

VARIABLES
    pcc_len,     \* slot -> mmi_pco_cnt.pcc_len as last reported
    pcc_cap,     \* slot -> mmi_pco_cnt.pcc_cap (0: nothing reported yet)
    slotvcnt,    \* mdi_slotvcnt
    nmtoc,       \* pco_nmtoc, modulo NmtocWrap
    mds_tbl,     \* mdi_sel.mds_tbl
    oops,        \* where the pre-compactor died, "none" while it runs
    visited,     \* history: the cslot of the last pmd_precompact, 0 before
    nbnoalloc    \* mp_pconbnoalloc: MDCs after the pre-compacted one left out

vars == <<pcc_len, pcc_cap, slotvcnt, nmtoc, mds_tbl, oops, visited,
          nbnoalloc>>

TypeOK ==
    /\ pcc_len \in [UserSlots -> 0..Cap]
    /\ pcc_cap \in [UserSlots -> {0, Cap}]
    /\ \A s \in UserSlots : pcc_len[s] <= pcc_cap[s]
    /\ slotvcnt \in 1..MdcSlots
    /\ nmtoc \in 0..NmtocWrap-1
    /\ mds_tbl \in [TblIdx -> 0..MdcSlots-1]
    /\ oops \in Oops
    /\ visited \in 0..MdcSlots-1
    /\ nbnoalloc \in NbNoAllocs

-----------------------------------------------------------------------------
(* pmd_update_credit: the MDCs that may receive allocations.               *)

\* Mutant: the walk starts one slot early and visits the last slot of the
\* exclusion window.
CandidateSlots_window_early(svc, nm) ==
    LET N     == svc - 1
        cur   == (nm % N) + 1
        skip  == svc >= nbnoalloc + 2
        num   == IF skip THEN svc - (nbnoalloc + 2) ELSE N
        start == IF skip THEN (cur + nbnoalloc - 1) % N ELSE 1
    IN  [k \in 1..num |-> ((start + k - 1) % N) + 1]

\* The slots the walk visits: all user MDCs from slot 2 on when there are
\* fewer than nbnoalloc+2 slots, otherwise the slots after the one pco_nmtoc
\* points to and the nbnoalloc that follow it.  cslot % (slotvcnt-1) + 1
\* applied k times to start is ((start + k - 1) % N) + 1.
CandidateSlots(svc, nm) ==
    LET N     == svc - 1
        cur   == (nm % N) + 1
        skip  == svc >= nbnoalloc + 2
        num   == IF skip THEN svc - (nbnoalloc + 2) ELSE N
        start == IF skip THEN (cur + nbnoalloc) % N ELSE 1
    IN  [k \in 1..num |-> ((start + k - 1) % N) + 1]

\* (cap - used) < (cap / 400): less than 0.25% free counts as full.
AlmostFull(cap, len, s) == cap[s] - len[s] < cap[s] \div FullDiv

ci_free(cap, len, s) == cap[s] - len[s]

\* Mutant: the comparison the wrong way round (ascending free space).
pmd_compare_free_space_ascending(free, f, s) ==
    IF free[f] < free[s] THEN -1 ELSE 1

\* -1: first goes ahead of second; 1: first goes after second.  Equal free
\* space also answers 1, so sort() may leave ties in either order.
pmd_compare_free_space(free, f, s) ==
    IF free[f] > free[s] THEN -1
    ELSE IF free[f] < free[s] THEN 1
    ELSE 1

\* The orders sort() can produce with that comparator: no element compares
\* as belonging ahead of one placed before it.
SortedBy(sa, free) ==
    { p \in [1..Len(sa) -> Range(sa)] :
        /\ IsInjective(p)
        /\ \A i, j \in 1..Len(sa) :
              i < j => pmd_compare_free_space(free, p[j], p[i]) > 0 }

\* Mutant: the remainder handed out from the last (least free) MDC back.
CreditOf_rest_from_last(chosen, free) ==
    LET n     == Len(chosen)
        total == SumFunction([i \in 1..n |-> free[chosen[i]]])
        base  == [i \in 1..n |-> (MdcTblSz * free[chosen[i]]) \div total]
        rest  == MdcTblSz - SumFunction(base)
    IN  [i \in 1..n |-> base[i] + rest \div n
                                + (IF n - i < rest % n THEN 1 ELSE 0)]

\* Credits of the chosen MDCs: MDC_TBL_SZ * free / total, then the rest of
\* the table handed out one by one from the first MDC on, round-robin.
CreditOf(chosen, free) ==
    LET n     == Len(chosen)
        total == SumFunction([i \in 1..n |-> free[chosen[i]]])
        base  == [i \in 1..n |-> (MdcTblSz * free[chosen[i]]) \div total]
        rest  == MdcTblSz - SumFunction(base)
    IN  [i \in 1..n |-> base[i] + rest \div n
                                + (IF i - 1 < rest % n THEN 1 ELSE 0)]

-----------------------------------------------------------------------------
(* pmd_update_mds_tbl: credit sets, then the table.                        *)

\* One credit set: members take the credit the set still needs, or all an
\* MDC has left; an MDC with credit to spare stays current for the next set.
RECURSIVE FillSet(_, _, _, _, _)
FillSet(cr, sl, i, needed, set) ==
    IF Len(set) >= MdcSetSz \/ i > Len(sl)
    THEN [cr |-> cr, i |-> i, set |-> set]
    ELSE IF needed <= cr[i]
    THEN [cr  |-> [cr EXCEPT ![i] = @ - needed],
          i   |-> IF cr[i] = needed THEN i + 1 ELSE i,
          set |-> Append(set, [slot |-> sl[i], credit |-> needed])]
    ELSE FillSet([cr EXCEPT ![i] = 0], sl, i + 1, needed - cr[i],
                 Append(set, [slot |-> sl[i], credit |-> cr[i]]))

\* Sets of refcredit each until every MDC is used up; cset has room for
\* num_mdc sets (kcalloc(num_mdc)), one more is a write past its end.
RECURSIVE BuildSets(_, _, _, _, _)
BuildSets(cr, sl, ref, i, sets) ==
    IF i > Len(sl) THEN [ok |-> TRUE, sets |-> sets]
    ELSE IF Len(sets) = Len(sl) THEN [ok |-> FALSE, sets |-> sets]
    ELSE LET r == FillSet(cr, sl, i, ref, <<>>)
         IN  BuildSets(r.cr, sl, ref, r.i, Append(sets, r.set))

\* Rotate over the sets writing one entry of the current member of each;
\* a member with no credit is never passed, so a round that writes nothing
\* repeats forever.
RECURSIVE FillTbl(_, _, _, _, _)
FillTbl(cs, ix, c, tbl, idle) ==
    IF Len(tbl) = MdcTblSz THEN [ok |-> TRUE, tbl |-> tbl]
    ELSE IF idle = Len(cs) THEN [ok |-> FALSE, tbl |-> tbl]
    ELSE LET k    == ix[c]
             next == (c % Len(cs)) + 1
         IN  IF k <= Len(cs[c]) /\ cs[c][k].credit > 0
             THEN LET left == cs[c][k].credit - 1
                  IN  FillTbl([cs EXCEPT ![c][k].credit = left],
                              [ix EXCEPT ![c] = IF left = 0 THEN @ + 1 ELSE @],
                              next, Append(tbl, cs[c][k].slot), 0)
             ELSE FillTbl(cs, ix, next, tbl, idle + 1)

\* The outcomes of rebuilding the table from slots sl with credits cr; on a
\* failed kcalloc the old table stays.
pmd_update_mds_tbl(sl, cr, old) ==
    LET b == BuildSets(cr, sl, cr[1], 1, <<>>)
        f == FillTbl(b.sets, [c \in 1..Len(b.sets) |-> 1], 1, <<>>, 0)
    IN  { [err |-> "none", tbl |-> old] } \cup
        { IF ~b.ok THEN [err |-> "cset_overflow", tbl |-> old]
          ELSE IF ~f.ok THEN [err |-> "hang", tbl |-> old]
          ELSE [err |-> "none", tbl |-> [t \in TblIdx |-> f.tbl[t + 1]]] }

\* The whole of pmd_update_credit: nothing to do without an MDCi; select,
\* drop the almost full, sort, keep MdcSetSz, credit, and build the table.
pmd_update_credit(svc, nm, cap, len, old) ==
    IF svc < 2 THEN { [err |-> "none", tbl |-> old] }
    ELSE
    LET sa   == SelectSeq(CandidateSlots(svc, nm),
                          LAMBDA s : ~AlmostFull(cap, len, s))
        free == [s \in UserSlots |-> ci_free(cap, len, s)]
    IN  UNION { LET n      == Min({Len(p), MdcSetSz})
                    chosen == [i \in 1..n |-> p[i]]
                    total  == SumFunction([i \in 1..n |-> free[chosen[i]]])
                IN  IF n = 0 THEN { [err |-> "mod3613", tbl |-> old] }
                    ELSE IF total = 0 THEN { [err |-> "div3599", tbl |-> old] }
                    ELSE pmd_update_mds_tbl(chosen, CreditOf(chosen, free), old)
              : p \in SortedBy(sa, free) }

-----------------------------------------------------------------------------
(* The pre-compactor's other steps.                                        *)

\* pmd_need_compact is false for an MDC that reported no capacity; when it
\* holds (thresholds are tunables) the compaction rewrites the live records
\* and the mlog layer reports the shorter length.
Compacted(cslot) ==
    IF pcc_cap[cslot] = 0 THEN {pcc_len[cslot]} ELSE 0..pcc_len[cslot]

\* pmd_mdc_needed: never at MDC_SLOTS, never when no MDC reported a
\* capacity, otherwise up to the usage and garbage tunables.
MdcNeededPossible(svc) ==
    svc < MdcSlots /\ \E s \in 1..svc-1 : pcc_cap[s] > 0

\* pmd_mdc_alloc_set: top the MDC count up to a multiple of MdcSetSz, at
\* most to MDC_SLOTS; a failed pmd_mdc_alloc stops the batch early.
pmd_mdc_alloc_set(svc) ==
    LET mdc_cnt == Min({MdcSetSz - ((svc - 1) % MdcSetSz), MdcSlots - svc})
    IN  svc..svc + mdc_cnt

SlotvcntAfterGrowth(svc) ==
    IF MdcNeededPossible(svc) THEN pmd_mdc_alloc_set(svc) ELSE {svc}

-----------------------------------------------------------------------------
(* Initial state and actions.                                              *)

\* After activation: any MDC count, counters and table zeroed, pco_nmtoc
\* reset by pmd_precompact_start; the tunable is fixed for the pool.
Init ==
    /\ pcc_len = [s \in UserSlots |-> 0]
    /\ pcc_cap = [s \in UserSlots |-> 0]
    /\ slotvcnt \in 1..MdcSlots
    /\ nmtoc = 0
    /\ mds_tbl = [t \in TblIdx |-> 0]
    /\ oops = "none"
    /\ visited = 0
    /\ nbnoalloc \in NbNoAllocs

\* Mutant: the cursor is taken modulo one MDC too few, so the newest MDC
\* is never a candidate.
PrecompactSlot_skip_last(nm, svc) ==
    IF svc > 2 THEN (nm % (svc - 2)) + 1 ELSE 1

\* The MDC a run pre-compacts: only MDC1..MDCn, by the shared cursor.
PrecompactSlot(nm, svc) == (nm % (svc - 1)) + 1

\* One run of the delayed work pmd_precompact: take the cursor, compact the
\* MDC it names, grow the MDC set if needed, rebuild the credit table.  The
\* cursor is taken modulo slotvcnt - 1 before any check of slotvcnt.
pmd_precompact ==
    /\ oops = "none"
    /\ nmtoc' = (nmtoc + 1) % NmtocWrap
    /\ UNCHANGED <<pcc_cap, nbnoalloc>>
    /\ \/ /\ slotvcnt = 1
          /\ oops' = "div3767"
          /\ UNCHANGED <<pcc_len, slotvcnt, mds_tbl, visited>>
       \/ /\ slotvcnt > 1
          /\ LET cslot == PrecompactSlot(nmtoc, slotvcnt)
             IN  /\ visited' = cslot
                 /\ \E l \in Compacted(cslot),
                       svc \in SlotvcntAfterGrowth(slotvcnt) :
                      LET len == [pcc_len EXCEPT ![cslot] = l]
                      IN  \E r \in pmd_update_credit(svc, nmtoc', pcc_cap,
                                                     len, mds_tbl) :
                             /\ pcc_len' = len
                             /\ slotvcnt' = svc
                             /\ mds_tbl' = r.tbl
                             /\ oops' = r.err

\* Mutant: the length is recorded but not the capacity.
pmd_precompact_alsz_nocap(s, l) ==
    /\ s < slotvcnt
    /\ pcc_len' = [pcc_len EXCEPT ![s] = l]
    /\ UNCHANGED <<pcc_cap, slotvcnt, nmtoc, mds_tbl, oops, visited,
                   nbnoalloc>>

\* pmd_precompact_alsz after an append to MDCs's active mlog: the mlog
\* layer reports the new length and the capacity.
pmd_precompact_alsz(s, l) ==
    /\ s < slotvcnt
    /\ pcc_len' = [pcc_len EXCEPT ![s] = l]
    /\ pcc_cap' = [pcc_cap EXCEPT ![s] = Cap]
    /\ UNCHANGED <<slotvcnt, nmtoc, mds_tbl, oops, visited, nbnoalloc>>

Next ==
    \/ pmd_precompact
    \/ \E s \in UserSlots, l \in 0..Cap : pmd_precompact_alsz(s, l)

\* Only pmd_precompact advances pco_nmtoc, and it can run whenever the
\* worker is alive (pmd_update_credit always yields a table or an oops),
\* so a run is a step that advances the cursor.  Fairness is stated on
\* this form: it admits the same steps as pmd_precompact, and TLC
\* evaluates it without rebuilding the credit tables.
PrecompactRuns == oops = "none" /\ nmtoc' = (nmtoc + 1) % NmtocWrap

\* The work item re-queues itself at the end of every run
\* (queue_delayed_work after mp_pcoperiod seconds) and nothing cancels it
\* while the pool is active, so a live worker keeps running.  The length
\* reports of appends are up to the application and get no fairness.
Fairness == WF_nmtoc(PrecompactRuns)

Spec == Init /\ [][Next]_vars /\ Fairness

-----------------------------------------------------------------------------
(* Properties.                                                             *)

\* What the table promises (spec.md 4.G, steps 1-4), stated without the
\* sort, the credit sets or the fill loop: the MDCs it names are the
\* MdcSetSz with most free space among those outside the pre-compaction
\* window and not almost full; each appears MDC_TBL_SZ * free / total
\* times, rounded down, or once more; and the remainder goes round-robin
\* from the MDC with most free space, so an MDC that got one more has at
\* least as much free space as one that did not.
ExclusionWindow(svc, nm) ==
    LET N == svc - 1
        cur == (nm % N) + 1
    IN  IF svc >= nbnoalloc + 2
        THEN {((cur - 1 + j) % N) + 1 : j \in 0..nbnoalloc}
        ELSE {}

TableMeetsCredit(tbl, svc, nm, cap, len) ==
    LET Allowed == {s \in 1..svc-1 \ ExclusionWindow(svc, nm) :
                        ~AlmostFull(cap, len, s)}
        free(s)  == cap[s] - len[s]
        count(s) == Cardinality({t \in TblIdx : tbl[t] = s})
        k == Min({Cardinality(Allowed), MdcSetSz})
    IN  \E S \in kSubset(k, Allowed) :
          LET F == MapThenSumSet(free, S)
              share(s) == (MdcTblSz * free(s)) \div F
              extra(s) == count(s) - share(s)
          IN  /\ \A a \in S, b \in Allowed \ S : free(a) >= free(b)
              /\ \A t \in TblIdx : tbl[t] \in S
              /\ \A s \in S : extra(s) \in {0, 1}
              /\ \A a, b \in S : extra(a) > extra(b) => free(a) >= free(b)

\* Every table pmd_update_credit writes meets the credit promise for the
\* MDC count, cursor and space the pre-compactor saw in that run.
TableProportional ==
    [][ /\ oops' = "none"
        /\ nmtoc' # nmtoc
        /\ slotvcnt' >= 2
        /\ mds_tbl' # mds_tbl
        => TableMeetsCredit(mds_tbl', slotvcnt', nmtoc', pcc_cap, pcc_len') ]_vars

\* pmd_update_mds_tbl never writes a credit set past the num_mdc sets it
\* allocated and never spins in its fill loop: both depend on the sort and
\* the remainder leaving the first MDC the largest credit.
MdsTblBuildSafe == oops \notin {"cset_overflow", "hang"}

\* The pre-compactor never takes a division or modulo by zero: not picking
\* its MDC (nmtoc % (slotvcnt - 1), line 3767), not computing credit
\* (/ free, line 3599), not spreading the remainder (% num_mdc, line 3613).
PrecompactNoDivZero == oops \notin {"div3767", "div3599", "mod3613"}

\* Every MDC in use is pre-compacted again and again, unless the worker
\* has died: the shared cursor pco_nmtoc walks MDC1..MDCn, taken modulo the
\* mdi_slotvcnt of each run, so MDCs that pmd_mdc_alloc_set adds join the
\* rotation and none is starved into compacting on an application's commit.
EveryMdcPrecompacted ==
    \A s \in UserSlots :
        []<>(oops # "none" \/ s >= slotvcnt \/ visited = s)

=============================================================================
