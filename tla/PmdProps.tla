------------------------------ MODULE PmdProps ------------------------------
(***************************************************************************)
(* pmd_props_load (pmd.c 263-535) with pmd_cmp_drv_mdc0 (208-250): the     *)
(* first pass over MDC0 at activation.  It collects the latest MCCONFIG    *)
(* record of every drive, the spare percentages and the content version,   *)
(* then reconciles that drive list with the mpool descriptor: every        *)
(* descriptor drive is marked DEFUNCT, every non-defunct record either     *)
(* matches a descriptor drive (parms compared) or adds an UNAVAIL phantom, *)
(* a drive still DEFUNCT is a zombie, too many UNAVAIL drives in a class   *)
(* fail, and the spare percentages are applied last.                       *)
(*                                                                         *)
(* The load runs once, single threaded, so it is one action.  Its inputs,  *)
(* the MDC0 log and the descriptor, are chosen in Init over small sets;    *)
(* its faults (a failed read, unpack or kmalloc at any record, a failed    *)
(* mpool_desc_unavail_add) are chosen by the action.  A drive id is a      *)
(* number, so the rb-tree order of netdev is the numeric order; a drive's  *)
(* parms are a number whose media class is parm % MedNumber.               *)
(***************************************************************************)
EXTENDS Integers, Sequences, FiniteSets, SequencesExt, TLC

CONSTANTS NDev,       \* drive ids 1..NDev
          NParm,      \* drive parms 0..NParm-1
          MedNumber,  \* MP_MED_NUMBER
          MaxRecs     \* length bound of the MDC0 log

Devs    == 1..NDev
Parms   == 0..NParm-1
Classes == 0..MedNumber-1
ClassOf(p) == p % MedNumber

\* The MDC0 records pmd_props_load tells apart.  An MCSPARE record may name
\* the invalid class MedNumber; the spare percentage itself is abstracted.
\* MPCONFIG only overwrites pds_cfg, which nothing here reads, so it is left
\* out; OBJ stands for every object record, which the loop skips.
McConfigRec == [rtype : {"MCCONFIG"}, dev : Devs,
                state : {"ACTIVE", "DEFUNCT"}, parm : Parms]
Records == McConfigRec
           \cup [rtype : {"MCSPARE"}, mclassp : 0..MedNumber]
           \cup [rtype : {"VERSION"}, newer : BOOLEAN]
           \cup [rtype : {"OBJ"}]

PdState == {"ACTIVE", "DEFUNCT"}
Pd == [dev : Devs, parm : Parms, unavail : BOOLEAN, state : PdState]

\* The drives mpool open hands over, in pdh order: at least one, ids unique.
Descriptors ==
    UNION { { LET ds == SetToSortSeq(D, <) IN
              [h \in 1..Len(ds) |-> [dev |-> ds[h], parm |-> pf[ds[h]],
                                     unavail |-> uf[ds[h]], state |-> "ACTIVE"]]
              : pf \in [D -> Parms], uf \in [D -> BOOLEAN] }
            : D \in SUBSET Devs \ {{}} }

Errs == {"none", "OK", "EIO", "EINVAL", "EOPNOTSUPP", "ENOMEM", "ENXIO",
         "ESPZONE"}

VARIABLES mdc0,     \* the MDC0 log (read only)
          desc,     \* the descriptor as handed to the load (read only)
          pdv,      \* mp->pds_pdv[0 .. pds_pdvcnt-1]
          uacnt,    \* mp->pds_mc[c].mc_uacnt
          spare,    \* classes whose spare percentage mc_set_spzone set
          mdccver,  \* mdi_slotv[0].mmi_mdccver
          err,      \* the load's return value
          fault     \* whether the action chose a read or add failure
vars == <<mdc0, desc, pdv, uacnt, spare, mdccver, err, fault>>

TypeOK ==
    /\ mdc0 \in Seq(Records) /\ Len(mdc0) <= MaxRecs
    /\ desc \in Seq(Pd)
    /\ pdv \in Seq(Pd)
    /\ \A h1, h2 \in DOMAIN pdv : pdv[h1].dev = pdv[h2].dev => h1 = h2
    /\ uacnt \in [Classes -> 0..NDev]
    /\ spare \in SUBSET Classes
    /\ mdccver \in {"unset", "latest", "newer"}
    /\ err \in Errs
    /\ fault \in BOOLEAN

-----------------------------------------------------------------------------
(* Reading MDC0 (pmd.c 307-396).  st.netdev is the rb tree keyed by devid,  *)
(* a function from drive id to its record; an MCCONFIG record replaces the  *)
(* one found for its drive (search, erase, kfree, kmalloc, insert).         *)

\* Mutant: the record found is kept and the newer one dropped.
devid_to_dstate_mdcrec_keep_first(nd, r) == nd @@ (r.dev :> r)

devid_to_dstate_mdcrec_upsert(nd, r) == (r.dev :> r) @@ nd

\* rf is the number of the mp_mdc_read call that fails, or of the record
\* whose unpack or kmalloc fails (0: none); call Len(lg)+1 reads end-of-log.
RECURSIVE ReadFrom(_, _, _, _)
ReadFrom(lg, i, rf, st) ==
    IF i = rf THEN [st EXCEPT !.err = "EIO"]
    ELSE IF i > Len(lg) THEN st
    ELSE LET r == lg[i] IN
      CASE r.rtype = "OBJ" -> ReadFrom(lg, i + 1, rf, st)
        [] r.rtype = "MCCONFIG" ->
             ReadFrom(lg, i + 1, rf,
                      [st EXCEPT !.netdev = devid_to_dstate_mdcrec_upsert(@, r)])
        [] r.rtype = "MCSPARE" /\ r.mclassp \in Classes ->
             ReadFrom(lg, i + 1, rf, [st EXCEPT !.spzone = @ \cup {r.mclassp}])
        [] r.rtype = "MCSPARE" -> [st EXCEPT !.err = "EINVAL"]
        [] r.rtype = "VERSION" /\ r.newer ->
             [st EXCEPT !.ver = "newer", !.err = "EOPNOTSUPP"]
        [] r.rtype = "VERSION" -> ReadFrom(lg, i + 1, rf, [st EXCEPT !.ver = "latest"])

-----------------------------------------------------------------------------
(* Reconciling the drive list (pmd.c 411-439).                              *)

\* Mutant: the descriptor lookup never finds the drive.
uuid_to_idx_search_miss(pv, d) == 0

\* uuid_to_idx_search on pds_dev2pdh: the pdh of a drive id, 0 if absent.
uuid_to_idx_search(pv, d) ==
    IF \E h \in DOMAIN pv : pv[h].dev = d
    THEN CHOOSE h \in DOMAIN pv : pv[h].dev = d ELSE 0

\* pmd_cmp_drv_mdc0: the drive takes the record's state, then any parms
\* mismatch is EINVAL; an UNAVAIL drive only changes the warning printed.
pmd_cmp_drv_mdc0(pv, h, r) ==
    [pdv |-> [pv EXCEPT ![h].state = r.state],
     err |-> IF pv[h].parm = r.parm THEN "OK" ELSE "EINVAL"]

\* mpool_desc_unavail_add (outside src/): appends an UNAVAIL drive with the
\* record's state and parms, or fails (af).
mpool_desc_unavail_add(pv, r, af) ==
    [pdv |-> IF af THEN pv
             ELSE Append(pv, [dev |-> r.dev, parm |-> r.parm,
                              unavail |-> TRUE, state |-> r.state]),
     err |-> IF af THEN "ENOMEM" ELSE "OK"]

\* The walk over netdev in devid order; it stops at the first error.  af:
\* the first unavail add fails.
RECURSIVE ReconcileFrom(_, _, _, _)
ReconcileFrom(recs, i, pv, af) ==
    IF i > Len(recs) THEN [pdv |-> pv, err |-> "OK"]
    ELSE LET r   == recs[i]
             h   == uuid_to_idx_search(pv, r.dev)
             res == IF h # 0 THEN pmd_cmp_drv_mdc0(pv, h, r)
                    ELSE mpool_desc_unavail_add(pv, r, af)
         IN IF r.state = "DEFUNCT" THEN ReconcileFrom(recs, i + 1, pv, af)
            ELSE IF res.err # "OK" THEN res
            ELSE ReconcileFrom(recs, i + 1, res.pdv, af)

\* Zombie check and uacnt (pmd.c 441-491): the walk counts UNAVAIL drives
\* per class up to the first DEFUNCT drive, which is ENXIO; otherwise a
\* class with MedNumber or more UNAVAIL drives is EINVAL.
FirstZombie(pv) ==
    IF \E h \in DOMAIN pv : pv[h].state = "DEFUNCT"
    THEN CHOOSE h \in DOMAIN pv : pv[h].state = "DEFUNCT"
                                  /\ \A g \in 1..h-1 : pv[g].state # "DEFUNCT"
    ELSE Len(pv) + 1
UacntUpTo(pv, z) ==
    [c \in Classes |-> Cardinality({h \in 1..z-1 : pv[h].unavail
                                                  /\ ClassOf(pv[h].parm) = c})]
ZombieErr(pv, uc) ==
    IF FirstZombie(pv) <= Len(pv) THEN "ENXIO"
    ELSE IF \E c \in Classes : uc[c] >= MedNumber THEN "EINVAL" ELSE "OK"

\* The spare walk (pmd.c 501-524): classes in order; mc_set_spzone fails
\* when the class has no drive.  Returns the classes set and the error.
SpareFrom(pv, sz) ==
    LET HasPd(c) == \E h \in DOMAIN pv : ClassOf(pv[h].parm) = c
        bad      == {c \in sz : ~HasPd(c)}
        stop     == IF bad = {} THEN MedNumber ELSE Min(bad)
    IN [set |-> {c \in sz : c < stop}, err |-> IF bad = {} THEN "OK" ELSE "ESPZONE"]

-----------------------------------------------------------------------------
Init ==
    /\ mdc0 \in BoundedSeq(Records, MaxRecs)
    /\ desc \in Descriptors
    /\ pdv = desc
    /\ uacnt = [c \in Classes |-> 0]
    /\ spare = {}
    /\ mdccver = "unset"
    /\ err = "none"
    /\ fault = FALSE

\* The whole of pmd_props_load.
pmd_props_load ==
    /\ err = "none"
    /\ \E rf \in 0..Len(mdc0) + 1, af \in BOOLEAN :
         LET rd   == ReadFrom(mdc0, 1, rf, [err |-> "OK", netdev |-> <<>>,
                                            spzone |-> {}, ver |-> mdccver])
             recs == [i \in 1..Cardinality(DOMAIN rd.netdev) |->
                        rd.netdev[SetToSortSeq(DOMAIN rd.netdev, <)[i]]]
             defunct == [h \in DOMAIN pdv |-> [pdv[h] EXCEPT !.state = "DEFUNCT"]]
             rc   == ReconcileFrom(recs, 1, defunct, af)
             uc   == UacntUpTo(rc.pdv, FirstZombie(rc.pdv))
             zerr == ZombieErr(rc.pdv, uc)
             reset == [h \in DOMAIN rc.pdv |-> [rc.pdv[h] EXCEPT !.state = "ACTIVE"]]
             sp   == SpareFrom(reset, rd.spzone)
         IN /\ mdccver' = rd.ver
            /\ fault' = (rf # 0 \/ af)
            /\ IF rd.err # "OK"
               THEN /\ err' = rd.err
                    /\ UNCHANGED <<pdv, uacnt, spare>>
               ELSE /\ pdv' = reset
                    /\ uacnt' = IF rc.err = "OK" THEN uc ELSE uacnt
                    /\ spare' = IF rc.err = "OK" /\ zerr = "OK" THEN sp.set ELSE {}
                    /\ err' = IF rc.err # "OK" THEN rc.err
                              ELSE IF zerr # "OK" THEN zerr ELSE sp.err
    /\ UNCHANGED <<mdc0, desc>>

Next == pmd_props_load

Spec == Init /\ [][Next]_vars
-----------------------------------------------------------------------------
(* What the load promises, stated over the whole log rather than the walk: *)
(* the drive list is the latest MCCONFIG record of every drive.             *)

ReadClean ==
    \A i \in DOMAIN mdc0 :
        /\ mdc0[i].rtype = "MCSPARE" => mdc0[i].mclassp \in Classes
        /\ mdc0[i].rtype = "VERSION" => ~mdc0[i].newer
LatestIdx(d) == SelectLastInSeq(mdc0, LAMBDA r : r.rtype = "MCCONFIG" /\ r.dev = d)
Live(d)      == LatestIdx(d) # 0 /\ mdc0[LatestIdx(d)].state # "DEFUNCT"
Known        == {desc[h].dev : h \in DOMAIN desc}
DescOf(d)    == desc[CHOOSE h \in DOMAIN desc : desc[h].dev = d]
Phantoms     == {d \in Devs \ Known : Live(d)}
ParmOf(d)    == IF d \in Known THEN DescOf(d).parm ELSE mdc0[LatestIdx(d)].parm
UnavailDev(d) == d \notin Known \/ DescOf(d).unavail
UnavailIn(c) == {d \in Known \cup Phantoms : UnavailDev(d) /\ ClassOf(ParmOf(d)) = c}
SpareClasses == {mdc0[i].mclassp : i \in {j \in DOMAIN mdc0 : mdc0[j].rtype = "MCSPARE"}}

\* tol: a parms mismatch on a drive the descriptor marks UNAVAIL is only
\* a warning.
Accept(tol) ==
    /\ ReadClean
    /\ \A d \in Known : /\ Live(d)
                        /\ \/ mdc0[LatestIdx(d)].parm = DescOf(d).parm
                           \/ tol /\ DescOf(d).unavail
    /\ \A c \in Classes : Cardinality(UnavailIn(c)) < MedNumber
    /\ \A c \in SpareClasses : \E d \in Known \cup Phantoms : ClassOf(ParmOf(d)) = c

\* Without injected I/O or allocation failures, pmd_props_load succeeds
\* exactly when the latest MCCONFIG record of every descriptor drive is
\* live and matches it, no class has MP_MED_NUMBER UNAVAIL drives and every
\* spare class has a drive; on success the descriptor holds exactly the
\* live drives, phantoms UNAVAIL, with exact mc_uacnt and spare classes.
\* Whatever the outcome, no drive is left in the scratch DEFUNCT state the
\* reconcile walk uses to find zombies.
PropsLoadMatchesLog ==
    /\ err # "none" => \A h \in DOMAIN pdv : pdv[h].state # "DEFUNCT"
    /\ err # "none" /\ ~fault =>
         /\ (err = "OK") = Accept(FALSE)
         /\ err = "OK" =>
              /\ {pdv[h].dev : h \in DOMAIN pdv} = Known \cup Phantoms
              /\ \A h \in DOMAIN pdv : /\ pdv[h].unavail = UnavailDev(pdv[h].dev)
                                       /\ pdv[h].parm = ParmOf(pdv[h].dev)
              /\ uacnt = [c \in Classes |-> Cardinality(UnavailIn(c))]
              /\ spare = SpareClasses

\* spec.md: a parms mismatch is fatal unless the descriptor marks the drive
\* UNAVAIL, in which case the load warns and goes on.  pmd_cmp_drv_mdc0
\* returns EINVAL in both cases.
PropsLoadUnavailWarns ==
    err # "none" /\ ~fault /\ Accept(TRUE) => err = "OK"

=============================================================================
