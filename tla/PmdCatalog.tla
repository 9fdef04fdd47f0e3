----------------------------- MODULE PmdCatalog -----------------------------
(***************************************************************************)
(* What the user MDCs promise to keep durable, whatever the crashes,       *)
(* compactions and I/O errors: a catalogue of committed objects with their *)
(* mlog generations, and per MDC the objid checkpoint.  A step creates one *)
(* object with an id the checkpoint covers, deletes one, raises the       *)
(* generation of one mlog, or advances one checkpoint by exactly one       *)
(* OBJID_UNIQ_DELTA; any other step leaves the catalogue as it is.  An id *)
(* is covered by the checkpoint when it is below the next one: a crash    *)
(* cannot hand it out again.                                               *)
(***************************************************************************)
EXTENDS PmdObjid, FiniteSets, Functions, TLC

CONSTANT MaxGen     \* bound on mlog generations

VARIABLES
    catalog,    \* objid -> generation, for every durably committed object
    ckpt        \* slot -> durable objid checkpoint (uniq)

cvars == <<catalog, ckpt>>

CatalogTypeOK ==
    /\ DOMAIN catalog \subseteq Objids
    /\ \A o \in DOMAIN catalog : catalog[o] \in 0 .. MaxGen
    /\ ckpt \in [Slots -> 0 .. MaxUniq]

CatalogInit ==
    /\ catalog = <<>>
    /\ ckpt = [s \in Slots |-> 0]

(***************************************************************************)
(* The steps, stated over the catalogue c, k before and c2, k2 after.      *)
(***************************************************************************)
Create(o, c, k, c2, k2) ==
    /\ o \notin DOMAIN c
    /\ objid_uniq(o) <= k[objid_slot(o)] + UniqDelta - 1
    /\ c2 = (o :> 0) @@ c
    /\ k2 = k

Delete(o, c, k, c2, k2) ==
    /\ o \in DOMAIN c
    /\ c2 = Restrict(c, DOMAIN c \ {o})
    /\ k2 = k

Erase(o, c, k, c2, k2) ==
    /\ o \in DOMAIN c
    /\ objid_type(o) = "mlog"
    /\ o \in DOMAIN c2 /\ DOMAIN c2 = DOMAIN c
    /\ c2[o] > c[o]
    /\ c2 = [c EXCEPT ![o] = c2[o]]
    /\ k2 = k

Checkpoint(s, c, k, c2, k2) ==
    /\ k[s] + UniqDelta <= MaxUniq
    /\ k2 = [k EXCEPT ![s] = @ + UniqDelta]
    /\ c2 = c

\* Each side of the step is evaluated once.
CatalogNext ==
    LET c == catalog  k == ckpt  c2 == catalog'  k2 == ckpt' IN
    \/ c2 = c /\ k2 = k
    \/ \E o \in Objids : \/ Create(o, c, k, c2, k2)
                         \/ Delete(o, c, k, c2, k2)
                         \/ Erase(o, c, k, c2, k2)
    \/ \E s \in Slots : Checkpoint(s, c, k, c2, k2)

CatalogSpec == CatalogInit /\ [][CatalogNext]_cvars

====
