------------------------------ MODULE PmdObjid ------------------------------
(***************************************************************************)
(* Object ids of the pool metadata: an objid names the user MDC (slot)    *)
(* that catalogues the object, a per-MDC unique number and the object     *)
(* type.  Shared by the detailed model PmdMdc and the abstract catalogue  *)
(* PmdCatalog.                                                             *)
(***************************************************************************)
EXTENDS Integers

CONSTANTS
    NumMdc,     \* user MDCs, slots 1..NumMdc (slotvcnt = NumMdc + 1)
    UniqDelta,  \* OBJID_UNIQ_DELTA: every UniqDelta-th uniq is checkpointed
    MaxUniq     \* bound on the uniq part of object ids

ASSUME NumMdc \in Nat \ {0} /\ UniqDelta \in Nat \ {0} /\ MaxUniq \in Nat

Slots   == 1 .. NumMdc
Otypes  == {"mblock", "mlog"}
\* objid_make(uniq, otype, slot): an object id is its slot, uniq and type.
Objids  == Slots \X (1 .. MaxUniq) \X Otypes
NoOid   == <<0, 0, "none">>

objid_slot(oid) == oid[1]
objid_uniq(oid) == oid[2]
objid_type(oid) == oid[3]
\* objid_ckpt(): the uniq of this id must be durably checkpointed first.
objid_ckpt(u)   == u % UniqDelta = 0

====
