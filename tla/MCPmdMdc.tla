----------------------------- MODULE MCPmdMdc -----------------------------
(***************************************************************************)
(* Model-checking instances of PmdMdc on one user MDC.                     *)
(***************************************************************************)
EXTENDS PmdMdc, TLC

CONSTANTS t1, t2

\* Two client threads racing on the same MDC.
MCThreads == {t1, t2}

\* One client thread, for the runs with a longer log.
MCThread == {t1}

\* Client threads are interchangeable.
ThreadSymmetry == Permutations(MCThreads)

====
