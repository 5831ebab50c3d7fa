------------------------- MODULE MCGiRegistryCache -------------------------
(* Two requests of one user in one isolate.  In the first version of the   *)
(* designs the GI is exposed and takes parameters; the edit ends both.     *)
(* A behaviour is of one part, so that the run's size is a sum.  In        *)
(* "ageing" a registry has been built before, and two of three happen: a   *)
(* tick, a clear, and a failed access or the death of an isolate.  In      *)
(* "late" a write or a listing is late, and no tick passes: a tick ends    *)
(* the lateness of every key, so that it could add only what the isolate   *)
(* has remembered of it.                                                   *)
EXTENDS GiRegistryCache, TLC

CONSTANTS r1, r2, u1, i1

MCRequests == {r1, r2}
MCUsers    == {u1}
MCUserOf   == [r \in MCRequests |-> u1]
MCIsolates == {i1}
Symmetry   == Permutations(MCRequests)

VARIABLE part

(* A write or a listing of this step is late.                              *)
LateStep ==
    \/ oldReg' # {} \/ \E u \in Users : oldMeta'[u] # {}
    \/ clear.pc = "list" /\ clear'.pc = "delete" /\ faults' # faults

MCInit ==
    /\ Init
    /\ \/ part = "ageing" /\ kvReg # NoReg
       \/ part = "late"

MCNext ==
    /\ Next /\ UNCHANGED part
    /\ IF part = "ageing" THEN ~LateStep /\ (now' = 0 \/ clears' = 0 \/ faults' = 0)
       ELSE now' = now /\ (faults' = faults \/ LateStep)

MCSpec == MCInit /\ [][MCNext]_<<part, vars>>
=============================================================================
