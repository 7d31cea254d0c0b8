---------------------------- MODULE MCAlgorithms ----------------------------
(***************************************************************************)
(* Small instances of the sequential algorithms: the heap under any client, *)
(* the scores, the walks over a line and the time model.  A behaviour runs  *)
(* one of them and leaves the others at a fixed initial state.              *)
(***************************************************************************)
EXTENDS PQueueClient, Scoring, WritePointer, Timing, TLC

VARIABLE part

vars == <<part, cvars, svars, wvars, tvars>>

SIdle == steps = FLAT /\ ln = [vpc |-> 0, age |-> 0] /\ best = ln

WIdle ==
    /\ spp = ssd_init_params(CHOOSE c \in Devices : TRUE)
    /\ wpp = First /\ cursor = [flashpg |-> 0, ch |-> 0, lun |-> 0]
    /\ filled = <<>> /\ cleaned = <<>> /\ erased = <<>>

Init ==
    /\ part \in {"queue", "score", "walk", "timing"}
    /\ CInit
    /\ IF part = "score" THEN SInit ELSE SIdle
    /\ IF part = "walk" THEN WInit ELSE WIdle
    /\ TInit

Next ==
    /\ UNCHANGED part
    /\ \/ part = "queue"  /\ CNext     /\ UNCHANGED <<svars, wvars, tvars>>
       \/ part = "score"  /\ GrowOlder /\ UNCHANGED <<cvars, wvars, tvars>>
       \/ part = "walk"   /\ WNext     /\ UNCHANGED <<cvars, svars, tvars>>
       \/ part = "timing" /\ TNext     /\ UNCHANGED <<cvars, svars, wvars>>

Spec == Init /\ [][Next]_vars

-----------------------------------------------------------------------------
\* Every small geometry, partitioned or not, with the size or with the number
\* of the blocks given, and a capacity that none of them divides.
MCDevices ==
    {c \in [NAND_CHANNELS : {1, 3, 4}, LUNS_PER_NAND_CH : 1 .. 2, nparts : 1 .. 2,
            ONESHOT_PAGE : 1 .. 4, FLASH_PAGE : 1 .. 2,
            BLKS_PER_PLN : {0, 2}, BLK_SIZE : {0, 5}, capacity : {29}] :
        /\ c.NAND_CHANNELS % c.nparts = 0 /\ c.ONESHOT_PAGE % c.FLASH_PAGE = 0
        /\ (c.BLKS_PER_PLN > 0) # (c.BLK_SIZE > 0)}

\* Ages around the boundaries of a table and of the integer width, and one of
\* the ordinary ones that no boundary is near.
MCAges ==
    [t \in Tables |-> {0, 5, MaxU64 - 1, MaxU64}
        \cup {t[i].upper_age_ns + e : i \in 1 .. (Len(t) - 1), e \in {-1, 0, 1}}]

MCLatency == [read |-> 1, write |-> 2, erase |-> 3]
MCStarts == {-1, 0, 5}

Symmetry == Permutations(Luns)

=============================================================================
