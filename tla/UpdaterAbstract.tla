--------------------------- MODULE UpdaterAbstract ---------------------------
(***************************************************************************)
(* What an update over the block protocol promises, with the link, the     *)
(* retries and the reset requests abstracted away: the target writes       *)
(* blocks of the plan; the tool moves past a block only once the target    *)
(* has written it; it reports its result once, and reports success only    *)
(* after the last block.                                                   *)
(***************************************************************************)
EXTENDS Naturals, Sequences

CONSTANT Blocks       \* the blocks to transfer, in order

VARIABLES
    apos,             \* the first block the tool has not yet moved past
    awritten,         \* the blocks the target has written
    ares              \* the tool's result, "none" while it runs

avars == <<apos, awritten, ares>>

AInit ==
    /\ apos = 1
    /\ awritten = {}
    /\ ares = "none"

\* The target writes one of the plan's blocks (again, possibly).
Write ==
    /\ \E i \in 1..Len(Blocks) : awritten' = awritten \cup {Blocks[i]}
    /\ UNCHANGED <<apos, ares>>

\* The tool moves on from a block the target has written.
Advance ==
    /\ ares = "none"
    /\ apos <= Len(Blocks)
    /\ Blocks[apos] \in awritten
    /\ apos' = apos + 1
    /\ UNCHANGED <<awritten, ares>>

\* The tool gives up, at any point.
Abort ==
    /\ ares = "none"
    /\ ares' = "update_error"
    /\ UNCHANGED <<apos, awritten>>

\* The tool has moved past every block and reports the update.
Complete ==
    /\ ares = "none"
    /\ apos = Len(Blocks) + 1
    /\ ares' \in {"noop", "all_updated"}
    /\ UNCHANGED <<apos, awritten>>

ANext == Write \/ Advance \/ Abort \/ Complete

ASpec == AInit /\ [][ANext]_avars
================================================================================
