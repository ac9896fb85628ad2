----------------------------- MODULE MCSeqLock -----------------------------
(* A capped reader (Core 1) and an uncapped one (the logger) of one        *)
(* seqlock.  SeqMod = 4 makes the counter wrap at the second write; two     *)
(* words are enough for a copy to be torn.                                 *)
EXTENDS SeqLock

CONSTANTS core1, logger

MCCap == [r \in {core1, logger} |-> IF r = core1 THEN 2 ELSE NoCap]
=============================================================================
