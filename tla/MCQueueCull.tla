---------------------------- MODULE MCQueueCull ----------------------------
(* Small instances of QueueCull: the sets a .cfg file cannot spell.         *)
EXTENDS QueueCull

CONSTANT MaxHybridCount   \* largest hybrid count of a byte in one run

MCHybridMaps == [Slots -> 0 .. MaxHybridCount]
=============================================================================
