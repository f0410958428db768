-------------------------- MODULE StreamingWriterLog --------------------------
(***************************************************************************)
(* The StreamingWriter implements the DurableLog: the log ends with the    *)
(* last sample of the last block, its durable beginning with the last      *)
(* sample of the last block that fsync covers.                             *)
(***************************************************************************)
EXTENDS StreamingWriter

\* The last sample of the first n of these blocks.
ValueAt(blocks, n) == IF n = 0 THEN 0 ELSE blocks[n].values[Len(blocks[n].values)]

Log == INSTANCE DurableLog WITH
          written <- ValueAt(file, Len(file)),
          durable <- ValueAt(file, synced),
          up      <- state \in {"Configure", "Streaming"}

\* Whatever the blocks, capacities, errors and the moment of a power loss, an
\* application sees a DurableLog.
ImplementsLog == Log!Spec
=============================================================================
