----------------------------- MODULE SiteSignals -----------------------------
(***************************************************************************)
(* What the ETL promises the scraper about the site_crawl_completed events *)
(* of the Kafka topic: an event is committed only when it is settled (its  *)
(* site is processed, dead-lettered, or was no valid event), and what is   *)
(* committed or settled stays so.  etl_ingestion_pipeline_dag.py calls it  *)
(* at-least-once.                                                          *)
(***************************************************************************)
EXTENDS Integers

CONSTANTS
  Partition,    \* partitions of the topic
  MaxOffset     \* messages per partition

Event == Partition \X (0 .. MaxOffset - 1)

VARIABLES
  settled,      \* events nothing is owed any more
  committed     \* the group's offset per partition

Init ==
  /\ settled \subseteq Event
  /\ committed = [p \in Partition |-> 0]

Settle(e) ==
  /\ settled' = settled \cup {e}
  /\ UNCHANGED committed

Commit(offsets) ==
  /\ \A p \in Partition : offsets[p] >= committed[p]
  /\ \A e \in Event : e[2] < offsets[e[1]] => e \in settled
  /\ committed' = offsets
  /\ UNCHANGED settled

Next ==
  \/ \E e \in Event : Settle(e)
  \/ \E offsets \in [Partition -> 0 .. MaxOffset] : Commit(offsets)

Spec == Init /\ [][Next]_<<settled, committed>>
=============================================================================
