------------------------------ MODULE MCKafka ------------------------------
(***************************************************************************)
(* The consumer group of KafkaConsumer for TLC.  The configurations give   *)
(* it two workers and one partition; no symmetry is used, because one of   *)
(* them checks liveness.                                                   *)
(***************************************************************************)
EXTENDS KafkaConsumer
=============================================================================
