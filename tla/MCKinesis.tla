------------------------------ MODULE MCKinesis ------------------------------
(***************************************************************************)
(* Small instances of KinesisStreams.                                      *)
(***************************************************************************)
EXTENDS KinesisStreams

\* single records of one hash key; or also a batch across two shards
OneKey == {<<1>>}
OneOrTwo == {<<1>>, <<1, 2>>}
=============================================================================
