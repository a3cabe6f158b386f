------------------------ MODULE MCKnowledgeIngestion -------------------------
(* KnowledgeIngestion for TLC.                                              *)
EXTENDS KnowledgeIngestion
=============================================================================
