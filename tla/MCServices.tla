----------------------------- MODULE MCServices -----------------------------
(* Services for TLC.                                                        *)
EXTENDS Services

CONSTANTS ann, ben, cleo

\* Two of the three have openids that begin alike.
SomePrefixes == [o \in Openids |-> IF o = cleo THEN "oB" ELSE "oA"]
=============================================================================
