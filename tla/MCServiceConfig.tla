---------------------------- MODULE MCServiceConfig ----------------------------
(***************************************************************************)
(* One optional and one required integer, each with everything that Number *)
(* tells apart, the two required strings, one of them with a minimum, and  *)
(* every way to write an origin of two sites.                              *)
(***************************************************************************)
EXTENDS ServiceConfig

CONSTANTS s1, s2

MCSites == {s1, s2}
MCFallback == [n \in {"CLAIM_CREATE_RATE_LIMIT"} |-> 10]
MCRaws == {"absent", "", " ", "0", "-1", "1.5", "x", "6379", "0x10"}
MCIntegerOf == [raw \in {" ", "0", "-1", "6379", "0x10"} |->
                  CASE raw = "-1"   -> -1
                    [] raw = "6379" -> 6379
                    [] raw = "0x10" -> 16
                    [] OTHER        -> 0]
MCMinimum == [n \in {"JWT_SECRET", "REDIS_HOST"} |-> IF n = "JWT_SECRET" THEN 2 ELSE 1]
MCDefaultOrigin == [scheme |-> "http", site |-> s1, plain |-> TRUE]
=============================================================================
