--------------------------- MODULE MCReverseProxy ---------------------------
(* ReverseProxy for TLC: Ollama servers o1 and o2 around the vLLM server   *)
(* v1 in the order of get_servers, and the cloud fallback.                 *)
EXTENDS ReverseProxy, TLC

CONSTANTS o1, o2, v1, cloud

MCRank == o1 :> 1 @@ v1 :> 2 @@ o2 :> 3 @@ cloud :> 4

AnyRegistry == [Servers -> Statuses]
=============================================================================
