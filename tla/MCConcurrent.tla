---------------------------- MODULE MCConcurrent ----------------------------
(* Requests of one worker interleaved, over two servers in service: o1 is  *)
(* an Ollama server, v1 a vLLM server created before it.                   *)
EXTENDS ReverseProxyHistory, TLC

CONSTANTS o1, v1, cloud

MCRank == o1 :> 1 @@ v1 :> 2 @@ cloud :> 3

AllActive == {[s \in Servers |-> "active"]}
=============================================================================
