--------------------------- MODULE MCCircuitBreaker --------------------------
(* CircuitBreaker on the default fallback chain of chat_service, two chats  *)
(* at a time: a chat may choose any of the chain's models as its primary.   *)
(* The third model of the chain has no API key here (its provider is not    *)
(* configured).                                                             *)
EXTENDS CircuitBreaker

CONSTANTS deepseek, qwen, anthropic

MCModels == {deepseek, qwen, anthropic}
MCConfigured == {deepseek, qwen}
MCDefaultChain == <<deepseek, qwen, anthropic>>
MCChains == {Candidates(p, MCDefaultChain) : p \in {deepseek, qwen}}

=============================================================================
