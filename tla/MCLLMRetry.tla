----------------------------- MODULE MCLLMRetry -----------------------------
EXTENDS LLMRetry, TLC

(* A second model of the first provider. *)
SameProvider == <<[provider |-> "openai", model |-> "b", url |-> ""]>>

NoFallback == <<>>
=============================================================================
