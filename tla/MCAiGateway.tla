----------------------------- MODULE MCAiGateway -----------------------------
(***************************************************************************)
(* AiGateway on small instances: two environments an operator switches     *)
(* between, conversations with and without personal data, with a system    *)
(* message of their own, and with a list of content parts.  The calls may  *)
(* be permuted.                                                            *)
(***************************************************************************)
EXTENDS AiGateway, TLC

Say(role, content) == [role |-> role, content |-> content]

Dialogue == <<Say("user", "pii"), Say("assistant", "text"), Say("user", "text")>>
Inlaid   == <<Say("system", "pii"), Say("user", "text"), Say("system", "text")>>
Parts    == <<Say("user", "parts")>>

TheConversations == {Dialogue, Inlaid, Parts}

OpenAiOnly == [AI_PROVIDER |-> "unset", AI_MODEL_DEFAULT |-> "unset",
               keys |-> {"openai"}]
AllThree   == [AI_PROVIDER |-> "anthropic", AI_MODEL_DEFAULT |-> "llama",
               keys |-> Providers]
Mistyped   == [AI_PROVIDER |-> "unknown", AI_MODEL_DEFAULT |-> "llama",
               keys |-> Providers]

MCEnvironments == {OpenAiOnly, AllThree, Mistyped}

Symmetry == Permutations(Calls)
=============================================================================
