---------------------------- MODULE MCLlmGateway ----------------------------
(* Instances of LlmGateway for TLC. *)
EXTENDS LlmGateway

\* No key configured, or two.
Keys == {<<>>, <<"groq", "mistral">>}

=============================================================================
