----------------------------- MODULE MCExperts -----------------------------
(***************************************************************************)
(* Experts with a trace of one request shape and a few random choices.     *)
(***************************************************************************)
EXTENDS Experts

\* Two layers, a prompt of two tokens: layer 0 of both tokens, then layer 1.
PromptRows == << {0, 1}, {0, NumExpert - 1}, {1, NumExpert \div 2}, {0, NumExpert \div 2} >>
OutputRows == << {0, NumExpert - 1}, {0, 1}, {1, 2}, {2, NumExpert - 1} >>

FewChoices == { {0, 1}, {2, NumExpert - 1} }
=============================================================================
