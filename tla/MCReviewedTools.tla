---------------------------- MODULE MCReviewedTools ----------------------------
(* Two processes with one --output and a server that also lists another file. *)
EXTENDS ReviewedTools, TLC

Op(id, signature, author) == [id |-> id, signature |-> signature, author |-> author]

\* An observed and an invented signature, and two operations of one id.
MCAlphabet == {Op("list.a", "seen", "model"), Op("list.a", "made up", "model"),
               Op("list.a", "made up", "operator")}
\* Two ids with one tool name.
MCSlug == [id \in {"list.a", "list_a"} |-> "list_a"]
MCToolNames == {<<"acme", "list_a">>}
MCShelf == 2 :> [kind |-> "whole", provider |-> "acme", method |-> "api_key_header",
                 ops |-> {Op("list_a", "shelf", "operator"),
                          Op("list.a", "shelf", "operator")}]
================================================================================
