--------------------------- MODULE MCCaptureAnalysis ---------------------------
(* Two hosts, ids of two shapes with and without a literal before them, and a *)
(* literal that reads like the mark of an id.                                 *)
EXTENDS CaptureAnalysis

Request(host, method, path, query, body) ==
    [host |-> host, method |-> method, path |-> path, query |-> query,
     body |-> body, asset |-> FALSE]

MCRequests == {
    Request("api", "GET", <<"users", "42">>, <<"page", "page">>, <<>>),
    Request("api", "GET", <<"users", "c0ffee">>, <<"page", "limit">>, <<>>),
    Request("api", "GET", <<"users", "me">>, <<"page">>, <<>>),
    Request("api", "PUT", <<"7">>, <<>>, <<"name", "mail">>),
    Request("api", "PUT", <<":var">>, <<>>, <<"name">>),
    Request("api", "PUT", <<"c0ffee">>, <<>>, <<"name", "name">>),
    Request("cdn", "GET", <<"users", "42">>, <<"page">>, <<>>)}
MCUnseen == {r \in MCRequests : r.body # <<>> /\ r.path = <<"7">>}
MCShape == [s \in {"users", "me", ":var", "42", "7", "c0ffee"} |->
                IF s \in {"42", "7"} THEN "integer"
                ELSE IF s = "c0ffee" THEN "hex" ELSE ""]
MCHint == [s \in {"users", "me", ":var"} |->
               IF s = "users" THEN "user" ELSE IF s = ":var" THEN "var" ELSE s]
================================================================================
