------------------------------ MODULE ReviewedTools ------------------------------
(***************************************************************************)
(* From a capture to a tool: SynthesisReview writes its --output into the  *)
(* directory that ToolServer lists.  The command writes an artifact with   *)
(* an empty authentication block, which does not load, so the operator     *)
(* completes the file by hand (an editor that replaces the file at once).  *)
(***************************************************************************)
EXTENDS SynthesisReview

CONSTANTS
    Output,    \* the path of --output in the directory
    Shelf,     \* the other files: path -> artifact
    Provider,  \* of the file at Output
    Methods,   \* bound: methods the operator may write
    Slug, ToolNames, Keys

ASSUME DirectoryAssumption == DOMAIN Shelf \subseteq Nat /\ Output \in Nat

VARIABLES
    method,  \* authentication.method of the output, "none" as it is written
    phase, todo, listing, answer

Directory ==
    [path \in DOMAIN Shelf \cup {Output} |->
        IF path = Output
        THEN [kind |-> file.kind, provider |-> Provider, method |-> method,
              ops |-> file.ops]
        ELSE Shelf[path]]

Server == INSTANCE ToolServer WITH dir <- Directory, Paths <- DOMAIN Shelf \cup {Output}

serverVars == <<phase, todo, listing, answer>>
vars == <<reviewVars, method, serverVars>>

Init == ReviewInit /\ Server!ServerInit /\ method = "none"

\* A write replaces the whole file, the block the operator added included.
Review ==
    /\ ReviewNext
    /\ method' = IF file' = file THEN method ELSE "none"
    /\ UNCHANGED serverVars

CompleteByHand ==
    /\ file.kind = "whole" /\ method = "none"
    /\ method' \in Methods
    /\ UNCHANGED <<reviewVars, serverVars>>

Serving ==
    /\ UNCHANGED <<reviewVars, method>>
    /\ Server!ServerNext

Next == Review \/ CompleteByHand \/ Serving

Spec == Init /\ [][Next]_vars /\ ReviewFairness

--------------------------------------------------------------------------------
(* Properties *)

TypeOK ==
    /\ ReviewTypeOK
    /\ method \in {"none"} \cup Methods
    /\ phase \in {"stopped", "loading", "serving"}
    /\ todo \subseteq DOMAIN Directory
    /\ \A tool \in listing : tool.path \in DOMAIN Directory /\ tool.op \in tool.ops

\* What a server lists from the output is a version an operator approved, never
\* one that a writer had truncated or half replaced when the server read it.
ServedWasApproved ==
    \A tool \in listing : tool.path = Output =>
        \E p \in Reviewers : pc[p] = "done" /\ tool.ops = shown[p]

DispatchesListed == Server!DispatchesListed
ListedToolsDispatch == Server!ListedToolsDispatch
================================================================================
