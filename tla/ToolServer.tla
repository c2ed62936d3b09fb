------------------------------- MODULE ToolServer -------------------------------
(***************************************************************************)
(* The MCP server (mcp/server.py): load_directory reads the .uacp files of *)
(* a directory in order and lists one tool per operation; _invoke builds a *)
(* dispatch client for the artifact a tool came from and dispatches its    *)
(* operation.  The files may change while they are read and afterwards:    *)
(* the listing is made once, when the process starts.                      *)
(*                                                                         *)
(* The operations of a file are a set, so the first of two equal names in  *)
(* a file is any of them; an exact duplicate is not modelled.  _invoke     *)
(* awaits nothing, so a call is one step; what dispatch does is the module *)
(* DispatchClient.  Tool descriptions and schemas are left out, and an     *)
(* authentication block has the parameters its method needs.               *)
(***************************************************************************)
EXTENDS Naturals

CONSTANTS
    Paths,     \* positions of the files in sorted order
    Slug,      \* normalize_tool_name, of an operation id: a function
    ToolNames, \* names a client may call
    Keys       \* credentials the environment of the server holds, by method

VARIABLES
    dir,     \* path -> [kind, provider, method, ops]
    phase,   \* "stopped", "loading" or "serving"
    todo,    \* files of the directory walk that are still to be read
    listing, \* the loaded operations: [name, path, method, ops, op]
    answer   \* of the last call: [kind, name, op]

serverVars == <<phase, todo, listing, answer>>

\* AuthenticationBlock.method: the registered names and any x- name.
Registered == {"oauth2_authorization_code", "oauth2_client_credentials",
               "oauth2_device_code", "oauth1a", "api_key_header", "api_key_query",
               "aws_sigv4", "hmac_signature", "session_cookie", "custom_auth",
               "x-oauth2-workspace"}

\* _build_auth_for_method: the methods it gives arguments their classes take.
\* OAuth2AuthCodeMethod and OAuth2WorkspaceMethod have no parameter "config",
\* APIKeyQueryConfig has no "parameter_name", AWSSigV4Config wants the keys that
\* it is not given, and the other registered methods are not wired.
Constructible == {"api_key_header", "session_cookie"}

\* Mutant: the rule is gone.
UniqueIds_Any(ops) == TRUE

\* UACPArtifact._unique_operation_ids.
UniqueIds(ops) == \A a, b \in ops : a.id = b.id => a = b

\* spec.loader.load: JSON, the models and the rules across them.
Loads(artifact) ==
    /\ artifact.kind = "whole"
    /\ artifact.method \in Registered
    /\ UniqueIds(artifact.ops)

NameOf(artifact, op) == <<artifact.provider, Slug[op.id]>>

\* The first operation of every name: one of them, whatever the order.
FirstOfEachName(artifact) ==
    {firsts \in SUBSET artifact.ops :
        \A op \in artifact.ops : \E f \in firsts :
            /\ NameOf(artifact, f) = NameOf(artifact, op)
            /\ \A g \in firsts : NameOf(artifact, g) = NameOf(artifact, op) => g = f}

ToolOf(path, artifact, op) ==
    [name |-> NameOf(artifact, op), path |-> path, method |-> artifact.method,
     ops |-> artifact.ops, op |-> op]

Names(tools) == {tool.name : tool \in tools}
NewTools(path, artifact, firsts) ==
    {ToolOf(path, artifact, op) :
        op \in {f \in firsts : NameOf(artifact, f) \notin Names(listing)}}
NoAnswer == [kind |-> "none", name |-> <<>>, op |-> <<>>]

ServerInit ==
    /\ phase = "stopped"
    /\ todo = {}
    /\ listing = {}
    /\ answer = NoAnswer

\* sorted(uacp_dir.rglob("*.uacp")): the walk, before any file is read.
StartServer ==
    /\ phase = "stopped"
    /\ phase' = "loading"
    /\ todo' = {path \in Paths : dir[path].kind # "absent"}
    /\ UNCHANGED <<listing, answer>>

\* One file: what does not load is skipped, a name that is taken as well.
LoadFile ==
    /\ phase = "loading"
    /\ \E path \in todo :
        /\ \A other \in todo : path <= other
        /\ todo' = todo \ {path}
        /\ IF Loads(dir[path])
           THEN \E firsts \in FirstOfEachName(dir[path]) :
                    listing' = listing \cup NewTools(path, dir[path], firsts)
           ELSE UNCHANGED listing
    /\ UNCHANGED <<phase, answer>>

Serve ==
    /\ phase = "loading" /\ todo = {}
    /\ phase' = "serving"
    /\ UNCHANGED <<todo, listing, answer>>

\* _invoke of a name that is not listed.
InvokeUnknown ==
    /\ phase = "serving"
    /\ \E name \in ToolNames \ Names(listing) :
           answer' = [kind |-> "tool_not_found", name |-> name, op |-> <<>>]
    /\ UNCHANGED <<phase, todo, listing>>

\* The factory raises: the error is the answer.
InvokeUnbuildable ==
    /\ phase = "serving"
    /\ \E tool \in {t \in listing : t.method \notin Constructible} :
           answer' = [kind |-> "credential_resolution_failed", name |-> tool.name,
                      op |-> <<>>]
    /\ UNCHANGED <<phase, todo, listing>>

\* The resolver finds no credential: the RuntimeError leaves _invoke.
InvokeWithoutKey ==
    /\ phase = "serving"
    /\ \E tool \in {t \in listing : t.method \in Constructible \ Keys} :
           answer' = [kind |-> "raised", name |-> tool.name, op |-> <<>>]
    /\ UNCHANGED <<phase, todo, listing>>

\* client.dispatch(operation.id): the client looks the id up in the artifact.
InvokeDispatches ==
    /\ phase = "serving"
    /\ \E tool \in {t \in listing : t.method \in Constructible \cap Keys} :
           \E op \in {o \in tool.ops : o.id = tool.op.id} :
               answer' = [kind |-> "sent", name |-> tool.name, op |-> op]
    /\ UNCHANGED <<phase, todo, listing>>

\* The process ends, or is restarted to see the files that changed.
StopServer ==
    /\ phase # "stopped"
    /\ phase' = "stopped"
    /\ todo' = {}
    /\ listing' = {}
    /\ answer' = NoAnswer

ServerNext ==
    \/ StartServer \/ LoadFile \/ Serve \/ StopServer
    \/ InvokeUnknown \/ InvokeUnbuildable \/ InvokeWithoutKey \/ InvokeDispatches

--------------------------------------------------------------------------------
(* Properties *)

\* A call sends the operation that is listed under its name, in the version the
\* server loaded, although names are shortened and ids are looked up again.
DispatchesListed ==
    /\ \A t, u \in listing : t.name = u.name => t = u
    /\ answer.kind = "sent" =>
           \E tool \in listing : tool.name = answer.name /\ tool.op = answer.op

\* Every tool the README tells the reader to call can be dispatched once its
\* credentials are in the environment.
ListedToolsDispatch ==
    [][answer'.kind = "credential_resolution_failed" =>
           answer'.name \notin {t.name : t \in {u \in listing : u.method \in Keys}}]_serverVars
================================================================================
