# A TLA+ verification of the UACP reference prototype

The Universal Agentic Connectivity Protocol describes how an agent connects to a
provider's API: an artifact (`.uacp`) names operations, an authentication method
and dispatch rules, and a runtime executes them. The repository's runtime is the
Python prototype under `prototype/python/src/uacp_prototype`. This project models
the parts of that runtime in which state changes over several steps and several
actors: the refresh of credentials, the retry envelope of a dispatch and what
threads that share it do to each other, the page loop, the recording of a browser
session and its analysis, the review that turns it into an artifact, the MCP
server that lists artifacts as tools, and the secret store with its key rotation.
Paths below are relative to `uacp_prototype/`
unless they start with `docs/` or `README`.

## 1. Inventory

| Component | State | Operations | What makes it correct |
| --- | --- | --- | --- |
| Connection lifecycle (`lifecycle/state.py`) | `Connection.state`, expiry metadata | `mark_*`, `transition` | only permitted transitions; `revoked` is final |
| Credential refresh (`lifecycle/refresh.py`, `auth/oauth2_authcode.py`) | durable tokens, provider's tokens, the call in flight | `refresh_with_rotation`, `refresh`, `exchange_code` | stored before served; no rotated token lost silently; a failure leads back to a refresh |
| Dispatch envelope (`dispatch/client.py`) | budgets, redirect walk, headers, CSRF state, rate budget | `dispatch`, `_with_retry`, `_send_with_redirects`, `_session_cookie_csrf_refresh_attempt` | effects at most once where repetition is forbidden; budgets; the headers it strips stay at home; an end |
| Pagination (`dispatch/pagination.py`) | cursor, offset, next URL, page count | `dispatch_paginated`, `_dispatch_raw_url` | no page twice, none skipped, an end |
| Transports, body formats (`dispatch/transport.py`, `body_format.py`) | none | `request`, `decode_response_body` | exceptions are those the envelope expects |
| Authentication methods (`auth/*`) | none (credentials come per call) | `apply`, `refresh_csrf` | the right credential for the right URL |
| Secret store (`security/secrets.py`) | one encrypted file per secret | `get`, `put`, `delete`, `resolve` | what was put can be read, also after a crash |
| Key management (`security/encryption.py`) | master key file, wrapped keys | `get_or_create_master_key`, `rotate_master_key` | every blob decrypts under the key on disk |
| Capture session (`capture/recorder.py`, `cli.py`) | entries, checkpoint file, artifact, two threads, signal handlers | `start`, `stop`, checkpoint loop, browser callbacks, await loop | what is stored is whole; what is lost in a crash is known; the session ends |
| Capture storage (`capture/storage.py`) | one blob per capture | `store_capture`, `load_capture` | see secret store |
| Analysis (`capture/analyzer.py`) | none (pure) | `analyze_capture` | each answered request in one candidate; the same result in any order |
| Synthesis and review (`connections/ingest_capture.py`, `cli.py`) | draft, refinement round, the output file | synthesize, approve, edit, refine, abort | only what was seen and approved is written; nothing invented by the model |
| Other ingestion (`connections/ingest_openapi.py`, `ingest_curl.py`, `ingest_nl.py`) | none (pure) | document to operations | well-formed operations |
| MCP server (`mcp/server.py`) | the tools it loaded at its start | `load_directory`, `_invoke` | a tool is an approved operation and a call sends exactly that one |
| Schema and loader (`spec/*`) | none | `load`, validators | rejects what the runtime cannot execute |

How they interact: the MCP server or the CLI builds a `DispatchClient` from an
artifact, an `AuthMethod` and a credential resolver; each dispatch resolves the
credentials through the secret store, which decrypts under the master key. The
envelope calls back into `auth/session_cookie.py` for a fresh CSRF token. The
pagination drives the envelope once for the first page and the transport
directly for linked pages. A caller that finds its token in the refresh window
runs `refresh_with_rotation` with two callbacks: the provider exchange and the
durable write, which is a `put` of the secret store. The recorder is called by
the CLI thread, by a checkpoint thread and by the browser's callbacks, and its
artifact goes to `store_capture`, again a `put`. From there
`synthesize-from-capture` reads it, analyses it, lets a language model name the
operations, and writes what the operator approves to a `.uacp` file; a server
that is started on that directory lists the file's operations.

The hard behaviours: an exchange whose answer is lost after the provider acted;
a durable write that fails between the provider's rotation and the local commit;
a revocation that overtakes a refresh; a crash between any two of these; one
counter that serves three retry budgets; redirects inside retries; flags that
live on the client from one dispatch to the next; a checkpoint thread that
writes while the CLI thread deletes; files that are truncated before they are
written, while others read them; an existence check made minutes before the
write; attributes of one client under several threads; requests that are
answered in any order. `PROJECT.json` lists each of them with its line.

## 2. Modules

| Module | Role |
| --- | --- |
| `ConnectionRefresh` | lifecycle state machine and `refresh_with_rotation`, step by step |
| `CredentialCustody` | what a Connection promises: commit first, serve afterwards, never again once revoked |
| `DispatchClient` | `_with_retry` around `_send_with_redirects`, with the CSRF refresh |
| `OperationCall` | what a dispatched operation promises about its side effect |
| `CaptureSession` | the `capture-session` command with both threads and both files |
| `SecretStore` | the local keyring and its master key, used by several processes |
| `Pagination` | the page loop of `dispatch_paginated` |
| `PageReading` | what the reader of a paginated list may rely on |
| `SharedClient` | several threads on one `DispatchClient`: rate budget, CSRF flag, decoder |
| `CaptureAnalysis` | the recorder's pairing of requests and responses, and `analyze_capture` |
| `SynthesisReview` | `synthesize-from-capture` by several processes with one output |
| `ToolServer` | the MCP server over a directory that changes |
| `ReviewedTools` | composes `SynthesisReview` and `ToolServer` through the output file |
| `*Proofs` | the theorems, one module for each of eight components |
| `MC*` | constants for TLC |

### ConnectionRefresh

`state` is `Connection.state`; `phase` abstracts the clock against the expiry
metadata (`is_in_refresh_window`, `is_expired`); `store` and `grant` are the
tokens in durable storage and at the provider, numbered in the order of issue;
`call[c]` is the program counter and the local variables of one call of
`refresh_with_rotation`. The function is cut where it blocks: before the
exchange (`Send`, with the state guard), at `refresh_callable` (`Exchange`,
`Refuse`, `Unreachable`, `ReplyLost`), at its except clauses
(`HandleInvalidGrant`, `HandleFailure`), at `persist_callable` (`Persist`,
`PersistFails`) and at the final assignment (`Activate`). A `mark_*` that raises
`InvalidTransition` leaves the state alone and makes the call end as `raised`.

The prototype contains no caller of `refresh_with_rotation`. What the model
assumes of one is what the function's docstring asks for (refresh.py:113-119):
the caller holds a single-flight lock per Connection for the whole call and
calls `mark_refreshing` before, and it refreshes lazily. `RevokedForCause`
shows what the lock is needed for: its mutant drops the lock, and a healthy
Connection is revoked. A caller that
finds `refreshing` after a crash starts the call without `mark_refreshing`,
because the transition table has no self-transition.

### DispatchClient

One thread, any number of dispatches in sequence. Statuses and methods are
classes; a `Retry-After` is either within the cap or above it. `walk` is the
local state of `_send_with_redirects`. `Credentials` are the names of the headers
that the method sets, and `walk.headers` those still on the request: a change of
origin drops the three of `Stripped` and no other (client.py:670-674), so that the
run's `x-csrf-token` goes along and `StrippedStayHome` says nothing of it. `applied`
counts how often the provider applied the operation's own request (2 stands for
"more"). A reply decides whether the request took effect: a 2xx or a 303 says
yes, a 4xx, 429 or any other redirect says no, a 5xx, a lost or an undecodable
answer leaves it open. That is the reading of the HTTP statuses the retry rules
of the code rest on, and an assumption of this model. The budget
`next_call_after` only delays a single thread, so it is left out here.

### SharedClient

The same loop, seen by threads that share the client. `budget` is
`next_call_after`, `flag` is `_csrf_refreshed_this_call` and `current` is
`_current_operation`; the rest of a thread is its program counter and the locals
of `_with_retry`. Times are what is left of them, and `Tick` takes one from all.
The assignment `next_call_after = max(next_call_after, now + wait)` is two steps
(`Limited` reads, `StoreBudget` writes), and the budget is read once, before the
sleep (`CheckBudget`). What one dispatch does alone is in `DispatchClient`: here
redirects are part of an answer, and a dispatch that raises before its first
request is left out.

No property of this module says that the client is thread-safe, because it is
not. Each names the one interleaving that excuses it, in history variables no
guard reads: `lost` (two stores overlapped), `excused` (the thread read the
budget before the 429 was stored), `joined` and `granted` (another dispatch began
in between). The properties say that there is no other way, so that whoever adds
a lock, or moves an attribute into the call, can see which excuse it removes.

### CaptureSession

The CLI thread runs `start`, the await loop, `stop` and `store_capture`; the
checkpoint thread ticks, snapshots, truncates and writes. Entries are
append-only, so a snapshot is a length. Both files are written by `write_text`,
hence `Torn` between truncation and write. `Fault` covers a write or an unlink
that fails and a join that takes longer than its two seconds. `Die` may happen
at any step. The model takes the driver's callbacks to be over when
`driver.stop()` returns.

### CaptureAnalysis

`browser[r]` follows one request through `_handle_request` and
`_handle_response`: pending, its body being read, recorded. Bodies arrive in any
order, some requests are never answered, and some have no request event, in which
case the entry is made without a request body. `StopAndAnalyze` ends the session
and computes `AnalyzeCapture` of the entries in the order they came: primary
host, noise, clusters by path signature, path templates with their parameter
names and suffixes, frequency tables and the ambiguity of bodies. A path is a
sequence of segments, and `Shape` and `Hint` give for each what the regular
expressions and `_singularize` make of it. Entries that look alike are still
several invocations: a cluster is a set of indices, and its paths, queries and
bodies are functions on them, which is also what makes the module provable. The
functions are checked against reference definitions that do not share them:
`Matches` for what a template means, `RequiredIffAlwaysSent` for what a frequency
means.

A signature writes an id as `:var`, and nothing keeps a server from using the
literal segment `:var`: it then clusters with ids, a column is variable when any
of its values is an id (analyzer.py:426-432), and `Matches` says so. The majority
that decides over the primary host, or over the shape of a column, falls to
whichever value came first when two lead; `HasTies` names exactly these cases, and
`OrderDoesNotMatter` claims nothing about them. It compares with the reversed
order and with every exchange of two neighbours; the theorem `AnyOrderWillDo` has
all permutations.

### SynthesisReview, ToolServer, ReviewedTools

`pc[p]` follows a process through `_cmd_synthesize_from_capture` and
`_run_review_loop`; `draft[p]` is what it holds and `shown[p]`, a history
variable, what its operator last saw. An operation is its id, its signature
(method and path) and its author. The language model may propose any set from the
alphabet; the operator, in the editor, may keep any part of the draft and add any
operation of the alphabet, including one the capture never showed: the code
filters the model, not the operator. The output is `absent`, `torn` or `whole`;
`write_text` truncates when it opens and writes later, and over a longer text of
another process its tail stays behind. Every process may die, and lose its
standard input, at any step.

The server reads the directory file by file (`LoadFile`), while the writers go
on. A file that does not load is skipped; a tool name that is taken is skipped as
well. `_invoke` awaits nothing before the dispatch, so a call is one step with
four outcomes. The command writes an artifact with an empty authentication block,
which does not load: `CompleteByHand` is the operator who adds one, and a later
write of the command removes it again. `Constructible` names the methods for
which the default factory gives each constructor arguments it takes, read from the
dataclasses it calls: `api_key_header` and `session_cookie`, of the six it knows.
Only their tools ever dispatch.

### SecretStore

`blob[s]` is the file of a secret: the master key that wraps it and the value it
decrypts to, both as numbers in the order they are made. `call[p]` is what
process `p` is doing: a `put`, `resolve_now` over some secrets, or a rotation of
the master key with every secret in `rewrap_paths`. Every function is cut at
each file operation. `write_text` and `write_bytes` truncate first, so a file is
`empty` in between; a write onto another process's bytes may leave a `mixed`
file, and a write to a file that was unlinked meanwhile is lost. Neither the
store nor the key has a lock, so the processes are simply interleaved. Each call
may die or raise at any step (`Abandon`). A rotation that meets a blob it cannot
parse or unwrap raises by itself (`FetchRaises`).

The prototype contains no caller of `rotate_master_key` outside its tests: the
model's caller reads the old key through `get_or_create_master_key` and passes
all paths, as the tests do. The history variables record which key left the file
how (`raced`, `retired`, `orphaned`) and which secrets met a rotation or a broken
write (`missed`, `crossed`, `damaged`); no guard reads them. The properties say
that there is no other way to lose a secret, which is what makes the list of
causes useful: whoever adds a lock can see which cause it removes.

### Pagination

A generator between its caller and the provider. A position in the provider's
list is a number of records, and stands for a cursor, an offset or a link; `at`
is what the next request carries. `pattern`, `max_pages`, the declared limit and
the provider are chosen once. A `steady` provider answers as its pattern says, a
`silent` one pages by offset and gives no total, and `any` answers anything:
cycles, empty pages, other origins, arrays that are not the records. The first
request goes through the envelope, and so do all requests but those that follow a
link (`_dispatch_raw_url`), which may also raise (`Raises`). The model is the
caller that reads to the end; one that stops early only cuts the behaviour off.
The list does not change while it is read.

`_page_size` counts the longest array at the top level of an object, and the list
need not be that one. `body` is where a provider has it: `list`, there; `buried`,
deeper, or the body is itself the array, and `_page_size` is 0; `crowded`, beside a
longer array, and `_page_size` is that one's length. A page therefore has `count`,
its records, and `largest`, what the offset advances by. A provider that keeps to
the pattern with a `buried` body is asked for the same page again or left after the
first one; with a `crowded` one, records are skipped or, with a total, taken for
read. `PageReading` promises order and completeness only where this cannot happen
(`Countable`), otherwise only that the loop ends once. Cursors and links count
nothing, so the promise holds there for every body.

From a silent provider the loop can only guess (a short page is the last), and
the error of the safety limit may then come although every record has arrived.
`PageReading` therefore promises what that error means only for a provider that
tells.

## 3. Runs

| Run | Question | Bounds |
| --- | --- | --- |
| `refresh` | safety, liveness and refinement of the refresh protocol | two callers, three ageing steps, two faults |
| `rotation_lost` | is the rotation atomic, as documented? (no) | one fault |
| `dispatch` | safety, liveness and refinement of the envelope | two attempts, one 429 retry, two redirects, one token rotation, three URLs of two origins |
| `effect_twice` | at most once with method-changing redirects? (no) | as above |
| `capture` | safety and liveness of a session | three entries, two faults |
| `secrets` | which secrets are lost, revived or unreadable, and that there is no other way | two processes, two secrets, two puts, two rotations, one early end |
| `rotation_keeps` | does a rotation keep all credentials decryptable, as documented? (no) | as above |
| `pages` | order, completeness and end of the page loop; refinement | lists of up to four records, pages of one or two, `max_pages` up to three, three kinds of body |
| `shared` | what may go wrong between threads on one client, and what may not | two threads, waits of up to two ticks, two attempts, one 429 retry |
| `analysis` | is every answered request in one candidate, whatever the order? | seven requests on two hosts, two methods and paths with ids of two shapes, one request event that may be missed |
| `reviewed_tools` | is only what an operator approved written, kept and served? | two processes with one output, one of them with `--force`, three operations, one refinement, one other file with two ids of one tool name; one method that dispatches, one without its credential, one that cannot be built |
| `tools_unreachable` | can each listed tool be called, as documented? (no) | as above |

Why the bounds are enough. Two callers are what a lock excludes from each other;
three ageing steps let a token expire, be replaced and enter its window again;
two faults allow a crash after a failed write. Every budget of the envelope runs
out within its bound, and all of them within one dispatch; three URLs let a
chain leave the origin, return, and revisit a URL. Three entries let two
checkpoints and the artifact all differ. Two secrets put one behind and one ahead
of a rotation, and two rotations overlap or follow each other. Two threads are
what overlapping stores and foreign flags need, and a wait of two ticks lets one
end while another goes on. The seven requests contain a parameter that is sent
twice, one that is missing once, a cluster with and one without a literal before
its id, a tie of shapes, a literal where others have an id, the literal `:var`
among ids, and a foreign host.
Two reviewers, one of them forced, are the two ways a file can be replaced, and
one refinement reaches the cap. The three operations tell observed, invented and
hand-written ones apart and share an id, the other file has two ids of one name. The proofs do
not depend on any bound.

`TypeOK` is checked in the runs `refresh`, `reviewed_tools` and `analysis`; for
the other modules only `TypeCorrect` states it, for every value of the constants.
The same holds for some
safety properties that say less than their neighbours (`RefreshOwnsState`,
`RevocationIsFinal`, `StoredTokenOnlyAdvances`, `RejectionMeansUntouched`,
`AttemptsBounded`, `RedirectsBounded`, `CheckpointsAdvance`, `CursorMovesOn`):
they are stated and proved, and no run repeats them.

Fairness. `Advance(c)` is weakly fair because every exchange ends with the HTTP
client's timeout (30 s, oauth2_authcode.py:200, 236) and the rest is local code.
`Begin` is weakly fair only for the callers together: dispatches keep coming.
The client is weakly fair, and so is the answer to each request of
`_send_with_redirects`: it carries a timeout (client.py:494, 506), and a timeout is
an answer. httpx bounds each wait of a request and not their sum, so this assumes
that no body trickles in for ever. Two requests carry no timeout at all, because
`HttpxTransport` hands httpx the `None` it was called with (transport.py:108-114):
the GET of the CSRF refresh (client.py:264-265) and that of a linked page
(pagination.py:427-429). Nobody owes their answers, and the properties say so:
`DispatchEnds` and `DispatchesEnd` let a dispatch wait in `refreshing` for ever, and
`LoopEnds` lets the loop wait for ever for one page, by a link or by a dispatch that
hangs in its refresh. What they exclude is a program that goes on and on, a thread
that waits for another one's refresh, and a loop that is led in circles. The caller
of the page loop reads on. In a session both
threads are weakly fair; the user and the browser owe nothing. In a review each
started process is weakly fair, because the model's client has a timeout
(ingest_nl.py), the editor ends with its terminal, and the end of the input can
always be read; an operator who never answers is excluded by that, which is why
`ClosedInputEnds` speaks of an input that has ended. Threads that share a client
(but for the refresh's answer) and the clock are weakly fair; nobody has to begin another dispatch.

The store has no liveness property: its processes owe nothing, and an empty
master key file, left by a death, makes every later call raise.

The refresh, capture, page, analysis, shared and review runs switch deadlock
checking off: a revoked Connection, an ended session, loop or analysis do nothing
more, and reviewers that ended next to a stopped server may rest as well.

## 4. Findings

Each violation run states a sentence of the repository's documentation and lets
TLC find the run of the code that breaks it. `PROJECT.json` quotes both.

* `rotation_lost`: a failing `persist_callable` drops the rotated tokens.
* `effect_twice`: POST, 303, 429 on the GET, and the POST is sent again.
* `rotation_keeps`: blobs are overwritten before the new key is saved.
* `tools_unreachable`: every tool of an `aws_sigv4` artifact answers
  `credential_resolution_failed`, whatever the environment holds, because the default
  factory does not give `AWSSigV4Config` its required keys (server.py:331). So do
  the tools of three more methods: `oauth2_authorization_code` (server.py:262) and
  `x-oauth2-workspace` (server.py:286) are given a `config=` they have no field for,
  and `api_key_query` a `parameter_name=` (server.py:317) where the field, and the
  artifact's (docs/02-authentication.md:315), is `param_name`.

Disagreements that the models show without a run of their own:

* A redirect to another origin keeps every credential header but `authorization`,
  `x-api-key` and `cookie` (client.py:670-674): an API key under another name
  (auth/api_key.py:107-109), the CSRF header and signature headers go along.
  docs/04-dispatch.md:128 has all authentication-bearing headers dropped, and line
  487 forbids forwarding them. `StrippedStayHome` holds for the three names only.
* The CSRF refresh and linked pages have no timeout (client.py:264-265,
  pagination.py:427-429, transport.py:108-114), and a silent provider holds the
  dispatch or the loop for ever; docs/04-dispatch.md:48 has a timeout for each
  attempt, up to the last byte.
* The offset advances by the longest top-level array, or not at all
  (pagination.py:383-393), where docs/04-dispatch.md:232 has the actual number of
  records returned. `ImplementsReading` fails without `Countable`.

Smaller ones: 429, 429, 503 with three
attempts is not retried, because one counter serves the budgets that
docs/04-dispatch.md calls separate; dying in the middle of a checkpoint write
destroys the previous checkpoint (recorder.py:879); nothing polls `is_alive` where
a browser has no disconnected event (recorder.py:460, 858); `has_more` on an empty
page repeats the offset (pagination.py:68, docs/04-dispatch.md:238); two threads
can shorten the rate budget and refresh twice in one dispatch (client.py:393-396,
579), where docs/04-dispatch.md:301-307 has concurrent operations wait as well; a
failed refinement does not count towards the cap (cli.py:798-802), and an edit
keeps operations only: changes to the authentication and dispatch blocks of the
edited file are dropped (cli.py:540-616); an edited file that is valid JSON but no
object ends the command with an AttributeError (cli.py:591); failures end in `expired` or
`error` and not in `refreshing` (refresh.py:96-98, 109-111); each retry has its
own five redirects (docs/04-dispatch.md:123); linked pages are not retried, not
redirected and lose the body (docs/04-dispatch.md:245, 261); a transport error
on a linked page raises, where the iterator is said to yield the failure
(pagination.py:264-265); a relative link on the first page is resolved against
the base URL, not the request's (docs/03-schema.md:387).

## 5. Proofs

`tlapm` checks, for every value of the constants under the named assumptions:

* `ConnectionRefreshProofs`: `IInv` joins the types with the lock (`LockInv`),
  what a call in flight knows about store and provider (`CallInv`), the order of
  the two (`OrderInv`), the whereabouts of the valid refresh token (`TokenInv`)
  and the empty beginning (`PendingInv`). `DispatchableIsCurrent` alone is not
  inductive: a step that publishes a token must know that the store holds it and
  that nobody rotated in between, which is `CallInv` under the lock. From `IInv`
  follow the four invariants, the two action properties, and that every step is
  a step of `CredentialCustody` or a stutter.
* `DispatchClientProofs`: `IInv` for budgets, walk, refresh flag and verdict;
  under `~AllowMethodChange` also `EInv`, which says that while an operation
  that may not be repeated is on its way for another attempt, nothing took
  effect yet. From these follow at-most-once, clean rejections and the
  refinement of `OperationCall`. `StrippedStay` is about any set of header names a
  method may use, and says where the three that are stripped travel. Without the hypothesis the statement is false,
  see `effect_twice`.
* `CaptureSessionProofs`: `IInv` follows the two files: nothing is captured while
  the artifact is being built, the thread has ended before the checkpoint is
  deleted unless something came late, and a completed checkpoint is on disk
  except in the windows that `DeathLosesOnlyInWindow` names.

* `SecretStoreProofs`: `IInv` adds to the properties what each call knows: the
  key it holds is on disk or was overwritten (`HeldInv`), what a rotation has
  passed is under its key or was missed (`PassedInv`), the value it has in hand
  is current or was crossed (`HoldInv`), and the key of a blob a reader holds is
  accounted for (`SeenInv`). `StoredOpens` needs `PassedInv` at the moment a
  rotation publishes its key, because only then does the old key stop counting.

* `PaginationProofs`: `IInv` says where the loop stands under `Kept`, that is when
  the provider keeps to the pattern and an offset pattern counts the list: what is
  delivered is the beginning of the list, `at` its end, and the last page the one
  that a steady provider gives there (`PlaceInv`); the loop returns to its top only
  while there is more (`MoreInv`). Each step is then a step of `PageReading`, and
  without `Kept` a step of the reading that promises nothing (`StepReads`).

* `ReviewedToolsProofs`: `IInv` joins what a process may still approve with what
  it has shown (`ShownInv`), the replies with the rounds (`RoundInv`), the file
  with its only possible writer (`KeptInv`), and what is listed with what was
  loaded (`ListingInv`). `ServedWasApproved` is about a file that the server read
  long ago; it is inductive because approved drafts never change and only a whole
  file loads (`FileWasApproved`). `ApprovedIsKept` needs `KeptInv`: whoever did
  not ask before the file was opened finds it there, torn or whole, and is
  refused.

* `SharedClientProofs`: `IInv` has one part for each attribute. `BudgetPart`: what
  `max` read is still the budget unless a store came between (`ReadInv`), and a
  thread that waits, waits for the limit (`WaitInv`); together with the tick they
  give `LimitIsWaitedOut` as a property of steps. `CsrfPart`: a flag that is set
  was set during every dispatch under way. `DecodePart`: the stashed operation is
  the thread's own or that of a dispatch that joined.

* `CaptureAnalysisProofs`: the only assumption is `RequestsAssumption` (finitely
  many requests of the record type of an entry); shapes and singular forms are any
  functions. `IInv` pairs the recorder's list one to one with the answered requests
  (`Paired`) and says that the result is the analysis of that list (`ResultInv`);
  the properties relate the page to the result and need the pairing, because two
  requests may look alike and must still count twice. On it rest three chains of
  lemmas. Clusters: paths with one signature agree wherever no id is, so that an
  entry matches a candidate exactly when it is in its cluster (`MatchIsMembership`),
  and method and template give the cluster back (`IdentityOfCluster`). Frequencies:
  a name is counted as often as there are invocations only if it is in each
  (`RequiredIsInAll`). Order: without a tie the leader is the same in any order
  (`MajorityKept`), hence the primary host, the analysed entries, the clusters and
  their templates. Where one would count by induction, the proofs use bijections of
  finite sets and the least element of a set of naturals, from the library's theorem
  that `<` is well-founded.

The attempt to prove this component corrected its model in four places: a column
is variable by any of its values and not by the first path's; the literal `:var`
matches a variable segment; ties are counted among non-empty hosts and recognised
shapes only, as `Counter` sees them; and other orders are permutations of the
entries, where the old ones merged entries that look alike.

Termination without fairness. TLAPS cannot conclude that something eventually
happens, but it can prove what the liveness properties of the three loops rest on: a
natural number, bounded by the budgets, that each step lowers. `EveryStepUsesUp` of
`DispatchClientProofs` has it for a dispatch (attempts weigh more than the redirects
of a walk, these more than the steps of a request), `EveryStepUsesUp` of
`PaginationProofs` for the page loop. `ThreadsUseUp` of `SharedClientProofs` is the
hard one: what a thread has left must not be raised by the others, although they
write the budget it sleeps on and the flag it reads. A pause is weighed by what paid
for it (the attempt that follows, or the 429 retry that is gone), and a dispatch
that begins elsewhere gives back one refresh and no more. That the step in question
is always possible is `ENABLED`, and stays with TLC.

Every invariant and every action property of the passing runs is thus a theorem,
and so are the refinements. Only model-checked: the liveness properties
(`RefreshRecovers`, `DispatchEnds`, `SessionEnds`, `LoopEnds`, `ClosedInputEnds`,
`DispatchesEnd`), which rest on fairness; and the documented claims the code does not
meet.

## 6. Not modelled

* Transports, request signing and the other authentication methods: stateless,
  byte-level. `DispatchClient` has what a request may return or raise.
* Body formats and streams: pure decoding; the envelope sees that it may raise.
* Parsing: JSONPath, `Link` and `Retry-After` headers, cookie domains and paths,
  CSRF extraction. The models start from what these yield.
* OpenAPI, cURL and natural-language ingestion: pure translations of a document.
  The review of natural-language drafts has the same functions as the review of a
  capture, without the filter.
* Authentication headers, sample values and confidences of the analysis.
* The field rules of the schema: declarative; `ToolServer` has the rules a load
  depends on.
* `ScraplingBackend`, a second `stop`, audit events and logging.
* The composition of `SecretStore` with `Persist` of `ConnectionRefresh`. The
  prototype contains no caller that joins them: `persist_callable` is a parameter.
