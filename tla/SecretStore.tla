------------------------------ MODULE SecretStore ------------------------------
(***************************************************************************)
(* The local-keyring store (security/secrets.py) and its envelope          *)
(* encryption (security/encryption.py): one file per secret, one file for  *)
(* the master key, and processes that put, delete, resolve and rotate with *)
(* nothing between them but the file system.                               *)
(*                                                                         *)
(* A blob is the key that wraps it and the value it decrypts to; keys and  *)
(* values are numbered in the order they are made.  write_text and         *)
(* write_bytes truncate first and write afterwards, so a file is "empty"   *)
(* in between.  A write that lands on another process's shorter or longer  *)
(* text may leave a "mixed" file.  Neither parses.  A file that is deleted *)
(* while it is open for writing takes the write with it.                   *)
(***************************************************************************)
EXTENDS Naturals

CONSTANTS
    Procs,        \* processes on this machine
    Secrets,      \* paths below the store's base_dir
    NoSecret,
    MaxPuts,      \* bound: values put
    MaxRotations, \* bound: rotations begun
    MaxAbandoned  \* bound: calls that die or raise in the middle of a write

ASSUME NoSecretAssumption == NoSecret \notin Secrets
ASSUME BoundsAssumption == {MaxPuts, MaxRotations, MaxAbandoned} \subseteq Nat

VARIABLES
    keyFile,   \* master.key: [is, key]
    blob,      \* blob[s]: the file of secret s
    call,      \* call[p]: what process p is doing
    keys,      \* master keys generated so far
    puts,      \* put calls so far
    rotations, \* rotations begun
    abandoned, \* calls that ended in the middle
    current,   \* history: the value of the last completed put, 0 after a delete
    raced,     \* history: keys overwritten by another creator
    retired,   \* history: keys replaced by a rotation
    orphaned,  \* history: new keys of rotations that ended early
    missed,    \* history: secrets written behind a rotation's back
    crossed,   \* history: secrets changed while a rotation held their blob
    damaged    \* history: secrets with a broken or overlapping write

history == <<current, raced, retired, orphaned, missed, crossed, damaged>>
vars == <<keyFile, blob, call, keys, puts, rotations, abandoned, history>>

KeyContents == [is : {"absent", "empty", "whole"}, key : Nat]
BlobContents == [is : {"absent", "empty", "mixed", "whole"}, key : Nat, value : Nat]

KeyIs(k) == [is |-> "whole", key |-> k]
NoBlob == [is |-> "absent", key |-> 0, value |-> 0]
EmptyBlob == [is |-> "empty", key |-> 0, value |-> 0]
MixedBlob == [is |-> "mixed", key |-> 0, value |-> 0]
Sealed(k, v) == [is |-> "whole", key |-> k, value |-> v]

Steps == {"idle", "key", "make", "makeWrite", "seal", "write", "read", "open",
          "mint", "pick", "fetch", "publish"}

\* key: the master key in hand; new: a rotation's own key; seen: the key that
\* wraps the blob in hand; linked: the open file is still in the directory.
CallType ==
    [op : {"none", "put", "resolve", "rotate"}, at : Steps,
     on : Secrets \cup {NoSecret}, todo : SUBSET Secrets,
     key : Nat, new : Nat, seen : Nat, value : Nat, linked : BOOLEAN]

TypeOK ==
    /\ keyFile \in KeyContents
    /\ blob \in [Secrets -> BlobContents]
    /\ call \in [Procs -> CallType]
    /\ keys \in Nat
    /\ puts \in 0..MaxPuts
    /\ rotations \in 0..MaxRotations
    /\ abandoned \in 0..MaxAbandoned
    /\ current \in [Secrets -> Nat]
    /\ {raced, retired, orphaned} \subseteq SUBSET Nat
    /\ {missed, crossed, damaged} \subseteq SUBSET Secrets

Idle == [op |-> "none", at |-> "idle", on |-> NoSecret, todo |-> {},
         key |-> 0, new |-> 0, seen |-> 0, value |-> 0, linked |-> FALSE]

Init ==
    /\ keyFile = [is |-> "absent", key |-> 0]
    /\ blob = [s \in Secrets |-> NoBlob]
    /\ call = [p \in Procs |-> Idle]
    /\ keys = 0 /\ puts = 0 /\ rotations = 0 /\ abandoned = 0
    /\ current = [s \in Secrets |-> 0]
    /\ raced = {} /\ retired = {} /\ orphaned = {}
    /\ missed = {} /\ crossed = {} /\ damaged = {}
-----------------------------------------------------------------------------
\* The call of p goes on as c; no file changes.
Proceed(p, c) ==
    /\ call' = [call EXCEPT ![p] = c]
    /\ UNCHANGED <<keyFile, blob, puts, rotations, abandoned, current, raced, retired,
                   missed, crossed, damaged>>

\* mutant of StartPut: put opens its file before it has the key.
StartPut_OpensFirst(p, s) ==
    /\ call[p].at = "idle" /\ puts < MaxPuts
    /\ puts' = puts + 1
    /\ call' = [call EXCEPT ![p] = [Idle EXCEPT !.op = "put", !.at = "key", !.on = s,
                                                !.value = puts + 1]]
    /\ blob' = [blob EXCEPT ![s] = EmptyBlob]
    /\ UNCHANGED <<keyFile, keys, rotations, abandoned, history>>

\* put begins; its value is the next one.
StartPut(p, s) ==
    /\ call[p].at = "idle" /\ puts < MaxPuts
    /\ puts' = puts + 1
    /\ call' = [call EXCEPT ![p] = [Idle EXCEPT !.op = "put", !.at = "key", !.on = s,
                                                !.value = puts + 1]]
    /\ UNCHANGED <<keyFile, blob, keys, rotations, abandoned, history>>

\* resolve_now over the secrets in refs.
StartResolve(p, refs) ==
    /\ call[p].at = "idle" /\ refs # {}
    /\ Proceed(p, [Idle EXCEPT !.op = "resolve", !.at = "read", !.todo = refs])
    /\ UNCHANGED <<keys, orphaned>>

\* A caller that rotates reads the old key first and lists every path.
StartRotate(p) ==
    /\ call[p].at = "idle" /\ rotations < MaxRotations
    /\ rotations' = rotations + 1
    /\ call' = [call EXCEPT ![p] = [Idle EXCEPT !.op = "rotate", !.at = "key",
                                                !.todo = Secrets]]
    /\ UNCHANGED <<keyFile, blob, keys, puts, abandoned, history>>

AfterKey(op) == CASE op = "put" -> "seal" [] op = "resolve" -> "open" [] OTHER -> "mint"

\* p goes on with master key k.
WithKey(p, k) == [call[p] EXCEPT !.at = AfterKey(call[p].op), !.key = k]

\* get_or_create_master_key finds a file: a key of the right length is read,
\* an empty file raises.
ReadKey(p) ==
    /\ call[p].at = "key"
    /\ \/ keyFile.is = "whole" /\ Proceed(p, WithKey(p, keyFile.key))
       \/ keyFile.is = "empty" /\ Proceed(p, Idle)
    /\ UNCHANGED <<keys, orphaned>>

\* mutant of MakeKey: the new key is used and never saved.
MakeKey_Unsaved(p) ==
    /\ call[p].at = "key" /\ keyFile.is = "absent"
    /\ keys' = keys + 1
    /\ Proceed(p, WithKey(p, keys + 1))
    /\ UNCHANGED orphaned

\* It finds none and generates a key.
MakeKey(p) ==
    /\ call[p].at = "key" /\ keyFile.is = "absent"
    /\ keys' = keys + 1
    /\ Proceed(p, [call[p] EXCEPT !.at = "make", !.key = keys + 1])
    /\ UNCHANGED orphaned

\* The keys that the next write of the key file destroys.
OnFile == IF keyFile.is = "whole" THEN {keyFile.key} ELSE {}

\* The file may exist by now: another creator was faster.
TruncateKey(p) ==
    /\ call[p].at = "make"
    /\ keyFile' = [is |-> "empty", key |-> 0]
    /\ raced' = raced \cup OnFile
    /\ call' = [call EXCEPT ![p].at = "makeWrite"]
    /\ UNCHANGED <<blob, keys, puts, rotations, abandoned, current, retired, orphaned, missed,
                   crossed, damaged>>

WriteKey(p) ==
    /\ call[p].at = "makeWrite"
    /\ keyFile' = KeyIs(call[p].key)
    /\ raced' = raced \cup OnFile
    /\ call' = [call EXCEPT ![p] = WithKey(p, call[p].key)]
    /\ UNCHANGED <<blob, keys, puts, rotations, abandoned, current, retired, orphaned, missed,
                   crossed, damaged>>
-----------------------------------------------------------------------------
\* p is inside rotate_master_key.
Rotating(p) == call[p].new > 0

\* p has the blob of s in hand and will write it back under the new key.
Holds(p, s) == Rotating(p) /\ call[p].at \in {"seal", "write"} /\ call[p].on = s

\* mutant of SealKey: a rewrap wraps with the key it unwrapped with.
SealKey_Old(p) == call[p].key

SealKey(p) == IF Rotating(p) THEN call[p].new ELSE call[p].key

\* write_text opens the file of the secret, for a put or a rewrap.
Truncate(p) ==
    /\ call[p].at = "seal"
    /\ blob' = [blob EXCEPT ![call[p].on] = EmptyBlob]
    /\ call' = [call EXCEPT ![p] = [call[p] EXCEPT !.at = "write", !.linked = TRUE]]
    /\ UNCHANGED <<keyFile, keys, puts, rotations, abandoned, history>>

\* What the file holds after p's write.
Written(p) ==
    LET b == blob[call[p].on] IN
    IF ~call[p].linked THEN {b}
    ELSE {Sealed(SealKey(p), call[p].value)}
         \cup (IF b.is = "empty" THEN {} ELSE {MixedBlob})

AfterWrite(p) ==
    IF Rotating(p)
    THEN [call[p] EXCEPT !.at = "pick", !.todo = @ \ {call[p].on}, !.on = NoSecret,
                         !.value = 0, !.linked = FALSE]
    ELSE Idle

\* The key p seals with is going out of use: it was replaced, or a rotation to
\* another key is already past this secret.
Behind(p) ==
    \/ SealKey(p) \in retired
    \/ \E q \in Procs \ {p} : Rotating(q) /\ call[p].on \notin call[q].todo

\* S with or without s.
Mark(S, s, cond) == IF cond THEN S \cup {s} ELSE S \ {s}

Write(p) ==
    LET s == call[p].on IN
    /\ call[p].at = "write"
    /\ \E b \in Written(p) :
         /\ blob' = [blob EXCEPT ![s] = b]
         /\ damaged' = IF call[p].linked THEN Mark(damaged, s, b = MixedBlob) ELSE damaged
    /\ call' = [call EXCEPT ![p] = AfterWrite(p)]
    /\ missed' = IF call[p].linked THEN Mark(missed, s, Behind(p))
                 ELSE IF Rotating(p) THEN missed \cup {s} ELSE missed
    /\ IF call[p].linked /\ ~Rotating(p)
       THEN /\ current' = [current EXCEPT ![s] = call[p].value]
            /\ crossed' = Mark(crossed, s, \E q \in Procs : Holds(q, s))
       ELSE UNCHANGED <<current, crossed>>
    /\ UNCHANGED <<keyFile, keys, puts, rotations, abandoned, raced, retired, orphaned>>

\* mutant of Delete: the file stays.
Delete_Keeps(p, s) ==
    /\ call[p].at = "idle"
    /\ current' = [current EXCEPT ![s] = 0]
    /\ crossed' = Mark(crossed, s, \E q \in Procs : Holds(q, s))
    /\ damaged' = damaged \ {s}
    /\ UNCHANGED <<blob, call, keyFile, keys, puts, rotations, abandoned, raced, retired,
                   orphaned, missed>>

\* delete: the directory entry goes, writers keep their open file.
Delete(p, s) ==
    /\ call[p].at = "idle"
    /\ blob' = [blob EXCEPT ![s] = NoBlob]
    /\ call' = [q \in Procs |-> IF call[q].on = s
                                THEN [call[q] EXCEPT !.linked = FALSE] ELSE call[q]]
    /\ current' = [current EXCEPT ![s] = 0]
    /\ crossed' = Mark(crossed, s, \E q \in Procs : Holds(q, s))
    /\ damaged' = damaged \ {s}
    /\ UNCHANGED <<keyFile, keys, puts, rotations, abandoned, raced, retired, orphaned, missed>>
-----------------------------------------------------------------------------
\* get reads the next blob. None, or one that does not parse, raises.
ReadBlob(p) ==
    /\ call[p].at = "read"
    /\ \E s \in call[p].todo :
         IF blob[s].is = "whole"
         THEN Proceed(p, [call[p] EXCEPT !.at = "key", !.on = s, !.seen = blob[s].key])
         ELSE Proceed(p, Idle)
    /\ UNCHANGED <<keys, orphaned>>

\* get decrypts; resolve_now goes on to its next secret.
Open(p) ==
    LET rest == call[p].todo \ {call[p].on} IN
    /\ call[p].at = "open"
    /\ IF call[p].key = call[p].seen /\ rest # {}
       THEN Proceed(p, [Idle EXCEPT !.op = "resolve", !.at = "read", !.todo = rest])
       ELSE Proceed(p, Idle)
    /\ UNCHANGED <<keys, orphaned>>
-----------------------------------------------------------------------------
\* rotate_master_key generates the new key.
StartRewraps(p) ==
    /\ call[p].at = "mint"
    /\ keys' = keys + 1
    /\ Proceed(p, [call[p] EXCEPT !.at = "pick", !.new = keys + 1])
    /\ UNCHANGED orphaned

\* The next path of the list: a file that does not exist is skipped.
Pick(p) ==
    /\ call[p].at = "pick"
    /\ \E s \in call[p].todo :
         IF blob[s].is = "absent"
         THEN Proceed(p, [call[p] EXCEPT !.todo = @ \ {s}])
         ELSE Proceed(p, [call[p] EXCEPT !.at = "fetch", !.on = s])
    /\ UNCHANGED <<keys, orphaned>>

\* The blob is read and unwrapped with the old key.
Fetch(p) ==
    LET b == blob[call[p].on] IN
    /\ call[p].at = "fetch" /\ b.is = "whole" /\ b.key = call[p].key
    /\ Proceed(p, [call[p] EXCEPT !.at = "seal", !.value = b.value])
    /\ UNCHANGED <<keys, orphaned>>

\* It has gone, does not parse, or is wrapped by another key: json.loads or
\* AESGCM.decrypt raises, and the rotation is over.
FetchRaises(p) ==
    LET b == blob[call[p].on] IN
    /\ call[p].at = "fetch" /\ ~(b.is = "whole" /\ b.key = call[p].key)
    /\ Proceed(p, Idle)
    /\ orphaned' = orphaned \cup {call[p].new}
    /\ UNCHANGED keys

\* Every path is done: the key file is opened, and then written.
TruncateForNew(p) ==
    /\ call[p].at = "pick" /\ call[p].todo = {}
    /\ keyFile' = [is |-> "empty", key |-> 0]
    /\ retired' = retired \cup OnFile
    /\ call' = [call EXCEPT ![p].at = "publish"]
    /\ UNCHANGED <<blob, keys, puts, rotations, abandoned, current, raced, orphaned, missed,
                   crossed, damaged>>

Publish(p) ==
    /\ call[p].at = "publish"
    /\ keyFile' = KeyIs(call[p].new)
    /\ retired' = retired \cup OnFile
    /\ call' = [call EXCEPT ![p] = Idle]
    /\ UNCHANGED <<blob, keys, puts, rotations, abandoned, current, raced, orphaned, missed,
                   crossed, damaged>>
-----------------------------------------------------------------------------
\* The process dies, or a file operation raises.
Abandon(p) ==
    /\ call[p].at # "idle" /\ abandoned < MaxAbandoned
    /\ abandoned' = abandoned + 1
    /\ call' = [call EXCEPT ![p] = Idle]
    /\ orphaned' = IF Rotating(p) THEN orphaned \cup {call[p].new} ELSE orphaned
    /\ damaged' = IF call[p].at = "write" /\ call[p].linked
                  THEN damaged \cup {call[p].on} ELSE damaged
    /\ UNCHANGED <<keyFile, blob, keys, puts, rotations, current, raced, retired, missed, crossed>>

Step(p) ==
    \/ StartRotate(p) \/ ReadKey(p) \/ MakeKey(p) \/ TruncateKey(p) \/ WriteKey(p)
    \/ Truncate(p) \/ Write(p) \/ ReadBlob(p) \/ Open(p)
    \/ StartRewraps(p) \/ Pick(p) \/ Fetch(p) \/ FetchRaises(p)
    \/ TruncateForNew(p) \/ Publish(p) \/ Abandon(p)
    \/ \E s \in Secrets : StartPut(p, s) \/ Delete(p, s)
    \/ \E refs \in SUBSET Secrets : StartResolve(p, refs)

Next == \E p \in Procs : Step(p)

Spec == Init /\ [][Next]_vars
-----------------------------------------------------------------------------
Whole(s) == blob[s].is = "whole"

\* k is the key on disk, or about to become it.
Living(k) ==
    \/ keyFile.is = "whole" /\ keyFile.key = k
    \/ \E p \in Procs : Rotating(p) /\ call[p].new = k

\* A blob opens under the key on disk, or the key of a rotation in progress.
\* There are three ways to lose it: two processes created the key at once, a
\* rotation ended after it had begun to rewrap, or the blob was written while
\* a rotation was past it.
StoredOpens ==
    \A s \in Secrets : Whole(s) =>
        \/ Living(blob[s].key)
        \/ blob[s].key \in raced \cup orphaned
        \/ blob[s].key \in retired /\ s \in missed

\* A stored value is the one put last, and a deleted secret stays deleted,
\* unless the put or delete crossed a rotation that had the old blob in hand
\* (rotate_master_key reads and writes back without a check).
StoredIsLastPut ==
    \A s \in Secrets : Whole(s) => blob[s].value = current[s] \/ s \in crossed

\* A file that does not parse is being written, or its last write broke off or
\* overlapped with another.
UnreadableIsBeingWritten ==
    \A s \in Secrets : blob[s].is \in {"empty", "mixed"} =>
        \/ s \in damaged
        \/ \E p \in Procs : call[p].at = "write" /\ call[p].on = s /\ call[p].linked

\* get reads the blob first and the key afterwards. If the two do not match, a
\* rotation or a second creator has been at work: a retry after the rotation
\* is the remedy, unless the blob is one of those StoredOpens names.
MismatchHasCause ==
    \A p \in Procs : call[p].at = "open" /\ call[p].key # call[p].seen =>
        \/ call[p].key \in raced \cup retired
        \/ call[p].seen \in raced \cup retired \cup orphaned
        \/ \E q \in Procs : Rotating(q) /\ call[q].new = call[p].seen

\* What the documentation promises of rotation: every rewrapped credential
\* remains decryptable.
RotationKeepsSecrets == \A s \in Secrets : Whole(s) => blob[s].key \notin orphaned
=============================================================================
