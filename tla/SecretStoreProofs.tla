--------------------------- MODULE SecretStoreProofs ---------------------------
(***************************************************************************)
(* What holds of the secret store for any number of processes and secrets. *)
(***************************************************************************)
EXTENDS SecretStore, TLAPS

\* What the program counter says about the local variables of a call.
CallShape(c) ==
    /\ c.at # "idle" => c.op # "none"
    /\ c.op = "put" => c.on \in Secrets
    /\ c.at \in {"fetch", "seal", "write"} => c.on \in Secrets
    /\ c.at \in {"read", "open"} => c.op = "resolve"
    /\ c.at = "mint" => c.op = "rotate"
    /\ c.at \in {"pick", "fetch", "publish"} => c.new > 0
    /\ c.new > 0 => c.op = "rotate" /\ c.at \in {"pick", "fetch", "seal", "write", "publish"}
    /\ c.new > 0 /\ c.at \in {"fetch", "seal", "write"} => c.on \in c.todo
    /\ c.at = "publish" => c.todo = {}
    /\ c.op = "rotate" /\ c.at \in {"key", "make", "makeWrite", "mint"} => c.todo = Secrets

ShapeInv == \A p \in Procs : CallShape(call[p])

\* A key in use was read from the file or written to it, and if it is no longer
\* there it was overwritten.
KeyInUse == {"seal", "write", "open", "mint", "pick", "fetch", "publish"}
HeldInv ==
    \A p \in Procs : call[p].at \in KeyInUse => call[p].key \in OnFile \cup raced \cup retired

\* What a rotation has behind it is under its new key, or was written since.
PassedInv ==
    \A p \in Procs, s \in Secrets :
        Rotating(p) /\ s \notin call[p].todo /\ Whole(s)
            => blob[s].key = call[p].new \/ s \in missed

\* A rotation holds the last value of a secret, or was crossed.
HoldInv ==
    \A p \in Procs, s \in Secrets :
        Holds(p, s) => call[p].value = current[s] \/ s \in crossed

\* The key of a blob that get has read is accounted for.
SeenInv ==
    \A p \in Procs :
        call[p].op = "resolve" /\ call[p].at \in {"key", "make", "makeWrite", "open"}
            => Living(call[p].seen) \/ call[p].seen \in raced \cup retired \cup orphaned

IInv ==
    /\ TypeOK /\ ShapeInv /\ HeldInv /\ PassedInv /\ HoldInv /\ SeenInv
    /\ StoredOpens /\ StoredIsLastPut /\ UnreadableIsBeingWritten

\* The forms of a secret's file are well typed.
LEMMA Blobs ==
    /\ NoBlob \in BlobContents /\ EmptyBlob \in BlobContents /\ MixedBlob \in BlobContents
    /\ \A k, v \in Nat : Sealed(k, v) \in BlobContents
BY DEF BlobContents, NoBlob, EmptyBlob, MixedBlob, Sealed

\* The forms of the key file are well typed.
LEMMA KeyFiles ==
    /\ [is |-> "absent", key |-> 0] \in KeyContents
    /\ [is |-> "empty", key |-> 0] \in KeyContents
    /\ \A k \in Nat : KeyIs(k) \in KeyContents
BY DEF KeyContents, KeyIs

\* The updates that the steps make to a call keep its type.
LEMMA Calls ==
    /\ Idle \in CallType
    /\ \A c \in CallType : \A a \in Steps : [c EXCEPT !.at = a] \in CallType
    /\ \A c \in CallType : \A a \in Steps, k \in Nat : [c EXCEPT !.at = a, !.key = k] \in CallType
    /\ \A c \in CallType : \A s \in Secrets : [c EXCEPT !.todo = @ \ {s}] \in CallType
    /\ \A c \in CallType : [c EXCEPT !.linked = FALSE] \in CallType
    /\ \A c \in CallType : [c EXCEPT !.at = "write", !.linked = TRUE] \in CallType
BY DEF CallType, Idle, Steps

\* A write, of a put or a rewrap, keeps the types.
LEMMA WriteTypes ==
    ASSUME TypeOK, NEW p \in Procs, Write(p), call[p].on \in Secrets
    PROVE  TypeOK'
<1>1. call[p] \in CallType
  BY DEF TypeOK
<1>2. /\ call[p].value \in Nat /\ call[p].key \in Nat /\ call[p].new \in Nat
      /\ SealKey(p) \in Nat
  BY <1>1 DEF CallType, SealKey
<1>3. AfterWrite(p) \in CallType
  BY <1>1 DEF CallType, AfterWrite, Idle, Steps
<1>4. call' \in [Procs -> CallType]
  BY <1>3 DEF Write, TypeOK
<1>5. blob' \in [Secrets -> BlobContents]
  <2>1. Written(p) \subseteq BlobContents
    BY <1>2, Blobs DEF Written, TypeOK
  <2>2. QED
    BY <2>1 DEF Write, TypeOK
<1>6. damaged' \subseteq Secrets /\ missed' \subseteq Secrets /\ crossed' \subseteq Secrets
  <2>1. damaged' \subseteq Secrets
    BY DEF Write, TypeOK, Mark
  <2>2. missed' \subseteq Secrets
    BY DEF Write, TypeOK, Mark
  <2>3. crossed' \subseteq Secrets
    BY DEF Write, TypeOK, Mark
  <2>4. QED
    BY <2>1, <2>2, <2>3
<1>7. current' \in [Secrets -> Nat]
  <2>1. current \in [Secrets -> Nat]
    BY DEF TypeOK
  <2>2. CASE call[p].linked /\ ~Rotating(p)
    <3>1. current' = [current EXCEPT ![call[p].on] = call[p].value]
      BY <2>2 DEF Write
    <3>2. QED
      BY <1>2, <2>1, <3>1
  <2>3. CASE ~(call[p].linked /\ ~Rotating(p))
    <3>1. current' = current
      BY <2>3 DEF Write
    <3>2. QED
      BY <2>1, <3>1
  <2>4. QED
    BY <2>2, <2>3
<1>8. QED
  BY <1>4, <1>5, <1>6, <1>7 DEF Write, TypeOK

\* A step leaves the process that takes it in a call of the right shape.
LEMMA Shapes ==
    ASSUME NEW p \in Procs, TypeOK, ShapeInv, Step(p)
    PROVE  CallShape(call'[p])
<1> USE DEF CallShape, ShapeInv
<1>1. call[p] \in CallType
  BY DEF TypeOK
<1> USE <1>1
<1>0. CallShape(Idle)
  BY DEF Idle
<1>2. CASE StartRotate(p)
  BY <1>2 DEF StartRotate, Idle, TypeOK
<1>3. ASSUME NEW s \in Secrets, StartPut(p, s) PROVE CallShape(call'[p])
  BY <1>3 DEF StartPut, Idle, TypeOK
<1>4. CASE ReadKey(p)
  <2>1. CASE Proceed(p, WithKey(p, keyFile.key))
    BY <1>4, <2>1 DEF ReadKey, Proceed, WithKey, AfterKey, TypeOK, CallType
  <2>2. CASE Proceed(p, Idle)
    BY <1>0, <2>2 DEF Proceed, TypeOK
  <2>3. QED
    BY <1>4, <2>1, <2>2 DEF ReadKey
<1>5. CASE MakeKey(p) \/ TruncateKey(p) \/ WriteKey(p)
  <2>1. CASE MakeKey(p)
    BY <2>1 DEF MakeKey, Proceed, TypeOK, CallType
  <2>2. CASE TruncateKey(p)
    BY <2>2 DEF TruncateKey, TypeOK, CallType
  <2>3. CASE WriteKey(p)
    BY <2>3 DEF WriteKey, WithKey, AfterKey, TypeOK, CallType
  <2>4. QED
    BY <1>5, <2>1, <2>2, <2>3
<1>6. CASE Truncate(p)
  BY <1>6 DEF Truncate, TypeOK, CallType
<1>7. CASE Write(p)
  <2>1. CASE Rotating(p)
    <3>1. call'[p] = [call[p] EXCEPT !.at = "pick", !.todo = @ \ {call[p].on},
                                     !.on = NoSecret, !.value = 0, !.linked = FALSE]
      BY <1>7, <2>1 DEF Write, AfterWrite, TypeOK
    <3>2. /\ call'[p].at = "pick" /\ call'[p].op = call[p].op
          /\ call'[p].new = call[p].new /\ call'[p].on = NoSecret
      BY <3>1 DEF CallType
    <3>3. call[p].op # "put"
      BY <1>7, <2>1 DEF Write, Rotating, CallType
    <3>4. QED
      BY <3>2, <3>3, <1>7, <2>1 DEF Write, Rotating
  <2>2. CASE ~Rotating(p)
    BY <1>0, <1>7, <2>2 DEF Write, AfterWrite, TypeOK
  <2>3. QED
    BY <2>1, <2>2
<1>8. CASE ReadBlob(p)
  <2>1. PICK s \in call[p].todo :
          IF Whole(s)
          THEN Proceed(p, [call[p] EXCEPT !.at = "key", !.on = s, !.seen = blob[s].key])
          ELSE Proceed(p, Idle)
    BY <1>8 DEF ReadBlob, Whole
  <2>2. s \in Secrets
    BY DEF CallType
  <2>3. CASE Proceed(p, Idle)
    BY <1>0, <2>3 DEF Proceed, TypeOK
  <2>4. CASE Proceed(p, [call[p] EXCEPT !.at = "key", !.on = s, !.seen = blob[s].key])
    BY <1>8, <2>2, <2>4 DEF ReadBlob, Proceed, TypeOK, CallType
  <2>5. QED
    BY <2>1, <2>3, <2>4
<1>9. CASE Open(p)
  <2>1. CASE Proceed(p, Idle)
    BY <1>0, <2>1 DEF Proceed, TypeOK
  <2>2. ASSUME NEW rest, Proceed(p, [Idle EXCEPT !.op = "resolve", !.at = "read", !.todo = rest])
        PROVE  CallShape(call'[p])
    BY <2>2 DEF Proceed, TypeOK, Idle
  <2>3. QED
    BY <1>9, <2>1, <2>2 DEF Open
<1>10. CASE StartRewraps(p)
  BY <1>10 DEF StartRewraps, Proceed, TypeOK, CallType
<1>11. CASE Pick(p)
  <2>1. PICK s \in call[p].todo :
          \/ Proceed(p, [call[p] EXCEPT !.todo = @ \ {s}])
          \/ Proceed(p, [call[p] EXCEPT !.at = "fetch", !.on = s])
    BY <1>11 DEF Pick
  <2>2. s \in Secrets
    BY DEF CallType
  <2>3. CASE Proceed(p, [call[p] EXCEPT !.todo = @ \ {s}])
    BY <1>11, <2>3 DEF Pick, Proceed, TypeOK, CallType
  <2>4. CASE Proceed(p, [call[p] EXCEPT !.at = "fetch", !.on = s])
    BY <1>11, <2>2, <2>4 DEF Pick, Proceed, TypeOK, CallType
  <2>5. QED
    BY <2>1, <2>3, <2>4
<1>12. CASE Fetch(p)
  BY <1>12 DEF Fetch, Proceed, TypeOK, CallType
<1>13. CASE FetchRaises(p) \/ Publish(p) \/ Abandon(p)
  BY <1>0, <1>13 DEF FetchRaises, Publish, Abandon, Proceed, TypeOK
<1>14. CASE TruncateForNew(p)
  BY <1>14 DEF TruncateForNew, TypeOK, CallType
<1>15. ASSUME NEW s \in Secrets, Delete(p, s) PROVE CallShape(call'[p])
  BY <1>15 DEF Delete, TypeOK, CallType
<1>16. ASSUME NEW refs \in SUBSET Secrets, StartResolve(p, refs) PROVE CallShape(call'[p])
  BY <1>16 DEF StartResolve, Proceed, Idle, TypeOK
<1>17. QED
  BY <1>2, <1>3, <1>4, <1>5, <1>6, <1>7, <1>8, <1>9, <1>10, <1>11, <1>12, <1>13, <1>14,
     <1>15, <1>16 DEF Step

\* A step of p leaves the calls of the others alone; a delete can only take
\* the open file away from them.
LEMMA OtherCalls ==
    ASSUME NEW p \in Procs, TypeOK, Step(p), NEW q \in Procs, q # p
    PROVE  \/ call'[q] = call[q]
           \/ /\ Delete(p, call[q].on) /\ call[q].on \in Secrets
              /\ call'[q] = [call[q] EXCEPT !.linked = FALSE]
<1>1. CASE \E s \in Secrets : Delete(p, s)
  <2>1. PICK s \in Secrets : Delete(p, s)
    BY <1>1
  <2>2. CASE call[q].on = s
    BY <2>1, <2>2 DEF Delete, TypeOK
  <2>3. CASE call[q].on # s
    BY <2>1, <2>3 DEF Delete, TypeOK
  <2>4. QED
    BY <2>2, <2>3
<1>2. CASE StartRotate(p) \/ ReadKey(p) \/ MakeKey(p) \/ TruncateKey(p) \/ WriteKey(p)
  BY <1>2 DEF StartRotate, ReadKey, MakeKey, TruncateKey, WriteKey, Proceed, TypeOK
<1>3. CASE Truncate(p) \/ Write(p) \/ ReadBlob(p) \/ Open(p)
  BY <1>3 DEF Truncate, Write, ReadBlob, Open, Proceed, TypeOK
<1>4. CASE StartRewraps(p) \/ Pick(p) \/ Fetch(p) \/ FetchRaises(p)
  BY <1>4 DEF StartRewraps, Pick, Fetch, FetchRaises, Proceed, TypeOK
<1>5. CASE TruncateForNew(p) \/ Publish(p) \/ Abandon(p)
  BY <1>5 DEF TruncateForNew, Publish, Abandon, TypeOK
<1>6. CASE \E s \in Secrets : StartPut(p, s)
  BY <1>6 DEF StartPut, TypeOK
<1>7. CASE \E refs \in SUBSET Secrets : StartResolve(p, refs)
  BY <1>7 DEF StartResolve, Proceed, TypeOK
<1>8. QED
  BY <1>1, <1>2, <1>3, <1>4, <1>5, <1>6, <1>7 DEF Step

\* The call c is the call d, but may have lost its open file.
Same(c, d) ==
    /\ c.op = d.op /\ c.at = d.at /\ c.on = d.on /\ c.todo = d.todo
    /\ c.key = d.key /\ c.new = d.new /\ c.seen = d.seen /\ c.value = d.value
    /\ c.linked => d.linked

\* What a step of p leaves of another call: all but the link of its file.
LEMMA OthersSame ==
    ASSUME NEW p \in Procs, TypeOK, Step(p), NEW q \in Procs, q # p
    PROVE  Same(call'[q], call[q])
<1>1. call[q] \in CallType
  BY DEF TypeOK
<1>2. CASE call'[q] = call[q]
  BY <1>2 DEF Same
<1>3. CASE call'[q] = [call[q] EXCEPT !.linked = FALSE]
  BY <1>1, <1>3 DEF Same, CallType
<1>4. QED
  BY <1>2, <1>3, OtherCalls

\* A rotation of p goes on, or its key is saved or recorded as orphaned.
LEMMA RotationsGoOn ==
    ASSUME NEW p \in Procs, TypeOK, ShapeInv, Step(p), NEW k, Rotating(p), call[p].new = k
    PROVE  \/ call'[p].new = k
           \/ keyFile' = KeyIs(k)
           \/ k \in orphaned'
<1>1. call[p] \in CallType /\ call[p].new > 0 /\ CallShape(call[p])
  BY DEF TypeOK, Rotating, ShapeInv
<1> USE <1>1 DEF CallShape
<1>2. CASE Truncate(p)
  BY <1>2 DEF Truncate, TypeOK, CallType
<1>3. CASE Write(p)
  <2>1. call'[p] = [call[p] EXCEPT !.at = "pick", !.todo = @ \ {call[p].on},
                                   !.on = NoSecret, !.value = 0, !.linked = FALSE]
    BY <1>3 DEF Write, AfterWrite, TypeOK
  <2>2. QED
    BY <2>1 DEF CallType
<1>4. CASE Pick(p)
  <2>1. PICK s \in call[p].todo :
          \/ Proceed(p, [call[p] EXCEPT !.todo = @ \ {s}])
          \/ Proceed(p, [call[p] EXCEPT !.at = "fetch", !.on = s])
    BY <1>4 DEF Pick
  <2>2. CASE Proceed(p, [call[p] EXCEPT !.todo = @ \ {s}])
    BY <2>2 DEF Proceed, TypeOK, CallType
  <2>3. CASE Proceed(p, [call[p] EXCEPT !.at = "fetch", !.on = s])
    BY <2>3 DEF Proceed, TypeOK, CallType
  <2>4. QED
    BY <2>1, <2>2, <2>3
<1>5. CASE Fetch(p)
  BY <1>5 DEF Fetch, Proceed, TypeOK, CallType
<1>6. CASE FetchRaises(p) \/ Abandon(p)
  BY <1>6 DEF FetchRaises, Abandon
<1>7. CASE TruncateForNew(p)
  BY <1>7 DEF TruncateForNew, TypeOK, CallType
<1>8. CASE Publish(p)
  BY <1>8 DEF Publish
<1>9. CASE \E s \in Secrets : Delete(p, s)
  BY <1>9 DEF Delete
<1>10. CASE \/ StartRotate(p) \/ ReadKey(p) \/ MakeKey(p) \/ TruncateKey(p) \/ WriteKey(p)
            \/ ReadBlob(p) \/ Open(p) \/ StartRewraps(p)
            \/ \E s \in Secrets : StartPut(p, s)
            \/ \E refs \in SUBSET Secrets : StartResolve(p, refs)
  BY <1>10 DEF StartRotate, ReadKey, MakeKey, TruncateKey, WriteKey, ReadBlob, Open,
               StartRewraps, StartPut, StartResolve
<1>11. QED
  BY <1>2, <1>3, <1>4, <1>5, <1>6, <1>7, <1>8, <1>9, <1>10 DEF Step

\* The history grows, and a key that leaves the file enters it.
LEMMA KeysAreKnown ==
    ASSUME NEW p \in Procs, TypeOK, Step(p)
    PROVE  /\ raced \subseteq raced' /\ retired \subseteq retired'
           /\ orphaned \subseteq orphaned'
           /\ OnFile \subseteq OnFile' \cup raced' \cup retired'
           /\ \A k \in OnFile : k \notin OnFile' \cup raced' => TruncateForNew(p) \/ Publish(p)
<1>1. CASE TruncateKey(p) \/ WriteKey(p)
  BY <1>1 DEF TruncateKey, WriteKey
<1>2. CASE TruncateForNew(p) \/ Publish(p)
  BY <1>2 DEF TruncateForNew, Publish
<1>3. CASE \/ StartRotate(p) \/ ReadKey(p) \/ MakeKey(p) \/ ReadBlob(p) \/ Open(p)
           \/ StartRewraps(p) \/ Pick(p) \/ Fetch(p) \/ FetchRaises(p) \/ Abandon(p)
           \/ Truncate(p) \/ Write(p)
           \/ \E s \in Secrets : StartPut(p, s) \/ Delete(p, s)
           \/ \E refs \in SUBSET Secrets : StartResolve(p, refs)
  <2>1. /\ keyFile' = keyFile /\ raced' = raced /\ retired' = retired
        /\ orphaned \subseteq orphaned'
    BY <1>3 DEF StartRotate, ReadKey, MakeKey, ReadBlob, Open, StartRewraps, Pick, Fetch,
                FetchRaises, Abandon, Truncate, Write, StartPut, Delete, StartResolve,
                Proceed, history
  <2>2. QED
    BY <2>1 DEF OnFile
<1>4. QED
  BY <1>1, <1>2, <1>3 DEF Step

\* A key stays in use, or the history tells what became of it.
LEMMA LivingStays ==
    ASSUME NEW p \in Procs, TypeOK, ShapeInv, Step(p), NEW k, Living(k)
    PROVE  \/ Living(k)'
           \/ k \in raced' \cup orphaned'
           \/ k \in OnFile /\ k \in retired' /\ (TruncateForNew(p) \/ Publish(p))
<1>1. CASE keyFile.is = "whole" /\ keyFile.key = k
  <2>1. k \in OnFile
    BY <1>1 DEF OnFile
  <2>2. k \in OnFile' => Living(k)'
    BY DEF OnFile, Living
  <2>3. QED
    BY <2>1, <2>2, KeysAreKnown
<1>2. ASSUME NEW q \in Procs, Rotating(q), call[q].new = k PROVE Living(k)' \/ k \in orphaned'
  <2>1. CASE q = p
    BY <1>2, <2>1, RotationsGoOn DEF Living, KeyIs, Rotating
  <2>2. CASE q # p
    BY <1>2, <2>2, OthersSame DEF Same, Living, Rotating
  <2>3. QED
    BY <2>1, <2>2
<1>3. QED
  BY <1>1, <1>2 DEF Living

\* The only step that leaves a new readable blob is a write.
LEMMA BlobChanges ==
    ASSUME NEW p \in Procs, TypeOK, Step(p), ~Write(p), NEW s \in Secrets, Whole(s)'
    PROVE  blob'[s] = blob[s]
<1>1. CASE Truncate(p) \/ \E t \in Secrets : Delete(p, t)
  <2>1. PICK t \in Secrets \cup {call[p].on}, b \in {EmptyBlob, NoBlob} :
          blob' = [blob EXCEPT ![t] = b]
    BY <1>1 DEF Truncate, Delete
  <2>2. b.is # "whole"
    BY DEF EmptyBlob, NoBlob
  <2>3. QED
    BY <2>1, <2>2 DEF Whole, TypeOK
<1>2. CASE ~(Truncate(p) \/ \E t \in Secrets : Delete(p, t))
  <2>1. blob' = blob
    BY <1>2 DEF Step, StartRotate, ReadKey, MakeKey, TruncateKey, WriteKey, ReadBlob, Open,
         StartRewraps, Pick, Fetch, FetchRaises, TruncateForNew, Publish, Abandon,
         StartPut, StartResolve, Proceed
  <2>2. QED
    BY <2>1
<1>3. QED
  BY <1>1, <1>2

\* Apart from writes, nothing changes what was missed.
LEMMA MissedStays ==
    ASSUME NEW p \in Procs, Step(p), ~Write(p)
    PROVE  missed' = missed
BY DEF Step, StartRotate, ReadKey, MakeKey, TruncateKey, WriteKey, ReadBlob, Open, Truncate,
       StartRewraps, Pick, Fetch, FetchRaises, TruncateForNew, Publish, Abandon,
       StartPut, StartResolve, Delete, Proceed, history

\* What a write leaves, seen from the secret it wrote.
LEMMA WriteEffect ==
    ASSUME NEW p \in Procs, TypeOK, ShapeInv, Write(p)
    PROVE  LET s == call[p].on IN
           /\ s \in Secrets
           /\ \A t \in Secrets \ {s} : blob'[t] = blob[t]
           /\ call[p].linked => \/ blob'[s] = Sealed(SealKey(p), call[p].value)
                                \/ blob'[s] = MixedBlob /\ s \in damaged'
           /\ ~call[p].linked => blob'[s] = blob[s]
<1>1. call[p].on \in Secrets
  BY DEF ShapeInv, CallShape, Write
<1>2. PICK b \in Written(p) :
        /\ blob' = [blob EXCEPT ![call[p].on] = b]
        /\ call[p].linked => damaged' = Mark(damaged, call[p].on, b = MixedBlob)
  BY DEF Write
<1>3. call[p].linked => b \in {Sealed(SealKey(p), call[p].value), MixedBlob}
  BY <1>2 DEF Written
<1>4. ~call[p].linked => b = blob[call[p].on]
  BY <1>2 DEF Written
<1>5. QED
  BY <1>1, <1>2, <1>3, <1>4 DEF TypeOK, Mark

\* Between its writes a rotation keeps its key and leaves only absent files out.
LEMMA RotationSteps ==
    ASSUME NEW p \in Procs, TypeOK, ShapeInv, Step(p), ~Write(p), Rotating(p)'
    PROVE  \/ call'[p].todo = Secrets
           \/ /\ Rotating(p) /\ call'[p].new = call[p].new
              /\ \A s \in Secrets : s \in call[p].todo /\ s \notin call'[p].todo => ~Whole(s)
<1>0. call[p] \in CallType /\ CallShape(call[p])
  BY DEF TypeOK, ShapeInv
<1>1. CASE StartRewraps(p)
  BY <1>0, <1>1 DEF StartRewraps, Proceed, CallShape, TypeOK, CallType
<1>2. CASE Pick(p)
  <2>1. PICK s \in call[p].todo :
          \/ Proceed(p, [call[p] EXCEPT !.todo = @ \ {s}]) /\ ~Whole(s)
          \/ Proceed(p, [call[p] EXCEPT !.at = "fetch", !.on = s])
    BY <1>2 DEF Pick, Whole
  <2>2. CASE Proceed(p, [call[p] EXCEPT !.todo = @ \ {s}]) /\ ~Whole(s)
    BY <1>0, <2>2 DEF Proceed, TypeOK, CallType, Rotating
  <2>3. CASE Proceed(p, [call[p] EXCEPT !.at = "fetch", !.on = s])
    BY <1>0, <2>3 DEF Proceed, TypeOK, CallType, Rotating
  <2>4. QED
    BY <2>1, <2>2, <2>3
<1>3. CASE Truncate(p)
  BY <1>0, <1>3 DEF Truncate, TypeOK, CallType, Rotating
<1>4. CASE Fetch(p)
  BY <1>0, <1>4 DEF Fetch, Proceed, TypeOK, CallType, Rotating
<1>5. CASE TruncateForNew(p)
  BY <1>0, <1>5 DEF TruncateForNew, TypeOK, CallType, Rotating
<1>6. CASE FetchRaises(p) \/ Publish(p) \/ Abandon(p)
  BY <1>6 DEF FetchRaises, Publish, Abandon, Proceed, Idle, TypeOK, Rotating
<1>7. CASE \E s \in Secrets : Delete(p, s)
  BY <1>0, <1>7 DEF Delete, TypeOK, CallType, CallShape, Rotating
<1>8. CASE StartRotate(p)
  BY <1>8 DEF StartRotate, Idle, TypeOK, Rotating
<1>9. CASE \/ \E s \in Secrets : StartPut(p, s)
           \/ \E refs \in SUBSET Secrets : StartResolve(p, refs)
  <2>1. ASSUME NEW s \in Secrets, StartPut(p, s) PROVE call'[p].new = 0
    BY <2>1 DEF StartPut, Idle, TypeOK
  <2>2. ASSUME NEW refs \in SUBSET Secrets, StartResolve(p, refs) PROVE call'[p].new = 0
    BY <2>2 DEF StartResolve, Proceed, Idle, TypeOK
  <2>3. QED
    BY <1>9, <2>1, <2>2 DEF Rotating
<1>10. CASE ReadKey(p) \/ ReadBlob(p) \/ Open(p)
  <2>1. call[p].new = 0
    <3>1. call[p].at \in {"key", "read", "open"}
      BY <1>10 DEF ReadKey, ReadBlob, Open
    <3>2. call[p].new \in Nat
      BY <1>0 DEF CallType
    <3>3. QED
      BY <1>0, <3>1, <3>2 DEF CallShape
  <2>2. CASE call'[p] = Idle
    BY <2>2 DEF Idle, Rotating
  <2>3. CASE call'[p] = WithKey(p, keyFile.key)
    BY <1>0, <2>1, <2>3 DEF WithKey, CallType, Rotating
  <2>4. ASSUME NEW t, call'[p] = [call[p] EXCEPT !.at = "key", !.on = t, !.seen = blob[t].key]
        PROVE  ~Rotating(p)'
    BY <1>0, <2>1, <2>4 DEF CallType, Rotating
  <2>5. ASSUME NEW t, call'[p] = [Idle EXCEPT !.op = "resolve", !.at = "read", !.todo = t]
        PROVE  ~Rotating(p)'
    BY <2>5 DEF Idle, Rotating
  <2>6. CASE ReadKey(p)
    BY <2>2, <2>3, <2>6 DEF ReadKey, Proceed, TypeOK
  <2>7. CASE ReadBlob(p)
    BY <2>2, <2>4, <2>7 DEF ReadBlob, Proceed, TypeOK
  <2>8. CASE Open(p)
    <3>1. \/ Proceed(p, Idle)
          \/ Proceed(p, [Idle EXCEPT !.op = "resolve", !.at = "read",
                                     !.todo = call[p].todo \ {call[p].on}])
      BY <2>8 DEF Open
    <3>2. QED
      BY <2>2, <2>5, <3>1 DEF Proceed, TypeOK
  <2>9. QED
    BY <1>10, <2>6, <2>7, <2>8
<1>11. CASE MakeKey(p) \/ TruncateKey(p) \/ WriteKey(p)
  <2>1. \/ call'[p] = [call[p] EXCEPT !.at = "make", !.key = keys + 1]
        \/ call'[p] = [call[p] EXCEPT !.at = "makeWrite"]
        \/ call'[p] = WithKey(p, call[p].key)
    BY <1>11 DEF MakeKey, TruncateKey, WriteKey, Proceed, TypeOK
  <2>2. call'[p].new = call[p].new
    BY <1>0, <2>1 DEF WithKey, CallType
  <2>3. QED
    BY <1>0, <1>11, <2>2 DEF MakeKey, TruncateKey, WriteKey, CallShape, CallType, Rotating
<1>12. QED
  BY <1>1, <1>2, <1>3, <1>4, <1>5, <1>6, <1>7, <1>8, <1>9, <1>10, <1>11 DEF Step

\* The key p holds after its step was read, was written, or was held before.
LEMMA HeldStep ==
    ASSUME NEW p \in Procs, TypeOK, ShapeInv, HeldInv, Step(p), call'[p].at \in KeyInUse
    PROVE  call'[p].key \in OnFile' \cup raced' \cup retired'
<1> DEFINE Known == OnFile \cup raced \cup retired
<1>1. Known \subseteq OnFile' \cup raced' \cup retired'
  BY KeysAreKnown
<1>2. call[p] \in CallType /\ call'[p].at \in KeyInUse
  BY DEF TypeOK
<1>3. call[p].at \in KeyInUse => call[p].key \in Known
  BY DEF HeldInv
<1> HIDE DEF Known
<1>4. CASE call'[p] = Idle
  BY <1>4 DEF Idle, KeyInUse
<1>5. CASE ReadKey(p)
  <2>1. CASE keyFile.is = "whole" /\ Proceed(p, WithKey(p, keyFile.key))
    <3>1. call'[p].key = keyFile.key
      BY <1>2, <2>1 DEF Proceed, WithKey, TypeOK, CallType
    <3>2. keyFile.key \in Known
      BY <2>1 DEF Known, OnFile
    <3>3. QED
      BY <1>1, <3>1, <3>2
  <2>2. CASE Proceed(p, Idle)
    BY <1>4, <2>2 DEF Proceed, TypeOK
  <2>3. QED
    BY <1>5, <2>1, <2>2 DEF ReadKey
<1>6. CASE WriteKey(p)
  BY <1>2, <1>6 DEF WriteKey, WithKey, OnFile, KeyIs, TypeOK, CallType
<1>7. CASE MakeKey(p) \/ TruncateKey(p)
  <2>1. CASE MakeKey(p)
    BY <1>2, <2>1 DEF MakeKey, Proceed, TypeOK, CallType, KeyInUse
  <2>2. CASE TruncateKey(p)
    BY <1>2, <2>2 DEF TruncateKey, TypeOK, CallType, KeyInUse
  <2>3. QED
    BY <1>7, <2>1, <2>2
<1>8. CASE Truncate(p) \/ StartRewraps(p) \/ Fetch(p) \/ TruncateForNew(p)
  <2>1. call[p].at \in KeyInUse
    BY <1>8 DEF Truncate, StartRewraps, Fetch, TruncateForNew, KeyInUse
  <2>2. CASE Truncate(p)
    BY <1>1, <1>2, <1>3, <2>1, <2>2 DEF Truncate, TypeOK, CallType
  <2>3. CASE StartRewraps(p)
    BY <1>1, <1>2, <1>3, <2>1, <2>3 DEF StartRewraps, Proceed, TypeOK, CallType
  <2>4. CASE Fetch(p)
    BY <1>1, <1>2, <1>3, <2>1, <2>4 DEF Fetch, Proceed, TypeOK, CallType
  <2>5. CASE TruncateForNew(p)
    BY <1>1, <1>2, <1>3, <2>1, <2>5 DEF TruncateForNew, TypeOK, CallType
  <2>6. QED
    BY <1>8, <2>2, <2>3, <2>4, <2>5
<1>9. CASE Pick(p)
  <2>1. call[p].at \in KeyInUse
    BY <1>9 DEF Pick, KeyInUse
  <2>2. PICK s \in call[p].todo :
          \/ call'[p] = [call[p] EXCEPT !.todo = @ \ {s}]
          \/ call'[p] = [call[p] EXCEPT !.at = "fetch", !.on = s]
    BY <1>9 DEF Pick, Proceed, TypeOK
  <2>3. call'[p].key = call[p].key
    BY <1>2, <2>2 DEF CallType
  <2>4. QED
    BY <1>1, <1>3, <2>1, <2>3
<1>10. CASE Write(p)
  <2>1. call[p].at \in KeyInUse
    BY <1>10 DEF Write, KeyInUse
  <2>2. CASE Rotating(p)
    <3>1. call'[p] = [call[p] EXCEPT !.at = "pick", !.todo = @ \ {call[p].on},
                                     !.on = NoSecret, !.value = 0, !.linked = FALSE]
      BY <1>10, <2>2 DEF Write, AfterWrite, TypeOK
    <3>2. call'[p].key = call[p].key
      BY <1>2, <3>1 DEF CallType
    <3>3. QED
      BY <1>1, <1>3, <2>1, <3>2
  <2>3. CASE ~Rotating(p)
    BY <1>4, <1>10, <2>3 DEF Write, AfterWrite, TypeOK
  <2>4. QED
    BY <2>2, <2>3
<1>11. CASE ReadBlob(p)
  <2>1. PICK s \in call[p].todo :
          \/ call'[p] = [call[p] EXCEPT !.at = "key", !.on = s, !.seen = blob[s].key]
          \/ call'[p] = Idle
    BY <1>11 DEF ReadBlob, Proceed, TypeOK
  <2>2. CASE call'[p] = [call[p] EXCEPT !.at = "key", !.on = s, !.seen = blob[s].key]
    BY <1>2, <2>2 DEF CallType, KeyInUse
  <2>3. QED
    BY <1>4, <2>1, <2>2
<1>12. CASE Open(p)
  <2>1. \/ call'[p] = [Idle EXCEPT !.op = "resolve", !.at = "read",
                                   !.todo = call[p].todo \ {call[p].on}]
        \/ call'[p] = Idle
    BY <1>12 DEF Open, Proceed, TypeOK
  <2>2. CASE call'[p] = [Idle EXCEPT !.op = "resolve", !.at = "read",
                                     !.todo = call[p].todo \ {call[p].on}]
    BY <1>2, <2>2 DEF Idle, KeyInUse
  <2>3. QED
    BY <1>4, <2>1, <2>2
<1>13. CASE FetchRaises(p) \/ Publish(p) \/ Abandon(p)
  BY <1>4, <1>13 DEF FetchRaises, Publish, Abandon, Proceed, TypeOK
<1>14. CASE StartRotate(p)
  BY <1>2, <1>14 DEF StartRotate, TypeOK, Idle, KeyInUse
<1>15. ASSUME NEW s \in Secrets, StartPut(p, s) PROVE FALSE
  BY <1>2, <1>15 DEF StartPut, TypeOK, Idle, KeyInUse
<1>16. ASSUME NEW refs \in SUBSET Secrets, StartResolve(p, refs) PROVE FALSE
  BY <1>2, <1>16 DEF StartResolve, Proceed, TypeOK, Idle, KeyInUse
<1>17. ASSUME NEW s \in Secrets, Delete(p, s) PROVE FALSE
  BY <1>2, <1>17 DEF Delete, TypeOK, CallType, KeyInUse
<1>18. QED
  BY <1>5, <1>6, <1>7, <1>8, <1>9, <1>10, <1>11, <1>12, <1>13, <1>14, <1>15, <1>16, <1>17
     DEF Step

\* The steps between reading a blob and opening it.
Opening == {"key", "make", "makeWrite", "open"}

\* What get holds was in the file when it was read.
LEMMA SeenStep ==
    ASSUME NEW p \in Procs, TypeOK, ShapeInv, Step(p),
           call'[p].op = "resolve", call'[p].at \in Opening
    PROVE  \/ /\ call[p].op = "resolve" /\ call[p].at \in Opening
              /\ call'[p].seen = call[p].seen
           \/ \E s \in Secrets : Whole(s) /\ call'[p].seen = blob[s].key
<1>1. call[p] \in CallType /\ CallShape(call[p])
  BY DEF TypeOK, ShapeInv
<1>2. CASE call'[p] = Idle
  BY <1>2 DEF Idle
<1>3. CASE ReadBlob(p)
  <2>1. PICK s \in call[p].todo :
          \/ /\ Whole(s)
             /\ call'[p] = [call[p] EXCEPT !.at = "key", !.on = s, !.seen = blob[s].key]
          \/ call'[p] = Idle
    BY <1>3 DEF ReadBlob, Proceed, TypeOK, Whole
  <2>2. CASE call'[p] = [call[p] EXCEPT !.at = "key", !.on = s, !.seen = blob[s].key]
    <3>1. s \in Secrets /\ call'[p].seen = blob[s].key
      BY <1>1, <2>2 DEF CallType
    <3>2. QED
      BY <1>2, <2>1, <3>1
  <2>3. QED
    BY <1>2, <2>1, <2>2
<1>4. CASE ReadKey(p)
  <2>1. CASE call'[p] = WithKey(p, keyFile.key)
    BY <1>1, <1>4, <2>1 DEF ReadKey, WithKey, CallType, Opening
  <2>2. QED
    BY <1>2, <1>4, <2>1 DEF ReadKey, Proceed, TypeOK
<1>5. CASE MakeKey(p)
  BY <1>1, <1>5 DEF MakeKey, Proceed, TypeOK, CallType, Opening
<1>6. CASE TruncateKey(p)
  BY <1>1, <1>6 DEF TruncateKey, TypeOK, CallType, Opening
<1>7. CASE WriteKey(p)
  BY <1>1, <1>7 DEF WriteKey, WithKey, TypeOK, CallType, Opening
<1>8. CASE Truncate(p)
  BY <1>1, <1>8 DEF Truncate, TypeOK, CallType, Opening
<1>9. CASE Write(p)
  <2>1. CASE Rotating(p)
    <3>1. call'[p] = [call[p] EXCEPT !.at = "pick", !.todo = @ \ {call[p].on},
                                     !.on = NoSecret, !.value = 0, !.linked = FALSE]
      BY <1>9, <2>1 DEF Write, AfterWrite, TypeOK
    <3>2. QED
      BY <1>1, <3>1 DEF CallType, Opening
  <2>2. QED
    BY <1>2, <1>9, <2>1 DEF Write, AfterWrite, TypeOK
<1>10. CASE Open(p)
  <2>1. CASE call'[p] = [Idle EXCEPT !.op = "resolve", !.at = "read",
                                     !.todo = call[p].todo \ {call[p].on}]
    BY <2>1 DEF Idle, Opening
  <2>2. QED
    BY <1>2, <1>10, <2>1 DEF Open, Proceed, TypeOK
<1>11. CASE StartRewraps(p)
  BY <1>1, <1>11 DEF StartRewraps, Proceed, TypeOK, CallType, Opening
<1>12. CASE Pick(p)
  <2>1. PICK s \in call[p].todo :
          \/ call'[p] = [call[p] EXCEPT !.todo = @ \ {s}]
          \/ call'[p] = [call[p] EXCEPT !.at = "fetch", !.on = s]
    BY <1>12 DEF Pick, Proceed, TypeOK
  <2>2. call'[p].at \in {"pick", "fetch"}
    BY <1>1, <1>12, <2>1 DEF Pick, CallType
  <2>3. QED
    BY <2>2 DEF Opening
<1>13. CASE Fetch(p)
  BY <1>1, <1>13 DEF Fetch, Proceed, TypeOK, CallType, Opening
<1>14. CASE TruncateForNew(p)
  BY <1>1, <1>14 DEF TruncateForNew, TypeOK, CallType, Opening
<1>15. CASE FetchRaises(p) \/ Publish(p) \/ Abandon(p)
  BY <1>2, <1>15 DEF FetchRaises, Publish, Abandon, Proceed, TypeOK
<1>16. CASE StartRotate(p)
  BY <1>16 DEF StartRotate, TypeOK, Idle
<1>17. ASSUME NEW s \in Secrets, StartPut(p, s) PROVE FALSE
  BY <1>17 DEF StartPut, TypeOK, Idle
<1>18. ASSUME NEW refs \in SUBSET Secrets, StartResolve(p, refs) PROVE FALSE
  BY <1>18 DEF StartResolve, Proceed, TypeOK, Idle, Opening
<1>19. ASSUME NEW s \in Secrets, Delete(p, s) PROVE FALSE
  BY <1>1, <1>19 DEF Delete, TypeOK, CallType, Opening
<1>20. QED
  BY <1>3, <1>4, <1>5, <1>6, <1>7, <1>8, <1>9, <1>10, <1>11, <1>12, <1>13, <1>14, <1>15,
     <1>16, <1>17, <1>18, <1>19 DEF Step

\* A rotation that holds a blob has just fetched it, or held it before.
LEMMA HoldStep ==
    ASSUME NEW p \in Procs, TypeOK, ShapeInv, Step(p), NEW s \in Secrets, Holds(p, s)'
    PROVE  \/ Truncate(p) /\ Holds(p, s) /\ call'[p].value = call[p].value
           \/ Fetch(p) /\ Whole(s) /\ call'[p].value = blob[s].value
<1>1. call[p] \in CallType /\ CallShape(call[p])
  BY DEF TypeOK, ShapeInv
<1>2. call'[p].at \in {"seal", "write"} /\ call'[p].new > 0 /\ call'[p].on = s
  BY DEF Holds, Rotating
<1>3. CASE call'[p] = Idle
  BY <1>2, <1>3 DEF Idle
<1>4. CASE Truncate(p)
  BY <1>1, <1>2, <1>4 DEF Truncate, Holds, Rotating, TypeOK, CallType
<1>5. CASE Fetch(p)
  BY <1>1, <1>2, <1>5 DEF Fetch, Proceed, Whole, TypeOK, CallType
<1>6. CASE ReadKey(p)
  <2>1. CASE call'[p] = WithKey(p, keyFile.key)
    <3>1. call'[p].new = call[p].new
      BY <1>1, <2>1 DEF WithKey, CallType
    <3>2. QED
      BY <1>1, <1>2, <1>6, <3>1 DEF ReadKey, CallShape
  <2>2. QED
    BY <1>2, <1>3, <1>6, <2>1 DEF ReadKey, Proceed, TypeOK
<1>7. CASE WriteKey(p)
  <2>1. call'[p].new = call[p].new
    BY <1>1, <1>7 DEF WriteKey, WithKey, TypeOK, CallType
  <2>2. QED
    BY <1>1, <1>2, <1>7, <2>1 DEF WriteKey, CallShape
<1>8. CASE MakeKey(p)
  BY <1>1, <1>2, <1>8 DEF MakeKey, Proceed, TypeOK, CallType
<1>9. CASE TruncateKey(p)
  BY <1>1, <1>2, <1>9 DEF TruncateKey, TypeOK, CallType
<1>10. CASE Write(p)
  <2>1. CASE Rotating(p)
    <3>1. call'[p] = [call[p] EXCEPT !.at = "pick", !.todo = @ \ {call[p].on},
                                     !.on = NoSecret, !.value = 0, !.linked = FALSE]
      BY <1>10, <2>1 DEF Write, AfterWrite, TypeOK
    <3>2. QED
      BY <1>1, <1>2, <3>1 DEF CallType
  <2>2. QED
    BY <1>2, <1>3, <1>10, <2>1 DEF Write, AfterWrite, TypeOK
<1>11. CASE ReadBlob(p)
  <2>1. PICK t \in call[p].todo :
          \/ call'[p] = [call[p] EXCEPT !.at = "key", !.on = t, !.seen = blob[t].key]
          \/ call'[p] = Idle
    BY <1>11 DEF ReadBlob, Proceed, TypeOK
  <2>2. CASE call'[p] = [call[p] EXCEPT !.at = "key", !.on = t, !.seen = blob[t].key]
    BY <1>1, <1>2, <2>2 DEF CallType
  <2>3. QED
    BY <1>3, <2>1, <2>2
<1>12. CASE Open(p)
  <2>1. CASE call'[p] = [Idle EXCEPT !.op = "resolve", !.at = "read",
                                     !.todo = call[p].todo \ {call[p].on}]
    BY <1>2, <2>1 DEF Idle
  <2>2. QED
    BY <1>2, <1>3, <1>12, <2>1 DEF Open, Proceed, TypeOK
<1>13. CASE StartRewraps(p)
  BY <1>1, <1>2, <1>13 DEF StartRewraps, Proceed, TypeOK, CallType
<1>14. CASE Pick(p)
  <2>1. PICK t \in call[p].todo :
          \/ call'[p] = [call[p] EXCEPT !.todo = @ \ {t}]
          \/ call'[p] = [call[p] EXCEPT !.at = "fetch", !.on = t]
    BY <1>14 DEF Pick, Proceed, TypeOK
  <2>2. call'[p].at \in {"pick", "fetch"}
    BY <1>1, <1>14, <2>1 DEF Pick, CallType
  <2>3. QED
    BY <1>2, <2>2
<1>15. CASE TruncateForNew(p)
  BY <1>1, <1>2, <1>15 DEF TruncateForNew, TypeOK, CallType
<1>16. CASE FetchRaises(p) \/ Publish(p) \/ Abandon(p)
  BY <1>2, <1>3, <1>16 DEF FetchRaises, Publish, Abandon, Proceed, TypeOK
<1>17. CASE StartRotate(p)
  BY <1>2, <1>17 DEF StartRotate, TypeOK, Idle
<1>18. ASSUME NEW t \in Secrets, StartPut(p, t) PROVE FALSE
  BY <1>2, <1>18 DEF StartPut, TypeOK, Idle
<1>19. ASSUME NEW refs \in SUBSET Secrets, StartResolve(p, refs) PROVE FALSE
  BY <1>2, <1>19 DEF StartResolve, Proceed, TypeOK, Idle
<1>20. ASSUME NEW t \in Secrets, Delete(p, t) PROVE FALSE
  BY <1>1, <1>2, <1>20 DEF Delete, TypeOK, CallType
<1>21. QED
  BY <1>4, <1>5, <1>6, <1>7, <1>8, <1>9, <1>10, <1>11, <1>12, <1>13, <1>14, <1>15, <1>16,
     <1>17, <1>18, <1>19, <1>20 DEF Step

\* A step keeps the shape of every call.
LEMMA ShapesStep ==
    ASSUME NEW p \in Procs, TypeOK, ShapeInv, Step(p) PROVE ShapeInv'
<1>1. SUFFICES ASSUME NEW q \in Procs PROVE CallShape(call'[q])
  BY DEF ShapeInv
<1>2. CASE q # p
  BY <1>2, OthersSame DEF ShapeInv, CallShape, Same
<1>3. QED
  BY <1>2, Shapes

\* A key in hand stays accounted for.
LEMMA HeldKeeps ==
    ASSUME NEW p \in Procs, TypeOK, ShapeInv, HeldInv, Step(p) PROVE HeldInv'
<1>1. SUFFICES ASSUME NEW q \in Procs, call'[q].at \in KeyInUse
               PROVE  call'[q].key \in OnFile' \cup raced' \cup retired'
  BY DEF HeldInv
<1>2. CASE q # p
  BY <1>1, <1>2, OthersSame, KeysAreKnown DEF HeldInv, Same
<1>3. QED
  BY <1>1, <1>2, HeldStep

\* What a rotation has passed stays under its key, or the write that changes it
\* finds the rotation past the secret.
LEMMA PassedKeeps ==
    ASSUME NEW p \in Procs, TypeOK, ShapeInv, PassedInv, Step(p) PROVE PassedInv'
<1>1. SUFFICES ASSUME NEW q \in Procs, NEW s \in Secrets, Rotating(q)',
                      s \notin call'[q].todo, Whole(s)'
               PROVE  blob'[s].key = call'[q].new \/ s \in missed'
  BY DEF PassedInv
<1>2. CASE ~Write(p)
  <2>1. blob'[s] = blob[s] /\ Whole(s) /\ missed' = missed
    BY <1>1, <1>2, BlobChanges, MissedStays DEF Whole
  <2>2. CASE q # p
    BY <1>1, <2>1, <2>2, OthersSame DEF PassedInv, Rotating, Same
  <2>3. CASE q = p
    BY <1>1, <1>2, <2>1, <2>3, RotationSteps DEF PassedInv
  <2>4. QED
    BY <2>2, <2>3
<1>3. CASE Write(p)
  <2>1. PICK t : t = call[p].on
    OBVIOUS
  <2>2. CASE s # t
    <3>1. blob'[s] = blob[s] /\ Whole(s)
      BY <1>1, <1>3, <2>1, <2>2, WriteEffect DEF Whole
    <3>2. s \in missed => s \in missed'
      BY <1>3, <2>1, <2>2 DEF Write, Mark
    <3>3. CASE q # p
      BY <1>1, <3>1, <3>2, <3>3, OthersSame DEF PassedInv, Rotating, Same
    <3>4. CASE q = p
      <4>1. Rotating(p) /\ call'[p] = AfterWrite(p)
        BY <1>1, <1>3, <3>4 DEF Write, AfterWrite, Rotating, Idle, TypeOK
      <4>2. call'[p].new = call[p].new /\ call'[p].todo = call[p].todo \ {t}
        BY <2>1, <4>1 DEF AfterWrite, TypeOK, CallType
      <4>3. QED
        BY <1>1, <2>2, <3>1, <3>2, <3>4, <4>1, <4>2 DEF PassedInv
    <3>5. QED
      BY <3>3, <3>4
  <2>3. CASE s = t /\ call[p].linked
    <3>1. blob'[s].key = SealKey(p)
      <4>1. \/ blob'[s] = Sealed(SealKey(p), call[p].value)
            \/ blob'[s] = MixedBlob
        BY <1>3, <2>1, <2>3, WriteEffect
      <4>2. MixedBlob.is # "whole" /\ Sealed(SealKey(p), call[p].value).key = SealKey(p)
        BY DEF MixedBlob, Sealed
      <4>3. QED
        BY <1>1, <4>1, <4>2 DEF Whole
    <3>2. Behind(p) => s \in missed'
      BY <1>3, <2>1, <2>3 DEF Write, Mark
    <3>3. CASE q # p
      BY <1>1, <2>1, <2>3, <3>2, <3>3, OthersSame DEF Behind, Rotating, Same
    <3>4. CASE q = p
      <4>1. Rotating(p) /\ call'[p] = AfterWrite(p)
        BY <1>1, <1>3, <3>4 DEF Write, AfterWrite, Rotating, Idle, TypeOK
      <4>2. call'[p].new = call[p].new
        BY <4>1 DEF AfterWrite, TypeOK, CallType
      <4>3. QED
        BY <3>1, <3>4, <4>1, <4>2 DEF SealKey
    <3>5. QED
      BY <3>3, <3>4
  <2>4. CASE s = t /\ ~call[p].linked
    <3>1. blob'[s] = blob[s] /\ Whole(s)
      BY <1>1, <1>3, <2>1, <2>4, WriteEffect DEF Whole
    <3>2. s \in missed => s \in missed'
      BY <1>3, <2>4 DEF Write
    <3>3. CASE q # p
      BY <1>1, <3>1, <3>2, <3>3, OthersSame DEF PassedInv, Rotating, Same
    <3>4. CASE q = p
      <4>1. Rotating(p)
        BY <1>1, <1>3, <3>4 DEF Write, AfterWrite, Rotating, Idle, TypeOK
      <4>2. QED
        BY <1>3, <2>1, <2>4, <4>1 DEF Write
    <3>5. QED
      BY <3>3, <3>4
  <2>5. QED
    BY <2>2, <2>3, <2>4
<1>4. QED
  BY <1>2, <1>3

\* A put or a delete records the rotations that it crosses.
LEMMA HoldKeeps ==
    ASSUME NEW p \in Procs, TypeOK, ShapeInv, HoldInv, StoredIsLastPut, Step(p)
    PROVE  HoldInv'
<1>1. SUFFICES ASSUME NEW q \in Procs, NEW s \in Secrets, Holds(q, s)'
               PROVE  call'[q].value = current'[s] \/ s \in crossed'
  BY DEF HoldInv
<1>2. \/ current'[s] = current[s] /\ (s \in crossed => s \in crossed')
      \/ (\E r \in Procs : Holds(r, s)) => s \in crossed'
  <2>1. CASE Write(p)
    BY <2>1, WriteEffect DEF Write, Mark, TypeOK
  <2>2. CASE \E t \in Secrets : Delete(p, t)
    BY <2>2 DEF Delete, Mark, TypeOK
  <2>3. CASE ~Write(p) /\ ~\E t \in Secrets : Delete(p, t)
    <3>1. current' = current /\ crossed' = crossed
      BY <2>3 DEF Step, StartRotate, ReadKey, MakeKey, TruncateKey, WriteKey, ReadBlob,
         Open, Truncate, StartRewraps, Pick, Fetch, FetchRaises, TruncateForNew, Publish,
         Abandon, StartPut, StartResolve, Proceed, history
    <3>2. QED
      BY <3>1
  <2>4. QED
    BY <2>1, <2>2, <2>3
<1>3. CASE q # p
  <2>1. Holds(q, s) /\ call'[q].value = call[q].value
    BY <1>1, <1>3, OthersSame DEF Holds, Rotating, Same
  <2>2. QED
    BY <1>2, <2>1 DEF HoldInv
<1>4. CASE q = p
  <2>1. CASE Truncate(p) /\ Holds(p, s) /\ call'[p].value = call[p].value
    BY <1>2, <1>4, <2>1 DEF HoldInv
  <2>2. CASE Fetch(p) /\ Whole(s) /\ call'[p].value = blob[s].value
    BY <1>4, <2>2 DEF StoredIsLastPut, Fetch, Proceed
  <2>3. QED
    BY <1>1, <1>4, <2>1, <2>2, HoldStep
<1>5. QED
  BY <1>3, <1>4

\* A key that a get or a blob refers to is accounted for.
Known(k) == Living(k) \/ k \in raced \cup retired \cup orphaned

\* The key of a blob in hand stays accounted for.
LEMMA SeenKeeps ==
    ASSUME NEW p \in Procs, TypeOK, ShapeInv, SeenInv, StoredOpens, Step(p)
    PROVE  SeenInv'
<1>1. SUFFICES ASSUME NEW q \in Procs, call'[q].op = "resolve", call'[q].at \in Opening,
                      NEW k, k = call'[q].seen
               PROVE  Known(k)'
  BY DEF SeenInv, Known, Opening, Living, Rotating
<1>2. Known(k) => Known(k)'
  BY LivingStays, KeysAreKnown DEF Known
<1>3. CASE q # p
  BY <1>1, <1>2, <1>3, OthersSame DEF SeenInv, Same, Known, Opening
<1>4. CASE q = p
  <2>1. CASE \E s \in Secrets : Whole(s) /\ k = blob[s].key
    BY <1>2, <2>1 DEF StoredOpens, Known
  <2>2. CASE call[p].op = "resolve" /\ call[p].at \in Opening /\ k = call[p].seen
    BY <1>2, <2>2 DEF SeenInv, Known, Opening
  <2>3. QED
    BY <1>1, <1>4, <2>1, <2>2, SeenStep
<1>5. QED
  BY <1>3, <1>4

\* Every step keeps complete blobs decryptable, up to the three causes.
LEMMA StoredOpensKeeps ==
    ASSUME NEW p \in Procs, TypeOK, ShapeInv, HeldInv, PassedInv, StoredOpens, Step(p),
           PassedInv'
    PROVE  StoredOpens'
<1>1. SUFFICES ASSUME NEW s \in Secrets, Whole(s)', NEW k, k = blob'[s].key
               PROVE  \/ Living(k)'
                      \/ k \in raced' \cup orphaned'
                      \/ k \in retired' /\ s \in missed'
  BY DEF StoredOpens, Living, Rotating
<1>2. CASE blob'[s] = blob[s] /\ (s \in missed => s \in missed')
  <2>0. k = blob[s].key /\ Whole(s)
    BY <1>1, <1>2 DEF Whole
  <2>1. CASE Living(k)
    <3>1. CASE k \in OnFile /\ (TruncateForNew(p) \/ Publish(p))
      <4>1. Rotating(p) /\ call[p].todo = {}
        BY <3>1 DEF TruncateForNew, Publish, ShapeInv, CallShape, Rotating
      <4>2. k = call[p].new \/ s \in missed
        BY <2>0, <4>1 DEF PassedInv
      <4>3. k = call[p].new => Living(k)' \/ k \in orphaned'
        BY <4>1, RotationsGoOn DEF Living, KeyIs, Rotating
      <4>4. k \in retired'
        BY <3>1 DEF TruncateForNew, Publish
      <4>5. QED
        BY <1>2, <4>2, <4>3, <4>4
    <3>2. QED
      BY <1>2, <2>1, <3>1, LivingStays
  <2>2. CASE k \in raced \cup orphaned
    BY <1>2, <2>2, KeysAreKnown
  <2>3. CASE k \in retired /\ s \in missed
    BY <1>2, <2>3, KeysAreKnown
  <2>4. QED
    BY <2>0, <2>1, <2>2, <2>3 DEF StoredOpens
<1>3. CASE ~Write(p)
  BY <1>1, <1>2, <1>3, BlobChanges, MissedStays
<1>4. CASE Write(p)
  <2>1. CASE s # call[p].on \/ ~call[p].linked
    <3>1. blob'[s] = blob[s]
      BY <1>4, <2>1, WriteEffect
    <3>2. s \in missed => s \in missed'
      BY <1>4, <2>1 DEF Write, Mark
    <3>3. QED
      BY <1>2, <3>1, <3>2
  <2>2. CASE s = call[p].on /\ call[p].linked
    <3>1. k = SealKey(p)
      <4>1. \/ blob'[s] = Sealed(SealKey(p), call[p].value)
            \/ blob'[s] = MixedBlob
        BY <1>4, <2>2, WriteEffect
      <4>2. MixedBlob.is # "whole" /\ Sealed(SealKey(p), call[p].value).key = SealKey(p)
        BY DEF MixedBlob, Sealed
      <4>3. QED
        BY <1>1, <4>1, <4>2 DEF Whole
    <3>2. CASE Rotating(p)
      <4>1. Living(k)
        BY <3>1, <3>2 DEF Living, SealKey
      <4>2. ~TruncateForNew(p) /\ ~Publish(p)
        BY <1>4 DEF Write, TruncateForNew, Publish
      <4>3. QED
        BY <4>1, <4>2, LivingStays
    <3>3. CASE ~Rotating(p)
      <4>1. k \in OnFile \cup raced \cup retired
        BY <1>4, <3>1, <3>3 DEF SealKey, HeldInv, KeyInUse, Write
      <4>2. keyFile' = keyFile /\ raced' = raced /\ retired' = retired
        BY <1>4 DEF Write
      <4>3. k \in OnFile => Living(k)'
        BY <4>2 DEF OnFile, Living
      <4>4. k \in retired => s \in missed'
        BY <1>4, <3>1, <2>2 DEF Write, Behind, Mark
      <4>5. QED
        BY <4>1, <4>2, <4>3, <4>4
    <3>4. QED
      BY <3>2, <3>3
  <2>3. QED
    BY <2>1, <2>2
<1>5. QED
  BY <1>3, <1>4

\* Every step keeps stored values current, up to crossed rotations.
LEMMA LastPutKeeps ==
    ASSUME NEW p \in Procs, TypeOK, ShapeInv, HoldInv, StoredIsLastPut, Step(p)
    PROVE  StoredIsLastPut'
<1>1. SUFFICES ASSUME NEW s \in Secrets, Whole(s)'
               PROVE  blob'[s].value = current'[s] \/ s \in crossed'
  BY DEF StoredIsLastPut
<1>2. CASE Write(p)
  <2>1. CASE s # call[p].on \/ ~call[p].linked
    <3>1. blob'[s] = blob[s]
      BY <1>2, <2>1, WriteEffect
    <3>2. current'[s] = current[s] /\ (s \in crossed => s \in crossed')
      BY <1>2, <2>1 DEF Write, Mark, TypeOK
    <3>3. QED
      BY <1>1, <3>1, <3>2 DEF StoredIsLastPut, Whole
  <2>2. CASE s = call[p].on /\ call[p].linked
    <3>1. blob'[s].value = call[p].value
      <4>1. \/ blob'[s] = Sealed(SealKey(p), call[p].value)
            \/ blob'[s] = MixedBlob
        BY <1>2, <2>2, WriteEffect
      <4>2. /\ MixedBlob.is # "whole"
            /\ Sealed(SealKey(p), call[p].value).value = call[p].value
        BY DEF MixedBlob, Sealed
      <4>3. QED
        BY <1>1, <4>1, <4>2 DEF Whole
    <3>2. CASE Rotating(p)
      <4>1. call[p].value = current[s] \/ s \in crossed
        BY <1>2, <2>2, <3>2 DEF HoldInv, Holds, Write
      <4>2. current' = current /\ crossed' = crossed
        BY <1>2, <3>2 DEF Write
      <4>3. QED
        BY <3>1, <4>1, <4>2
    <3>3. CASE ~Rotating(p)
      BY <1>2, <2>2, <3>1, <3>3 DEF Write, TypeOK
    <3>4. QED
      BY <3>2, <3>3
  <2>3. QED
    BY <2>1, <2>2
<1>3. CASE \E t \in Secrets : Delete(p, t)
  <2>1. PICK t \in Secrets : Delete(p, t)
    BY <1>3
  <2>2. blob'[s] = blob[s]
    BY <1>1, <2>1, BlobChanges DEF Delete, Write
  <2>3. s # t
    BY <1>1, <2>1 DEF Delete, Whole, NoBlob, TypeOK
  <2>4. QED
    BY <1>1, <2>1, <2>2, <2>3 DEF Delete, Mark, StoredIsLastPut, Whole, TypeOK
<1>4. CASE ~Write(p) /\ ~\E t \in Secrets : Delete(p, t)
  <2>1. current' = current /\ crossed' = crossed
    BY <1>4 DEF Step, StartRotate, ReadKey, MakeKey, TruncateKey, WriteKey, ReadBlob,
       Open, Truncate, StartRewraps, Pick, Fetch, FetchRaises, TruncateForNew, Publish,
       Abandon, StartPut, StartResolve, Proceed, history
  <2>2. blob'[s] = blob[s]
    BY <1>1, <1>4, BlobChanges
  <2>3. QED
    BY <1>1, <2>1, <2>2 DEF StoredIsLastPut, Whole
<1>5. QED
  BY <1>2, <1>3, <1>4

\* Every step keeps a writer, or a record, for each blob that does not parse.
LEMMA UnreadableKeeps ==
    ASSUME NEW p \in Procs, TypeOK, ShapeInv, UnreadableIsBeingWritten, Step(p)
    PROVE  UnreadableIsBeingWritten'
<1> DEFINE Writer(q, s) == call[q].at = "write" /\ call[q].on = s /\ call[q].linked
<1>1. SUFFICES ASSUME NEW s \in Secrets, blob'[s].is \in {"empty", "mixed"}, s \notin damaged'
               PROVE  \E q \in Procs : Writer(q, s)'
  BY DEF UnreadableIsBeingWritten
<1>2. CASE Truncate(p)
  <2>1. CASE s = call[p].on
    BY <1>2, <2>1 DEF Truncate, TypeOK, CallType
  <2>2. CASE s # call[p].on
    <3>1. blob'[s] = blob[s] /\ damaged' = damaged
      BY <1>2, <2>2 DEF Truncate, TypeOK, history
    <3>2. PICK q \in Procs : Writer(q, s)
      BY <1>1, <3>1 DEF UnreadableIsBeingWritten
    <3>3. q # p
      BY <1>2, <3>2 DEF Truncate
    <3>4. QED
      BY <1>2, <3>2, <3>3 DEF Truncate, TypeOK
  <2>3. QED
    BY <2>1, <2>2
<1>3. CASE Write(p)
  <2>1. s # call[p].on \/ ~call[p].linked
    <3>1. Sealed(SealKey(p), call[p].value).is = "whole"
      BY DEF Sealed
    <3>2. QED
      BY <1>1, <1>3, <3>1, WriteEffect
  <2>2. blob'[s] = blob[s]
    BY <1>3, <2>1, WriteEffect
  <2>3. s \notin damaged
    BY <1>1, <1>3, <2>1 DEF Write, Mark
  <2>4. PICK q \in Procs : Writer(q, s)
    BY <1>1, <2>2, <2>3 DEF UnreadableIsBeingWritten
  <2>5. q # p
    BY <2>1, <2>4
  <2>6. QED
    BY <1>3, <2>4, <2>5 DEF Write, TypeOK
<1>4. CASE \E t \in Secrets : Delete(p, t)
  <2>1. PICK t \in Secrets : Delete(p, t)
    BY <1>4
  <2>2. s # t
    BY <1>1, <2>1 DEF Delete, NoBlob, TypeOK
  <2>3. blob'[s] = blob[s] /\ s \notin damaged
    BY <1>1, <2>1, <2>2 DEF Delete, TypeOK
  <2>4. PICK q \in Procs : Writer(q, s)
    BY <1>1, <2>3 DEF UnreadableIsBeingWritten
  <2>5. call'[q] = call[q]
    BY <2>1, <2>2, <2>4 DEF Delete
  <2>6. QED
    BY <2>4, <2>5
<1>5. CASE ~Truncate(p) /\ ~Write(p) /\ ~\E t \in Secrets : Delete(p, t)
  <2>1. blob' = blob /\ damaged \subseteq damaged'
    BY <1>5 DEF Step, StartRotate, ReadKey, MakeKey, TruncateKey, WriteKey, ReadBlob,
       Open, StartRewraps, Pick, Fetch, FetchRaises, TruncateForNew, Publish,
       Abandon, StartPut, StartResolve, Proceed, history
  <2>2. PICK q \in Procs : Writer(q, s)
    BY <1>1, <2>1 DEF UnreadableIsBeingWritten
  <2>3. CASE q # p
    <3>1. call'[q] = call[q]
      BY <1>5, <2>3, OtherCalls
    <3>2. QED
      BY <2>2, <3>1
  <2>4. CASE q = p
    <3>1. Abandon(p)
      BY <1>5, <2>2, <2>4 DEF Step, StartRotate, ReadKey, MakeKey, TruncateKey, WriteKey,
         ReadBlob, Open, StartRewraps, Pick, Fetch, FetchRaises, TruncateForNew, Publish,
         StartPut, StartResolve
    <3>2. QED
      BY <1>1, <2>2, <2>4, <3>1 DEF Abandon
  <2>5. QED
    BY <2>3, <2>4
<1>6. QED
  BY <1>2, <1>3, <1>4, <1>5

\* Every step keeps the types.
LEMMA TypesKeep ==
    ASSUME NEW p \in Procs, TypeOK, ShapeInv, Step(p)
    PROVE  TypeOK'
<1>0. keys + 1 \in Nat
  BY DEF TypeOK
<1>1. call[p] \in CallType /\ CallShape(call[p])
  BY DEF TypeOK, ShapeInv
<1>2. ASSUME NEW c \in CallType, call' = [call EXCEPT ![p] = c]
      PROVE  call' \in [Procs -> CallType]
  BY <1>2 DEF TypeOK
<1>3. ASSUME NEW c \in CallType, Proceed(p, c), keys' \in Nat, orphaned' \subseteq Nat
      PROVE  TypeOK'
  BY <1>2, <1>3 DEF Proceed, TypeOK
<1>4. keyFile.key \in Nat /\ \A s \in Secrets : blob[s].key \in Nat /\ blob[s].value \in Nat
  BY DEF TypeOK, KeyContents, BlobContents
<1>5. CASE StartRotate(p)
  <2>1. [Idle EXCEPT !.op = "rotate", !.at = "key", !.todo = Secrets] \in CallType
    BY DEF Idle, CallType, Steps
  <2>2. rotations' \in 0..MaxRotations
    BY <1>5, BoundsAssumption DEF StartRotate, TypeOK
  <2>3. QED
    BY <1>2, <1>5, <2>1, <2>2 DEF StartRotate, TypeOK, history
<1>6. ASSUME NEW s \in Secrets, StartPut(p, s) PROVE TypeOK'
  <2>1. puts' \in 0..MaxPuts /\ puts + 1 \in Nat
    BY <1>6, BoundsAssumption DEF StartPut, TypeOK
  <2>2. [Idle EXCEPT !.op = "put", !.at = "key", !.on = s, !.value = puts + 1] \in CallType
    BY <2>1 DEF Idle, CallType, Steps
  <2>3. QED
    BY <1>2, <1>6, <2>1, <2>2 DEF StartPut, TypeOK, history
<1>7. ASSUME NEW t \in SUBSET Secrets
      PROVE  [Idle EXCEPT !.op = "resolve", !.at = "read", !.todo = t] \in CallType
  BY DEF Idle, CallType, Steps
<1>8. ASSUME NEW k \in Nat PROVE WithKey(p, k) \in CallType
  BY <1>1, Calls DEF WithKey, AfterKey, Steps
<1>9. CASE ReadKey(p)
  BY <1>3, <1>4, <1>8, <1>9, Calls DEF ReadKey, TypeOK
<1>10. CASE MakeKey(p)
  <2>1. keys' \in Nat /\ orphaned' \subseteq Nat
    BY <1>10 DEF MakeKey, TypeOK
  <2>2. [call[p] EXCEPT !.at = "make", !.key = keys + 1] \in CallType
    BY <1>1, <1>0, Calls DEF Steps
  <2>3. QED
    BY <1>3, <1>10, <2>1, <2>2 DEF MakeKey
<1>11. OnFile \subseteq Nat
  BY <1>4 DEF OnFile
<1>12. CASE TruncateKey(p) \/ TruncateForNew(p)
  <2>1. call' \in [Procs -> CallType]
    <3>1. [call[p] EXCEPT !.at = "makeWrite"] \in CallType
          /\ [call[p] EXCEPT !.at = "publish"] \in CallType
      BY <1>1, Calls DEF Steps
    <3>2. \/ call' = [call EXCEPT ![p] = [call[p] EXCEPT !.at = "makeWrite"]]
          \/ call' = [call EXCEPT ![p] = [call[p] EXCEPT !.at = "publish"]]
      BY <1>12 DEF TruncateKey, TruncateForNew
    <3>3. QED
      BY <1>2, <3>1, <3>2
  <2>2. QED
    BY <1>11, <1>12, <2>1, KeyFiles DEF TruncateKey, TruncateForNew, TypeOK
<1>13. CASE WriteKey(p) \/ Publish(p)
  <2>1. call[p].key \in Nat /\ call[p].new \in Nat
    BY <1>1 DEF CallType
  <2>2. call' \in [Procs -> CallType]
    BY <1>2, <1>8, <1>13, <2>1, Calls DEF WriteKey, Publish
  <2>3. QED
    BY <1>11, <1>13, <2>1, <2>2, KeyFiles DEF WriteKey, Publish, TypeOK
<1>14. CASE Truncate(p)
  <2>1. call' \in [Procs -> CallType]
    BY <1>1, <1>2, <1>14, Calls DEF Truncate
  <2>2. QED
    BY <1>14, <2>1, Blobs DEF Truncate, TypeOK, history
<1>15. CASE Write(p)
  BY <1>1, <1>15, WriteTypes DEF Write, CallShape
<1>16. ASSUME NEW s \in Secrets, Delete(p, s) PROVE TypeOK'
  <2>1. call' \in [Procs -> CallType]
    BY <1>16, Calls DEF Delete, TypeOK
  <2>2. crossed' \subseteq Secrets
    BY <1>16 DEF Delete, Mark, TypeOK
  <2>3. QED
    BY <1>16, <2>1, <2>2, Blobs DEF Delete, TypeOK
<1>17. CASE ReadBlob(p)
  <2>1. PICK s \in call[p].todo :
          \/ Proceed(p, [call[p] EXCEPT !.at = "key", !.on = s, !.seen = blob[s].key])
          \/ Proceed(p, Idle)
    BY <1>17 DEF ReadBlob
  <2>2. s \in Secrets
    BY <1>1 DEF CallType
  <2>3. [call[p] EXCEPT !.at = "key", !.on = s, !.seen = blob[s].key] \in CallType
    BY <1>1, <1>4, <2>2 DEF CallType, Steps
  <2>4. QED
    BY <1>3, <1>17, <2>1, <2>3, Calls DEF ReadBlob, TypeOK
<1>18. CASE Open(p)
  <2>1. call[p].todo \ {call[p].on} \in SUBSET Secrets
    BY <1>1 DEF CallType
  <2>2. QED
    BY <1>3, <1>7, <1>18, <2>1, Calls DEF Open, TypeOK
<1>19. CASE StartRewraps(p)
  <2>1. [call[p] EXCEPT !.at = "pick", !.new = keys + 1] \in CallType
    BY <1>0, <1>1 DEF CallType, Steps
  <2>2. keys' \in Nat /\ orphaned' \subseteq Nat
    BY <1>19 DEF StartRewraps, TypeOK
  <2>3. QED
    BY <1>3, <1>19, <2>1, <2>2 DEF StartRewraps
<1>20. CASE Pick(p)
  <2>1. PICK s \in call[p].todo :
          \/ Proceed(p, [call[p] EXCEPT !.todo = @ \ {s}])
          \/ Proceed(p, [call[p] EXCEPT !.at = "fetch", !.on = s])
    BY <1>20 DEF Pick
  <2>2. s \in Secrets
    BY <1>1 DEF CallType
  <2>3. /\ [call[p] EXCEPT !.todo = @ \ {s}] \in CallType
        /\ [call[p] EXCEPT !.at = "fetch", !.on = s] \in CallType
    BY <1>1, <2>2 DEF CallType, Steps
  <2>4. QED
    BY <1>3, <1>20, <2>1, <2>3 DEF Pick, TypeOK
<1>21. CASE Fetch(p)
  <2>1. call[p].on \in Secrets
    BY <1>1, <1>21 DEF Fetch, CallShape
  <2>2. [call[p] EXCEPT !.at = "seal", !.value = blob[call[p].on].value] \in CallType
    BY <1>1, <1>4, <2>1 DEF CallType, Steps
  <2>3. QED
    BY <1>3, <1>21, <2>2 DEF Fetch, TypeOK
<1>22. CASE FetchRaises(p) \/ Abandon(p)
  <2>1. call[p].new \in Nat /\ (call[p].at = "write" => call[p].on \in Secrets)
    BY <1>1 DEF CallType, CallShape
  <2>2. call' \in [Procs -> CallType]
    BY <1>2, <1>22, Calls DEF FetchRaises, Abandon, Proceed
  <2>3. abandoned' \in 0..MaxAbandoned
    BY <1>22, BoundsAssumption DEF FetchRaises, Abandon, Proceed, TypeOK
  <2>4. QED
    BY <1>22, <2>1, <2>2, <2>3 DEF FetchRaises, Abandon, Proceed, TypeOK
<1>23. ASSUME NEW refs \in SUBSET Secrets, StartResolve(p, refs) PROVE TypeOK'
  BY <1>3, <1>7, <1>23 DEF StartResolve, TypeOK
<1>24. QED
  BY <1>5, <1>6, <1>9, <1>10, <1>12, <1>13, <1>14, <1>15, <1>16, <1>17, <1>18, <1>19,
     <1>20, <1>21, <1>22, <1>23 DEF Step

\* IInv is an invariant of the store, for any number of processes, secrets,
\* rotations and crashes.
THEOREM Inductive == Spec => []IInv
<1>1. Init => IInv
  <2>1. SUFFICES ASSUME Init PROVE IInv
    OBVIOUS
  <2>2. TypeOK
    <3>1. /\ keys \in Nat /\ puts \in 0..MaxPuts
          /\ rotations \in 0..MaxRotations /\ abandoned \in 0..MaxAbandoned
      <4>1. keys = 0 /\ puts = 0 /\ rotations = 0 /\ abandoned = 0
        BY <2>1 DEF Init
      <4>2. QED
        BY <4>1, BoundsAssumption
    <3>2. keyFile \in KeyContents
      BY <2>1, KeyFiles DEF Init
    <3>3. blob \in [Secrets -> BlobContents] /\ call \in [Procs -> CallType]
      BY <2>1, Calls, Blobs DEF Init
    <3>4. current \in [Secrets -> Nat]
      BY <2>1 DEF Init
    <3>5. /\ {raced, retired, orphaned} \subseteq SUBSET Nat
          /\ {missed, crossed, damaged} \subseteq SUBSET Secrets
      BY <2>1 DEF Init
    <3>6. QED
      BY <3>1, <3>2, <3>3, <3>4, <3>5 DEF TypeOK
  <2>3. \A p \in Procs : call[p] = Idle
    BY <2>1 DEF Init
  <2>4. ShapeInv /\ HeldInv /\ PassedInv /\ HoldInv /\ SeenInv
    BY <2>3 DEF ShapeInv, CallShape, HeldInv, KeyInUse, PassedInv, HoldInv, SeenInv, Holds,
                Rotating, Idle
  <2>5. StoredOpens /\ StoredIsLastPut /\ UnreadableIsBeingWritten
    BY <2>1 DEF Init, StoredOpens, StoredIsLastPut, UnreadableIsBeingWritten, Whole, NoBlob
  <2>6. QED
    BY <2>2, <2>4, <2>5 DEF IInv
<1>2. IInv /\ [Next]_vars => IInv'
  <2>1. SUFFICES ASSUME IInv, [Next]_vars PROVE IInv'
    OBVIOUS
  <2>2. ASSUME NEW p \in Procs, Step(p) PROVE IInv'
    <3>1. TypeOK' /\ ShapeInv' /\ HeldInv' /\ PassedInv' /\ HoldInv' /\ SeenInv'
      BY ONLY <2>1, <2>2, TypesKeep, ShapesStep, HeldKeeps, PassedKeeps, HoldKeeps, SeenKeeps
         DEF IInv
    <3>2. StoredOpens' /\ StoredIsLastPut' /\ UnreadableIsBeingWritten'
      BY ONLY <2>1, <2>2, <3>1, StoredOpensKeeps, LastPutKeeps, UnreadableKeeps DEF IInv
    <3>3. QED
      BY <3>1, <3>2 DEF IInv
  <2>3. CASE UNCHANGED vars
    BY <2>1, <2>3 DEF vars, history, IInv, TypeOK, ShapeInv, HeldInv, OnFile, PassedInv,
       HoldInv, Holds, SeenInv, StoredOpens, StoredIsLastPut, UnreadableIsBeingWritten,
       Whole, Living, Rotating
  <2>4. QED
    BY <2>1, <2>2, <2>3 DEF Next
<1>3. QED
  BY <1>1, <1>2, PTL DEF Spec

\* Every reachable state is well typed.
THEOREM TypeCorrect == Spec => []TypeOK
<1>1. IInv => TypeOK
  BY DEF IInv
<1>2. QED
  BY <1>1, Inductive, PTL

\* Whatever processes interleave and die, a complete blob opens under the key
\* on disk, except for the three causes that StoredOpens names.
THEOREM SecretsOpen == Spec => []StoredOpens
<1>1. IInv => StoredOpens
  BY DEF IInv
<1>2. QED
  BY <1>1, Inductive, PTL

\* Only a rotation that read before and writes after a put or a delete brings
\* an old value back.
THEOREM LastPutIsStored == Spec => []StoredIsLastPut
<1>1. IInv => StoredIsLastPut
  BY DEF IInv
<1>2. QED
  BY <1>1, Inductive, PTL

\* A blob that does not parse has a writer, or lost one.
THEOREM UnreadableHasWriter == Spec => []UnreadableIsBeingWritten
<1>1. IInv => UnreadableIsBeingWritten
  BY DEF IInv
<1>2. QED
  BY <1>1, Inductive, PTL

\* A get that cannot unwrap has met a rotation or a lost key: without one, what
\* get reads fits the key it reads afterwards.
THEOREM MismatchIsExplained == Spec => []MismatchHasCause
<1>1. IInv => MismatchHasCause
  <2>1. SUFFICES ASSUME IInv, NEW p \in Procs, call[p].at = "open",
                        call[p].key # call[p].seen, call[p].key \notin raced \cup retired
                 PROVE  \/ call[p].seen \in raced \cup retired \cup orphaned
                        \/ \E q \in Procs : Rotating(q) /\ call[q].new = call[p].seen
    BY DEF MismatchHasCause
  <2>2. keyFile.is = "whole" /\ keyFile.key = call[p].key
    BY <2>1 DEF IInv, HeldInv, KeyInUse, OnFile
  <2>3. call[p].op = "resolve"
    BY <2>1 DEF IInv, ShapeInv, CallShape
  <2>4. QED
    BY <2>1, <2>2, <2>3 DEF IInv, SeenInv, Living
<1>2. QED
  BY <1>1, Inductive, PTL
=============================================================================
