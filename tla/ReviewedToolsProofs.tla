-------------------------- MODULE ReviewedToolsProofs --------------------------
(***************************************************************************)
(* Proofs for ReviewedTools and the two modules it composes, for any       *)
(* number of reviewers, operations, rounds and files on the shelf.         *)
(***************************************************************************)
EXTENDS ReviewedTools, TLAPS

\* What process p may do.
Acts(p) == ReviewStep(p) \/ Die(p) \/ CloseInput(p)

--------------------------------------------------------------------------------
(* The inductive invariant *)

\* A draft that can still be approved, or was, is the one that was rendered.
ShownInv ==
    \A p \in Reviewers :
        pc[p] \in {"prompt", "opening", "writing", "done"} => shown[p] = draft[p]

\* A draft under review stems from one reply more than it has rounds.
RoundInv ==
    \A p \in Reviewers :
        /\ \/ replies[p] = 0 /\ round[p] = 0
           \/ replies[p] = round[p] + 1
        /\ pc[p] \in {"rendering", "prompt", "editing", "feedback", "refining"}
               => replies[p] = round[p] + 1
        /\ pc[p] \in {"new", "synthesizing"} => replies[p] = 0 /\ round[p] = 0
        /\ pc[p] = "refining" => round[p] + 1 <= MaxRounds

\* Nobody else may write what p opened or wrote.
Alone(p) == \A q \in Reviewers \ {p} : q \notin Forced /\ p \notin since[q]

\* Whoever did not ask before p opened the file finds it and is refused.
KeptInv ==
    \A p \in Reviewers : pc[p] \in {"writing", "done"} /\ Alone(p) =>
        /\ \A q \in Reviewers \ {p} : pc[q] \in {"new", "refused"}
        /\ file = IF pc[p] = "done" THEN WrittenBy(p, draft[p]) ELSE Torn

RInv ==
    /\ ReviewTypeOK /\ ShownInv /\ FileWasApproved
    /\ ModelAddsNothing /\ RoundInv /\ KeptInv

\* What a server lists is whole, unambiguous and approved; the answer it gave
\* belongs to it.
ListingInv ==
    \A tool \in listing :
        Server!UniqueIds(tool.ops) /\ tool.op \in tool.ops

IInv == RInv /\ TypeOK /\ ListingInv /\ ServedWasApproved /\ DispatchesListed

--------------------------------------------------------------------------------
(* The review *)

\* Every step of a review keeps the types.
LEMMA TypesKept ==
    ASSUME ReviewTypeOK, RoundInv, NEW p \in Reviewers, Acts(p)
    PROVE  ReviewTypeOK'
<1>1. CASE CheckOutput(p)
  BY <1>1, ReviewAssumption
  DEF CheckOutput, Goes, ReviewTypeOK, Reviewing, Persisting, Ended
<1>2. CASE SynthesisFails(p)
  BY <1>2, ReviewAssumption
  DEF SynthesisFails, Goes, ReviewTypeOK, Reviewing, Persisting, Ended
<1>3. CASE Synthesize(p)
  BY <1>3, ReviewAssumption
  DEF Synthesize, Goes, ReviewTypeOK, Reviewing, Persisting, Ended, Proposals, Kept
<1>4. CASE Render(p)
  BY <1>4, ReviewAssumption
  DEF Render, Goes, ReviewTypeOK, Reviewing, Persisting, Ended
<1>5. CASE Decide(p)
  BY <1>5, ReviewAssumption
  DEF Decide, Goes, ReviewTypeOK, Reviewing, Persisting, Ended
<1>6. CASE EditorReturns(p)
  BY <1>6, ReviewAssumption
  DEF EditorReturns, Goes, ReviewTypeOK, Reviewing, Persisting, Ended, HandWritten
<1>7. CASE EditUnreadable(p)
  BY <1>7, ReviewAssumption
  DEF EditUnreadable, Goes, ReviewTypeOK, Reviewing, Persisting, Ended
<1>8. CASE EditIsNoObject(p)
  BY <1>8, ReviewAssumption
  DEF EditIsNoObject, Goes, ReviewTypeOK, Reviewing, Persisting, Ended
<1>9. CASE Feedback(p)
  BY <1>9, ReviewAssumption
  DEF Feedback, Goes, ReviewTypeOK, Reviewing, Persisting, Ended
<1>10. CASE Refine(p)
  BY <1>10, ReviewAssumption
  DEF Refine, Goes, RoundInv, ReviewTypeOK, Reviewing, Persisting, Ended, Proposals,
      Kept
<1>11. CASE RefineFails(p)
  BY <1>11, ReviewAssumption
  DEF RefineFails, Goes, ReviewTypeOK, Reviewing, Persisting, Ended
<1>12. CASE OpenOutput(p)
  BY <1>12, ReviewAssumption
  DEF OpenOutput, Goes, ReviewTypeOK, Reviewing, Persisting, Ended, Files, Torn
<1>13. CASE WriteOutput(p)
  BY <1>13, ReviewAssumption
  DEF WriteOutput, Goes, ReviewTypeOK, Reviewing, Persisting, Ended, Files, Torn,
      WrittenBy
<1>14. CASE OpenFails(p)
  BY <1>14, ReviewAssumption
  DEF OpenFails, Goes, ReviewTypeOK, Reviewing, Persisting, Ended
<1>15. CASE WriteFails(p)
  BY <1>15, ReviewAssumption
  DEF WriteFails, Goes, ReviewTypeOK, Reviewing, Persisting, Ended, Files, Torn
<1>16. CASE Die(p)
  BY <1>16, ReviewAssumption DEF Die, ReviewTypeOK, Reviewing, Persisting, Ended
<1>17. CASE CloseInput(p)
  BY <1>17, ReviewAssumption
  DEF CloseInput, ReviewTypeOK, Reviewing, Persisting, Ended
<1>18. QED
  BY <1>1, <1>2, <1>3, <1>4, <1>5, <1>6, <1>7, <1>8, <1>9, <1>10, <1>11, <1>12, <1>13,
     <1>14, <1>15, <1>16, <1>17 DEF Acts, ReviewStep

\* A draft changes only where it will be rendered again.
LEMMA ShownKept ==
    ASSUME ReviewTypeOK, ShownInv, NEW p \in Reviewers, Acts(p)
    PROVE  ShownInv'
<1>1. CASE CheckOutput(p)
  BY <1>1 DEF CheckOutput, Goes, ReviewTypeOK, ShownInv
<1>2. CASE SynthesisFails(p)
  BY <1>2 DEF SynthesisFails, Goes, ReviewTypeOK, ShownInv
<1>3. CASE Synthesize(p)
  BY <1>3 DEF Synthesize, Goes, ReviewTypeOK, ShownInv
<1>4. CASE Render(p)
  BY <1>4 DEF Render, Goes, ReviewTypeOK, ShownInv
<1>5. CASE Decide(p)
  BY <1>5 DEF Decide, Goes, ReviewTypeOK, ShownInv
<1>6. CASE EditorReturns(p)
  BY <1>6 DEF EditorReturns, Goes, ReviewTypeOK, ShownInv
<1>7. CASE EditUnreadable(p)
  BY <1>7 DEF EditUnreadable, Goes, ReviewTypeOK, ShownInv
<1>8. CASE EditIsNoObject(p)
  BY <1>8 DEF EditIsNoObject, Goes, ReviewTypeOK, ShownInv
<1>9. CASE Feedback(p)
  BY <1>9 DEF Feedback, Goes, ReviewTypeOK, ShownInv
<1>10. CASE Refine(p)
  BY <1>10 DEF Refine, Goes, ReviewTypeOK, ShownInv
<1>11. CASE RefineFails(p)
  BY <1>11 DEF RefineFails, Goes, ReviewTypeOK, ShownInv
<1>12. CASE OpenOutput(p)
  BY <1>12 DEF OpenOutput, Goes, ReviewTypeOK, ShownInv
<1>13. CASE WriteOutput(p)
  BY <1>13 DEF WriteOutput, Goes, ReviewTypeOK, ShownInv
<1>14. CASE OpenFails(p)
  BY <1>14 DEF OpenFails, Goes, ReviewTypeOK, ShownInv
<1>15. CASE WriteFails(p)
  BY <1>15 DEF WriteFails, Goes, ReviewTypeOK, ShownInv
<1>16. CASE Die(p)
  BY <1>16 DEF Die, ReviewTypeOK, ShownInv
<1>17. CASE CloseInput(p)
  BY <1>17 DEF CloseInput, ReviewTypeOK, ShownInv
<1>18. QED
  BY <1>1, <1>2, <1>3, <1>4, <1>5, <1>6, <1>7, <1>8, <1>9, <1>10, <1>11, <1>12, <1>13,
     <1>14, <1>15, <1>16, <1>17 DEF Acts, ReviewStep

\* Only a complete write of an approved draft makes the file whole.
LEMMA ApprovalKept ==
    ASSUME ReviewTypeOK, ShownInv, FileWasApproved, NEW p \in Reviewers, Acts(p)
    PROVE  FileWasApproved'
<1>1. CASE CheckOutput(p)
  BY <1>1 DEF CheckOutput, Goes, ReviewTypeOK, ShownInv, FileWasApproved
<1>2. CASE SynthesisFails(p)
  BY <1>2 DEF SynthesisFails, Goes, ReviewTypeOK, ShownInv, FileWasApproved
<1>3. CASE Synthesize(p)
  BY <1>3 DEF Synthesize, Goes, ReviewTypeOK, ShownInv, FileWasApproved
<1>4. CASE Render(p)
  BY <1>4 DEF Render, Goes, ReviewTypeOK, ShownInv, FileWasApproved
<1>5. CASE Decide(p)
  BY <1>5 DEF Decide, Goes, ReviewTypeOK, ShownInv, FileWasApproved
<1>6. CASE EditorReturns(p)
  BY <1>6 DEF EditorReturns, Goes, ReviewTypeOK, ShownInv, FileWasApproved
<1>7. CASE EditUnreadable(p)
  BY <1>7 DEF EditUnreadable, Goes, ReviewTypeOK, ShownInv, FileWasApproved
<1>8. CASE EditIsNoObject(p)
  BY <1>8 DEF EditIsNoObject, Goes, ReviewTypeOK, ShownInv, FileWasApproved
<1>9. CASE Feedback(p)
  BY <1>9 DEF Feedback, Goes, ReviewTypeOK, ShownInv, FileWasApproved
<1>10. CASE Refine(p)
  BY <1>10 DEF Refine, Goes, ReviewTypeOK, ShownInv, FileWasApproved
<1>11. CASE RefineFails(p)
  BY <1>11 DEF RefineFails, Goes, ReviewTypeOK, ShownInv, FileWasApproved
<1>12. CASE OpenOutput(p)
  BY <1>12 DEF OpenOutput, Goes, ReviewTypeOK, ShownInv, FileWasApproved, Torn
<1>13. CASE WriteOutput(p)
  BY <1>13
  DEF WriteOutput, Goes, ReviewTypeOK, ShownInv, FileWasApproved, Torn, WrittenBy
<1>14. CASE OpenFails(p)
  BY <1>14 DEF OpenFails, Goes, ReviewTypeOK, ShownInv, FileWasApproved
<1>15. CASE WriteFails(p)
  BY <1>15 DEF WriteFails, Goes, ReviewTypeOK, ShownInv, FileWasApproved, Torn
<1>16. CASE Die(p)
  BY <1>16 DEF Die, ReviewTypeOK, ShownInv, FileWasApproved, Ended
<1>17. CASE CloseInput(p)
  BY <1>17 DEF CloseInput, ReviewTypeOK, ShownInv, FileWasApproved
<1>18. QED
  BY <1>1, <1>2, <1>3, <1>4, <1>5, <1>6, <1>7, <1>8, <1>9, <1>10, <1>11, <1>12, <1>13,
     <1>14, <1>15, <1>16, <1>17 DEF Acts, ReviewStep

\* What the filter lets through, an editor keeps or a write stores.
LEMMA NothingAdded ==
    ASSUME ReviewTypeOK, ModelAddsNothing, NEW p \in Reviewers, Acts(p)
    PROVE  ModelAddsNothing'
<1>1. CASE CheckOutput(p)
  BY <1>1 DEF CheckOutput, Goes, ReviewTypeOK, ModelAddsNothing
<1>2. CASE SynthesisFails(p)
  BY <1>2 DEF SynthesisFails, Goes, ReviewTypeOK, ModelAddsNothing
<1>3. CASE Synthesize(p)
  BY <1>3 DEF Synthesize, Goes, ReviewTypeOK, ModelAddsNothing, Kept
<1>4. CASE Render(p)
  BY <1>4 DEF Render, Goes, ReviewTypeOK, ModelAddsNothing
<1>5. CASE Decide(p)
  BY <1>5 DEF Decide, Goes, ReviewTypeOK, ModelAddsNothing
<1>6. CASE EditorReturns(p)
  BY <1>6 DEF EditorReturns, Goes, ReviewTypeOK, ModelAddsNothing, HandWritten
<1>7. CASE EditUnreadable(p)
  BY <1>7 DEF EditUnreadable, Goes, ReviewTypeOK, ModelAddsNothing
<1>8. CASE EditIsNoObject(p)
  BY <1>8 DEF EditIsNoObject, Goes, ReviewTypeOK, ModelAddsNothing
<1>9. CASE Feedback(p)
  BY <1>9 DEF Feedback, Goes, ReviewTypeOK, ModelAddsNothing
<1>10. CASE Refine(p)
  BY <1>10 DEF Refine, Goes, ReviewTypeOK, ModelAddsNothing, Kept
<1>11. CASE RefineFails(p)
  BY <1>11 DEF RefineFails, Goes, ReviewTypeOK, ModelAddsNothing
<1>12. CASE OpenOutput(p)
  BY <1>12 DEF OpenOutput, Goes, ReviewTypeOK, ModelAddsNothing, Torn
<1>13. CASE WriteOutput(p)
  BY <1>13 DEF WriteOutput, Goes, ReviewTypeOK, ModelAddsNothing, Torn, WrittenBy
<1>14. CASE OpenFails(p)
  BY <1>14 DEF OpenFails, Goes, ReviewTypeOK, ModelAddsNothing
<1>15. CASE WriteFails(p)
  BY <1>15 DEF WriteFails, Goes, ReviewTypeOK, ModelAddsNothing, Torn
<1>16. CASE Die(p)
  BY <1>16 DEF Die, ReviewTypeOK, ModelAddsNothing
<1>17. CASE CloseInput(p)
  BY <1>17 DEF CloseInput, ReviewTypeOK, ModelAddsNothing
<1>18. QED
  BY <1>1, <1>2, <1>3, <1>4, <1>5, <1>6, <1>7, <1>8, <1>9, <1>10, <1>11, <1>12, <1>13,
     <1>14, <1>15, <1>16, <1>17 DEF Acts, ReviewStep

\* Replies and rounds are counted together.
LEMMA RoundsKept ==
    ASSUME ReviewTypeOK, RoundInv, NEW p \in Reviewers, Acts(p)
    PROVE  RoundInv'
<1>1. CASE CheckOutput(p)
  BY <1>1, ReviewAssumption DEF CheckOutput, Goes, ReviewTypeOK, RoundInv
<1>2. CASE SynthesisFails(p)
  BY <1>2, ReviewAssumption DEF SynthesisFails, Goes, ReviewTypeOK, RoundInv
<1>3. CASE Synthesize(p)
  BY <1>3, ReviewAssumption DEF Synthesize, Goes, ReviewTypeOK, RoundInv
<1>4. CASE Render(p)
  BY <1>4, ReviewAssumption DEF Render, Goes, ReviewTypeOK, RoundInv
<1>5. CASE Decide(p)
  BY <1>5, ReviewAssumption DEF Decide, Goes, ReviewTypeOK, RoundInv
<1>6. CASE EditorReturns(p)
  BY <1>6, ReviewAssumption DEF EditorReturns, Goes, ReviewTypeOK, RoundInv
<1>7. CASE EditUnreadable(p)
  BY <1>7, ReviewAssumption DEF EditUnreadable, Goes, ReviewTypeOK, RoundInv
<1>8. CASE EditIsNoObject(p)
  BY <1>8, ReviewAssumption DEF EditIsNoObject, Goes, ReviewTypeOK, RoundInv
<1>9. CASE Feedback(p)
  BY <1>9, ReviewAssumption DEF Feedback, Goes, ReviewTypeOK, RoundInv
<1>10. CASE Refine(p)
  BY <1>10, ReviewAssumption DEF Refine, Goes, ReviewTypeOK, RoundInv
<1>11. CASE RefineFails(p)
  BY <1>11, ReviewAssumption DEF RefineFails, Goes, ReviewTypeOK, RoundInv
<1>12. CASE OpenOutput(p)
  BY <1>12, ReviewAssumption DEF OpenOutput, Goes, ReviewTypeOK, RoundInv
<1>13. CASE WriteOutput(p)
  BY <1>13, ReviewAssumption DEF WriteOutput, Goes, ReviewTypeOK, RoundInv
<1>14. CASE OpenFails(p)
  BY <1>14, ReviewAssumption DEF OpenFails, Goes, ReviewTypeOK, RoundInv
<1>15. CASE WriteFails(p)
  BY <1>15, ReviewAssumption DEF WriteFails, Goes, ReviewTypeOK, RoundInv
<1>16. CASE Die(p)
  BY <1>16, ReviewAssumption DEF Die, ReviewTypeOK, RoundInv
<1>17. CASE CloseInput(p)
  BY <1>17, ReviewAssumption DEF CloseInput, ReviewTypeOK, RoundInv
<1>18. QED
  BY <1>1, <1>2, <1>3, <1>4, <1>5, <1>6, <1>7, <1>8, <1>9, <1>10, <1>11, <1>12, <1>13,
     <1>14, <1>15, <1>16, <1>17 DEF Acts, ReviewStep

\* An output whose writer is alone stays as it is.
LEMMA OutputKept ==
    ASSUME ReviewTypeOK, KeptInv, NEW p \in Reviewers, Acts(p)
    PROVE  KeptInv'
<1>1. CASE CheckOutput(p)
  BY <1>1, ReviewAssumption
  DEF CheckOutput, Goes, ReviewTypeOK, KeptInv, Alone, Torn, WrittenBy
<1>2. CASE SynthesisFails(p)
  BY <1>2, ReviewAssumption DEF SynthesisFails, Goes, ReviewTypeOK, KeptInv, Alone
<1>3. CASE Synthesize(p)
  BY <1>3, ReviewAssumption DEF Synthesize, Goes, ReviewTypeOK, KeptInv, Alone
<1>4. CASE Render(p)
  BY <1>4, ReviewAssumption DEF Render, Goes, ReviewTypeOK, KeptInv, Alone
<1>5. CASE Decide(p)
  BY <1>5, ReviewAssumption DEF Decide, Goes, ReviewTypeOK, KeptInv, Alone
<1>6. CASE EditorReturns(p)
  BY <1>6, ReviewAssumption DEF EditorReturns, Goes, ReviewTypeOK, KeptInv, Alone
<1>7. CASE EditUnreadable(p)
  BY <1>7, ReviewAssumption DEF EditUnreadable, Goes, ReviewTypeOK, KeptInv, Alone
<1>8. CASE EditIsNoObject(p)
  BY <1>8, ReviewAssumption DEF EditIsNoObject, Goes, ReviewTypeOK, KeptInv, Alone
<1>9. CASE Feedback(p)
  BY <1>9, ReviewAssumption DEF Feedback, Goes, ReviewTypeOK, KeptInv, Alone
<1>10. CASE Refine(p)
  BY <1>10, ReviewAssumption DEF Refine, Goes, ReviewTypeOK, KeptInv, Alone
<1>11. CASE RefineFails(p)
  BY <1>11, ReviewAssumption DEF RefineFails, Goes, ReviewTypeOK, KeptInv, Alone
<1>12. CASE OpenOutput(p)
  BY <1>12, ReviewAssumption
  DEF OpenOutput, Goes, ReviewTypeOK, KeptInv, Alone, Torn, Absent, PastCheck,
      WrittenBy
<1>13. CASE WriteOutput(p)
  BY <1>13, ReviewAssumption
  DEF WriteOutput, Goes, ReviewTypeOK, KeptInv, Alone, Torn, WrittenBy
<1>14. CASE OpenFails(p)
  BY <1>14, ReviewAssumption DEF OpenFails, Goes, ReviewTypeOK, KeptInv, Alone
<1>15. CASE WriteFails(p)
  BY <1>15, ReviewAssumption
  DEF WriteFails, Goes, ReviewTypeOK, KeptInv, Alone, Torn, WrittenBy
<1>16. CASE Die(p)
  BY <1>16, ReviewAssumption DEF Die, ReviewTypeOK, KeptInv, Alone, Ended
<1>17. CASE CloseInput(p)
  BY <1>17, ReviewAssumption DEF CloseInput, ReviewTypeOK, KeptInv, Alone
<1>18. QED
  BY <1>1, <1>2, <1>3, <1>4, <1>5, <1>6, <1>7, <1>8, <1>9, <1>10, <1>11, <1>12, <1>13,
     <1>14, <1>15, <1>16, <1>17 DEF Acts, ReviewStep

LEMMA ReviewKeeps ==
    ASSUME RInv, ReviewNext
    PROVE  RInv'
<1>1. PICK p \in Reviewers : Acts(p)
  BY DEF ReviewNext, Acts
<1>2. ReviewTypeOK'
  BY <1>1, TypesKept DEF RInv
<1>3. ShownInv' /\ FileWasApproved'
  BY <1>1, ShownKept, ApprovalKept DEF RInv
<1>4. ModelAddsNothing' /\ RoundInv'
  BY <1>1, NothingAdded, RoundsKept DEF RInv
<1>5. KeptInv'
  BY <1>1, OutputKept DEF RInv
<1>6. QED
  BY <1>2, <1>3, <1>4, <1>5 DEF RInv

\* A reviewer that approved a version keeps having approved it.
LEMMA ApprovalStands ==
    ASSUME RInv, ReviewNext, NEW p \in Reviewers, pc[p] = "done"
    PROVE  pc'[p] = "done" /\ shown'[p] = shown[p]
<1>1. PICK q \in Reviewers : ReviewStep(q) \/ Die(q) \/ CloseInput(q)
  BY DEF ReviewNext
<1>2. CASE ReviewStep(q)
  <2>1. ASSUME NEW from, NEW to, Goes(q, from, to), from # "done"
        PROVE  pc'[p] = "done" /\ p # q
    BY <2>1 DEF Goes, RInv, ReviewTypeOK
  <2>2. pc'[p] = "done" /\ p # q
    BY <1>2, <2>1 DEF ReviewStep, CheckOutput, SynthesisFails, Synthesize, Render,
       Decide, EditorReturns, EditUnreadable, EditIsNoObject, Feedback, Refine,
       RefineFails, OpenOutput, WriteOutput, OpenFails, WriteFails
  <2>3. shown'[p] = shown[p]
    BY <1>2, <2>2 DEF ReviewStep, CheckOutput, SynthesisFails, Synthesize, Render,
       Decide, EditorReturns, EditUnreadable, EditIsNoObject, Feedback, Refine,
       RefineFails, OpenOutput, WriteOutput, OpenFails, WriteFails, RInv, ReviewTypeOK
  <2>4. QED
    BY <2>2, <2>3
<1>3. CASE Die(q) \/ CloseInput(q)
  BY <1>3 DEF Die, CloseInput, Ended, RInv, ReviewTypeOK
<1>4. QED
  BY <1>1, <1>2, <1>3

--------------------------------------------------------------------------------
(* The server *)

LEMMA DirectoryPaths == DOMAIN Directory = DOMAIN Shelf \cup {Output}
  BY DEF Directory

\* What LoadFile adds to the listing.
LEMMA NewToolsAreSound ==
    ASSUME NEW path \in DOMAIN Directory, Server!Loads(Directory[path]),
           NEW firsts \in Server!FirstOfEachName(Directory[path]),
           NEW tool \in Server!NewTools(path, Directory[path], firsts)
    PROVE  /\ tool.path = path
           /\ tool.ops = Directory[path].ops
           /\ tool.op \in tool.ops
           /\ Server!UniqueIds(tool.ops)
           /\ tool.name \notin Server!Names(listing)
           /\ \A other \in Server!NewTools(path, Directory[path], firsts) :
                  other.name = tool.name => other = tool
<1>1. PICK op \in firsts :
          /\ tool = Server!ToolOf(path, Directory[path], op)
          /\ Server!NameOf(Directory[path], op) \notin Server!Names(listing)
  BY DEF Server!NewTools
<1>2. op \in Directory[path].ops /\ firsts \subseteq Directory[path].ops
  BY <1>1 DEF Server!FirstOfEachName
<1>3. ASSUME NEW other \in Server!NewTools(path, Directory[path], firsts),
             other.name = tool.name
      PROVE  other = tool
  <2>1. PICK g \in firsts : other = Server!ToolOf(path, Directory[path], g)
    BY DEF Server!NewTools
  <2>2. Server!NameOf(Directory[path], g) = Server!NameOf(Directory[path], op)
    BY <1>1, <1>3, <2>1 DEF Server!ToolOf
  <2>3. g = op
    BY <1>2, <2>1, <2>2 DEF Server!FirstOfEachName
  <2>4. QED
    BY <1>1, <2>1, <2>3
<1>4. QED
  BY <1>1, <1>2, <1>3 DEF Server!ToolOf, Server!Loads

LEMMA LoadKeeps ==
    ASSUME IInv, Server!LoadFile, UNCHANGED <<reviewVars, method>>
    PROVE  IInv'
<1>1. PICK path \in todo :
          /\ todo' = todo \ {path}
          /\ IF Server!Loads(Directory[path])
             THEN \E firsts \in Server!FirstOfEachName(Directory[path]) :
                      listing' = listing \cup
                                 Server!NewTools(path, Directory[path], firsts)
             ELSE UNCHANGED listing
  BY DEF Server!LoadFile
<1>2. path \in DOMAIN Directory /\ UNCHANGED <<phase, answer>>
  BY DEF IInv, TypeOK, Server!LoadFile
<1>3. RInv'
  BY DEF IInv, RInv, reviewVars, ReviewTypeOK, ShownInv, FileWasApproved,
     ModelAddsNothing, RoundInv, KeptInv, Alone
<1>4. CASE ~Server!Loads(Directory[path])
  BY <1>1, <1>2, <1>3, <1>4, DirectoryPaths DEF IInv, TypeOK, ListingInv, RInv,
     ServedWasApproved, DispatchesListed, Server!DispatchesListed, reviewVars, Directory
<1>5. ASSUME Server!Loads(Directory[path]),
             NEW firsts \in Server!FirstOfEachName(Directory[path]),
             listing' = listing \cup Server!NewTools(path, Directory[path], firsts)
      PROVE  IInv'
  <2> DEFINE new == Server!NewTools(path, Directory[path], firsts)
  <2>1. \A tool \in new :
            /\ tool.path = path /\ tool.ops = Directory[path].ops
            /\ tool.op \in tool.ops /\ Server!UniqueIds(tool.ops)
            /\ tool.name \notin Server!Names(listing)
            /\ \A other \in new : other.name = tool.name => other = tool
    BY <1>2, <1>5, NewToolsAreSound
  <2>2. listing' = listing \cup new
    BY <1>5
  <2> HIDE DEF new
  <2>3. TypeOK'
    BY <1>1, <1>2, <1>3, <2>1, <2>2, DirectoryPaths
    DEF IInv, RInv, TypeOK, Directory
  <2>4. ListingInv'
    BY <2>1, <2>2 DEF IInv, ListingInv
  <2>5. ServedWasApproved'
    <3>1. ASSUME NEW tool \in new, tool.path = Output
          PROVE  \E p \in Reviewers : pc[p] = "done" /\ tool.ops = shown[p]
      <4>1. file.kind = "whole" /\ tool.ops = file.ops
        BY <1>5, <2>1, <3>1 DEF Directory, Server!Loads
      <4>2. QED
        BY <4>1 DEF IInv, RInv, FileWasApproved
    <3>2. QED
      BY <2>2, <3>1 DEF IInv, ServedWasApproved, reviewVars
  <2>6. DispatchesListed'
    <3>1. \A t, u \in listing' : t.name = u.name => t = u
      BY <2>1, <2>2 DEF IInv, DispatchesListed, Server!DispatchesListed, Server!Names
    <3>2. QED
      BY <1>2, <2>2, <3>1 DEF IInv, DispatchesListed, Server!DispatchesListed
  <2>7. QED
    BY <1>3, <2>3, <2>4, <2>5, <2>6 DEF IInv
<1>6. QED
  BY <1>1, <1>4, <1>5

\* Everything else the server does: it starts, serves, answers or stops.
LEMMA ServerKeeps ==
    ASSUME IInv, Server!ServerNext, UNCHANGED <<reviewVars, method>>
    PROVE  IInv'
<1> USE DEF IInv, DispatchesListed, Server!DispatchesListed
<1>1. RInv'
  BY DEF RInv, reviewVars, ReviewTypeOK, ShownInv, FileWasApproved,
     ModelAddsNothing, RoundInv, KeptInv, Alone
<1>2. CASE Server!StartServer
  BY <1>1, <1>2, DirectoryPaths DEF Server!StartServer, TypeOK, RInv, ListingInv,
     ServedWasApproved, reviewVars, Directory
<1>3. CASE Server!LoadFile
  BY <1>3, LoadKeeps
<1>4. CASE Server!Serve
  BY <1>1, <1>4, DirectoryPaths DEF Server!Serve, TypeOK, RInv, ListingInv,
     ServedWasApproved, reviewVars, Directory
<1>5. CASE Server!StopServer
  BY <1>1, <1>5, DirectoryPaths DEF Server!StopServer, Server!NoAnswer, TypeOK, RInv,
     ListingInv, ServedWasApproved, reviewVars, Directory
<1>6. CASE Server!InvokeUnknown \/ Server!InvokeUnbuildable \/ Server!InvokeWithoutKey
  BY <1>1, <1>6, DirectoryPaths DEF Server!InvokeUnknown, Server!InvokeUnbuildable,
     Server!InvokeWithoutKey, TypeOK, RInv, ListingInv, ServedWasApproved, reviewVars,
     Directory
<1>7. CASE Server!InvokeDispatches
  <2>1. PICK tool \in listing : \E op \in tool.ops :
            /\ op.id = tool.op.id
            /\ answer' = [kind |-> "sent", name |-> tool.name, op |-> op]
    BY <1>7 DEF Server!InvokeDispatches
  <2>2. answer'.name = tool.name /\ answer'.op = tool.op
    BY <2>1 DEF ListingInv, Server!UniqueIds
  <2>3. UNCHANGED <<phase, todo, listing>>
    BY <1>7 DEF Server!InvokeDispatches
  <2>4. QED
    BY <1>1, <2>2, <2>3, DirectoryPaths DEF TypeOK, RInv, ListingInv,
       ServedWasApproved, reviewVars, Directory
<1>8. QED
  BY <1>2, <1>3, <1>4, <1>5, <1>6, <1>7 DEF Server!ServerNext

--------------------------------------------------------------------------------
(* The theorems *)

\* IInv is invariant: the draft that can be approved is the rendered one, a lone
\* writer's file stays, and the listing is unambiguous and approved.
THEOREM Inductive == Spec => []IInv
<1>1. Init => IInv
  BY ReviewAssumption, DirectoryPaths
  DEF Init, ReviewInit, Server!ServerInit, Server!NoAnswer, IInv, RInv, ReviewTypeOK,
      ShownInv, FileWasApproved, ModelAddsNothing, RoundInv, KeptInv, TypeOK, Absent,
      Files, ListingInv, ServedWasApproved, DispatchesListed, Server!DispatchesListed
<1>2. IInv /\ [Next]_vars => IInv'
  <2> SUFFICES ASSUME IInv, [Next]_vars PROVE IInv'
    OBVIOUS
  <2>1. CASE Review
    <3>1. RInv' /\ UNCHANGED serverVars
      BY <2>1, ReviewKeeps DEF Review, IInv
    <3>2. TypeOK'
      BY <2>1, <3>1, DirectoryPaths
      DEF Review, IInv, RInv, TypeOK, serverVars, Directory
    <3>3. ServedWasApproved'
      BY <2>1, <3>1, ApprovalStands DEF Review, IInv, ServedWasApproved, serverVars
    <3>4. ListingInv' /\ DispatchesListed'
      BY <3>1
      DEF IInv, ListingInv, DispatchesListed, Server!DispatchesListed, serverVars
    <3>5. QED
      BY <3>1, <3>2, <3>3, <3>4 DEF IInv
  <2>2. CASE CompleteByHand \/ UNCHANGED vars
    BY <2>2, DirectoryPaths
    DEF CompleteByHand, vars, reviewVars, serverVars, IInv, RInv, ReviewTypeOK, ShownInv,
        FileWasApproved, ModelAddsNothing, RoundInv, KeptInv, Alone, TypeOK, ListingInv,
        ServedWasApproved, DispatchesListed, Server!DispatchesListed, Directory
  <2>3. CASE Serving
    BY <2>3, ServerKeeps DEF Serving
  <2>4. QED
    BY <2>1, <2>2, <2>3 DEF Next
<1>3. QED
  BY <1>1, <1>2, PTL DEF Spec

\* Every reachable state of the review and the server is well typed.
THEOREM TypeCorrect == Spec => []TypeOK
<1>1. IInv => TypeOK
  BY DEF IInv
<1>2. QED
  BY <1>1, Inductive, PTL

\* The output holds exactly what an operator saw rendered and approved.
THEOREM OutputWasApproved == Spec => []FileWasApproved
<1>1. IInv => FileWasApproved
  BY DEF IInv, RInv
<1>2. QED
  BY <1>1, Inductive, PTL

\* What the model wrote, in a draft or in the output, the capture showed.
THEOREM NothingIsInvented == Spec => []ModelAddsNothing
<1>1. IInv => ModelAddsNothing
  BY DEF IInv, RInv
<1>2. QED
  BY <1>1, Inductive, PTL

\* A reported output stays, but for --force and a check that came too early.
THEOREM OutputStays == Spec => []ApprovedIsKept
<1>1. IInv => ApprovedIsKept
  BY DEF IInv, RInv, KeptInv, Alone, ApprovedIsKept
<1>2. QED
  BY <1>1, Inductive, PTL

\* The cap counts every reply of the model, whatever is edited in between.
THEOREM RefinementsAreCapped == Spec => []RoundsAreCapped
<1>1. IInv => RoundsAreCapped
  BY ReviewAssumption DEF IInv, RInv, ReviewTypeOK, RoundInv, RoundsAreCapped
<1>2. QED
  BY <1>1, Inductive, PTL

\* What a server lists from the output, an operator approved.
THEOREM ListingWasApproved == Spec => []ServedWasApproved
<1>1. IInv => ServedWasApproved
  BY DEF IInv
<1>2. QED
  BY <1>1, Inductive, PTL

\* A call sends the operation listed under its name.
THEOREM CallsReachTheirOperation == Spec => []DispatchesListed
<1>1. IInv => DispatchesListed
  BY DEF IInv
<1>2. QED
  BY <1>1, Inductive, PTL
================================================================================
