----------------------------- MODULE SynthesisReview -----------------------------
(***************************************************************************)
(* `synthesize-from-capture` (cli.py, connections/ingest_capture.py): the  *)
(* language model drafts operations from the analysis of a capture, the    *)
(* operator reviews them in a loop of approve, edit, refine and abort, and *)
(* an approved draft is written to --output.  Several of these processes   *)
(* may be given the same --output; each may die at any step, its editor    *)
(* may return anything and its standard input may end.                     *)
(*                                                                         *)
(* An operation is its id, its signature (method and path) and who wrote   *)
(* it; a draft is the set of them.  A reply that does not parse (an        *)
(* exception) is a failed call.  The prompts, the audit events, the list   *)
(* of dropped operations and the provenance fields other than the review   *)
(* are left out.  write_text truncates when it opens and writes from 0.    *)
(***************************************************************************)
EXTENDS Naturals, FiniteSets

CONSTANTS
    Reviewers,  \* processes started with the same --output
    Forced,     \* those started with --force
    Ids,        \* operation ids
    Candidates, \* signatures the analysis of the capture found
    Invented,   \* signatures it did not find
    Alphabet,   \* bound: the operations the model and the operators may write
    MaxRounds   \* DEFAULT_MAX_REFINEMENT_ROUNDS

Operations == [id : Ids, signature : Candidates \cup Invented,
               author : {"model", "operator"}]

ASSUME ReviewAssumption ==
    /\ Forced \subseteq Reviewers
    /\ Candidates \cap Invented = {}
    /\ Alphabet \subseteq Operations
    /\ MaxRounds \in Nat

VARIABLES
    pc,      \* what each process does
    draft,   \* the draft it holds
    shown,   \* history: the draft its operator last saw rendered
    round,   \* refinement_round of the draft
    replies, \* history: replies of the model it has used
    closed,  \* its standard input has ended
    since,   \* history: who opened the output after its existence check
    file     \* the output: [kind, ops, by]

reviewVars == <<pc, draft, shown, round, replies, closed, since, file>>

Reviewing == {"synthesizing", "rendering", "prompt", "editing", "feedback", "refining"}
Persisting == {"opening", "writing"}
Ended == {"refused", "failed", "aborted", "crashed", "done"}

Files == [kind : {"absent", "torn", "whole"}, ops : SUBSET Operations,
          by : SUBSET Reviewers]
Absent == [kind |-> "absent", ops |-> {}, by |-> {}]
Torn == [kind |-> "torn", ops |-> {}, by |-> {}]
WrittenBy(p, ops) == [kind |-> "whole", ops |-> ops, by |-> {p}]

ReviewTypeOK ==
    /\ pc \in [Reviewers -> {"new"} \cup Reviewing \cup Persisting \cup Ended]
    /\ draft \in [Reviewers -> SUBSET Operations]
    /\ shown \in [Reviewers -> SUBSET Operations]
    /\ round \in [Reviewers -> 0..MaxRounds]
    /\ replies \in [Reviewers -> 0..(MaxRounds + 1)]
    /\ closed \in [Reviewers -> BOOLEAN]
    /\ since \in [Reviewers -> SUBSET Reviewers]
    /\ file \in Files

ReviewInit ==
    /\ pc = [p \in Reviewers |-> "new"]
    /\ draft = [p \in Reviewers |-> {}]
    /\ shown = [p \in Reviewers |-> {}]
    /\ round = [p \in Reviewers |-> 0]
    /\ replies = [p \in Reviewers |-> 0]
    /\ closed = [p \in Reviewers |-> FALSE]
    /\ since = [p \in Reviewers |-> {}]
    /\ file = Absent

Goes(p, from, to) == pc[p] = from /\ pc' = [pc EXCEPT ![p] = to]

\* What the model may answer, and _filter_to_candidates.
Proposals == SUBSET {op \in Alphabet : op.author = "model"}
HandWritten == {op \in Alphabet : op.author = "operator"}
\* Mutant: what the model invents is kept.
Kept_Everything(proposal) == proposal
Kept(proposal) == {op \in proposal : op.signature \in Candidates}

--------------------------------------------------------------------------------
(* Start and synthesis *)

\* Mutant: a file that is being written does not count.
CheckOutput_WholeOnly(p) ==
    /\ Goes(p, "new", IF file.kind # "whole" \/ p \in Forced
                      THEN "synthesizing" ELSE "refused")
    /\ UNCHANGED <<draft, shown, round, replies, closed, since, file>>

\* output_path.exists() and not args.force: asked once, before the model.
CheckOutput(p) ==
    /\ Goes(p, "new", IF file.kind = "absent" \/ p \in Forced
                      THEN "synthesizing" ELSE "refused")
    /\ UNCHANGED <<draft, shown, round, replies, closed, since, file>>

\* Bad --capture-ref or --intent (2), no model (3), synthesis failed (4).
SynthesisFails(p) ==
    /\ Goes(p, "synthesizing", "failed")
    /\ UNCHANGED <<draft, shown, round, replies, closed, since, file>>

\* synthesize_from_capture.
Synthesize(p) ==
    /\ Goes(p, "synthesizing", "rendering")
    /\ \E proposal \in Proposals : draft' = [draft EXCEPT ![p] = Kept(proposal)]
    /\ replies' = [replies EXCEPT ![p] = 1]
    /\ UNCHANGED <<shown, round, closed, since, file>>

--------------------------------------------------------------------------------
(* _run_review_loop *)

Render(p) ==
    /\ Goes(p, "rendering", "prompt")
    /\ shown' = [shown EXCEPT ![p] = draft[p]]
    /\ UNCHANGED <<draft, round, replies, closed, since, file>>

\* Mutant: the end of the input is an unrecognized answer.
Decide_AsksAgain(p) ==
    /\ ~closed[p]
    /\ \E next \in {"opening", "editing", "feedback", "aborted"} : Goes(p, "prompt", next)
    /\ UNCHANGED <<draft, shown, round, replies, closed, since, file>>

\* _read_user_decision: an unrecognized answer is asked again, EOF is abort.
Decide(p) ==
    /\ \/ /\ ~closed[p]
          /\ \E next \in {"opening", "editing", "feedback"} : Goes(p, "prompt", next)
       \/ Goes(p, "prompt", "aborted")
    /\ UNCHANGED <<draft, shown, round, replies, closed, since, file>>

\* Mutant: back to the prompt, without rendering the edited draft.
EditorReturns_Unrendered(p) ==
    /\ Goes(p, "editing", "prompt")
    /\ \E kept \in SUBSET draft[p], written \in SUBSET HandWritten :
           draft' = [draft EXCEPT ![p] = kept \cup written]
    /\ UNCHANGED <<shown, round, replies, closed, since, file>>
\* Mutant: the edited draft is a new draft, of round 0.
EditorReturns_NewDraft(p) ==
    /\ Goes(p, "editing", "rendering")
    /\ \E kept \in SUBSET draft[p], written \in SUBSET HandWritten :
           draft' = [draft EXCEPT ![p] = kept \cup written]
    /\ round' = [round EXCEPT ![p] = 0]
    /\ UNCHANGED <<shown, replies, closed, since, file>>

\* _open_editor_for_draft: the operator keeps some operations and writes others.
EditorReturns(p) ==
    /\ Goes(p, "editing", "rendering")
    /\ \E kept \in SUBSET draft[p], written \in SUBSET HandWritten :
           draft' = [draft EXCEPT ![p] = kept \cup written]
    /\ UNCHANGED <<shown, round, replies, closed, since, file>>

\* The file does not parse, or its operations are no list: the draft stays.
EditUnreadable(p) ==
    /\ Goes(p, "editing", "rendering")
    /\ UNCHANGED <<draft, shown, round, replies, closed, since, file>>

\* JSON that is no object has no get: the AttributeError ends the process.
EditIsNoObject(p) ==
    /\ Goes(p, "editing", "crashed")
    /\ UNCHANGED <<draft, shown, round, replies, closed, since, file>>

\* Mutant: no cap.
Feedback_Uncapped(p) ==
    /\ \/ Goes(p, "feedback", "rendering")
       \/ ~closed[p] /\ Goes(p, "feedback", "refining")
    /\ UNCHANGED <<draft, shown, round, replies, closed, since, file>>

\* One line of feedback; an empty one, EOF or the cap goes back to the prompt.
Feedback(p) ==
    /\ \/ Goes(p, "feedback", "rendering")
       \/ ~closed[p] /\ round[p] + 1 <= MaxRounds /\ Goes(p, "feedback", "refining")
    /\ UNCHANGED <<draft, shown, round, replies, closed, since, file>>

\* refine_synthesis.
Refine(p) ==
    /\ Goes(p, "refining", "rendering")
    /\ \E proposal \in Proposals : draft' = [draft EXCEPT ![p] = Kept(proposal)]
    /\ round' = [round EXCEPT ![p] = @ + 1]
    /\ replies' = [replies EXCEPT ![p] = @ + 1]
    /\ UNCHANGED <<shown, closed, since, file>>

\* Any exception of the model or the parser: the prior draft is kept.
RefineFails(p) ==
    /\ Goes(p, "refining", "rendering")
    /\ UNCHANGED <<draft, shown, round, replies, closed, since, file>>

--------------------------------------------------------------------------------
(* confirm_and_persist *)

PastCheck(q) == pc[q] \notin {"new", "refused"}

OpenOutput(p) ==
    /\ Goes(p, "opening", "writing")
    /\ file' = Torn
    /\ since' = [q \in Reviewers |->
                    IF q # p /\ PastCheck(q) THEN since[q] \cup {p} ELSE since[q]]
    /\ UNCHANGED <<draft, shown, round, replies, closed>>

\* Over the longer text of another process, its tail stays behind.
WriteOutput(p) ==
    /\ Goes(p, "writing", "done")
    /\ \/ file' = WrittenBy(p, draft[p])
       \/ file.kind = "whole" /\ file' = Torn
    /\ UNCHANGED <<draft, shown, round, replies, closed, since>>

\* No such directory, or no space left: the OSError is not caught.
OpenFails(p) ==
    /\ Goes(p, "opening", "crashed")
    /\ UNCHANGED <<draft, shown, round, replies, closed, since, file>>

WriteFails(p) ==
    /\ Goes(p, "writing", "crashed")
    /\ file' = Torn
    /\ UNCHANGED <<draft, shown, round, replies, closed, since>>

--------------------------------------------------------------------------------
(* The environment *)

\* Control-C or a signal, at any step.
Die(p) ==
    /\ pc[p] \notin {"new"} \cup Ended
    /\ pc' = [pc EXCEPT ![p] = "crashed"]
    /\ UNCHANGED <<draft, shown, round, replies, closed, since, file>>

\* Its standard input ends (a pipe, or a terminal that is closed).
CloseInput(p) ==
    /\ ~closed[p] /\ pc[p] \in Reviewing
    /\ closed' = [closed EXCEPT ![p] = TRUE]
    /\ UNCHANGED <<pc, draft, shown, round, replies, since, file>>

ReviewStep(p) ==
    \/ CheckOutput(p) \/ SynthesisFails(p) \/ Synthesize(p)
    \/ Render(p) \/ Decide(p)
    \/ EditorReturns(p) \/ EditUnreadable(p) \/ EditIsNoObject(p)
    \/ Feedback(p) \/ Refine(p) \/ RefineFails(p)
    \/ OpenOutput(p) \/ WriteOutput(p) \/ OpenFails(p) \/ WriteFails(p)

ReviewNext == \E p \in Reviewers : ReviewStep(p) \/ Die(p) \/ CloseInput(p)

\* The steps of a started process follow one another: the model's client has a
\* timeout, the editor ends with the terminal, and EOF is always readable.
ReviewFairness ==
    \A p \in Reviewers : WF_reviewVars(pc[p] # "new" /\ ReviewStep(p))

ReviewSpec == ReviewInit /\ [][ReviewNext]_reviewVars /\ ReviewFairness

--------------------------------------------------------------------------------
(* Properties *)

\* The output holds exactly what an operator saw rendered and then approved:
\* no edit, refinement or failure after the last rendering reaches the file.
FileWasApproved ==
    file.kind = "whole" =>
        \E p \in Reviewers : /\ file.by = {p}
                             /\ pc[p] = "done"
                             /\ file.ops = shown[p]

\* Only the operator adds an operation the capture did not show: what the model
\* wrote and the operator kept, through any edits and refinements, is observed.
ModelAddsNothing ==
    \A p \in Reviewers : \A op \in draft[p] \cup file.ops :
        op.author = "model" => op.signature \in Candidates

\* A file a process wrote and reported stays there, unless a process with
\* --force, or one that asked for the file before it was opened, wrote as well.
ApprovedIsKept ==
    \A p \in Reviewers :
        (/\ pc[p] = "done"
         /\ \A q \in Reviewers \ {p} : q \notin Forced /\ p \notin since[q])
            => file = WrittenBy(p, draft[p])

\* The cap on refinements counts every reply the model's drafts came from: an
\* edit in between, or a failed round, does not start the count again.
RoundsAreCapped ==
    \A p \in Reviewers : /\ replies[p] <= MaxRounds + 1
                         /\ PastCheck(p) /\ replies[p] > 0 => replies[p] = round[p] + 1

\* When the input ends during a review, the process ends and persists nothing.
ClosedInputEnds ==
    \A p \in Reviewers :
        (closed[p] /\ pc[p] \in Reviewing)
            ~> pc[p] \in {"failed", "aborted", "crashed"}
================================================================================
