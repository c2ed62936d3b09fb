----------------------------- MODULE CaptureAnalysis -----------------------------
(***************************************************************************)
(* From the traffic of a page to candidate operations: PlaywrightBackend   *)
(* pairs requests with responses (capture/recorder.py), entries are kept   *)
(* in the order their bodies arrive, and analyze_capture clusters them     *)
(* (capture/analyzer.py).  Requests are answered in any order, or never.   *)
(*                                                                         *)
(* A path is a sequence of segments; what the regular expressions and the  *)
(* singular forms say of a segment are the functions Shape and Hint.  A    *)
(* request has a host, a method, a path, the names of its query parameters *)
(* and of its body's keys with repetitions, and whether its response is a  *)
(* static asset.  Header tables, sample values, statuses, confidences and  *)
(* the storage state are left out: the same counting with other names.     *)
(***************************************************************************)
EXTENDS Integers, Sequences, FiniteSets, FiniteSetsExt

CONSTANTS
    Requests, \* bound: the requests the page may make, each at most once
    Unseen,   \* bound: those whose "request" event may be missed
    Shape,    \* segment -> "uuid", "integer", ... or "" for a literal
    Hint      \* literal -> its singular, or "" when it has no usable letter

\* HarEntry and the request it records, as far as they are analysed.
Entry == [host : STRING, method : STRING, path : Seq(DOMAIN Shape),
          query : Seq(STRING), body : Seq(STRING), asset : BOOLEAN]

ASSUME RequestsAssumption == IsFiniteSet(Requests) /\ Requests \subseteq Entry

VARIABLES
    browser, \* request -> "unsent", "pending", "reading", "recorded"
    bare,    \* requests whose "request" event the recorder did not see
    entries, \* the recorder's list: a sequence of requests
    result   \* of analyze_capture: a set of candidates

vars == <<browser, bare, entries, result>>

States == {"unsent", "pending", "reading", "recorded"}
NoResult == [done |-> FALSE, candidates |-> {}]

--------------------------------------------------------------------------------
(* analyze_capture *)

Variable(segment) == Shape[segment] # ""

\* Entries that look alike are several invocations, so that an entry is known
\* by its index and what it contributes is a function on indices.

\* How often x occurs, and where first.
Count(f, x) == Cardinality({i \in DOMAIN f : f[i] = x})
First(f, x) == Min({i \in DOMAIN f : f[i] = x})

\* Mutant: the first one.
MostCommon_First(f) == f[Min(DOMAIN f)]

\* The key of the highest count, the one that came first among equals:
\* Counter.most_common(1).
MostCommon(f) ==
    CHOOSE x \in Range(f) : \A y \in Range(f) :
        \/ Count(f, x) > Count(f, y)
        \/ Count(f, x) = Count(f, y) /\ First(f, x) <= First(f, y)

Hosts(es) == [i \in {j \in DOMAIN es : es[j].host # ""} |-> es[i].host]
PrimaryHost(es) == IF Range(Hosts(es)) = {} THEN "" ELSE MostCommon(Hosts(es))

\* _is_noise: third-party host, static asset, CORS preflight.
IsNoise(e, primary) ==
    \/ primary # "" /\ e.host # "" /\ e.host # primary
    \/ e.asset
    \/ e.method = "OPTIONS"

\* Mutants: ids stay in the signature; their shapes do.
PathSignature_Literal(path) == path
PathSignature_Shape(path) ==
    [i \in DOMAIN path |-> IF Variable(path[i]) THEN ":" \o Shape[path[i]] ELSE path[i]]

PathSignature(path) ==
    [i \in DOMAIN path |-> IF Variable(path[i]) THEN ":var" ELSE path[i]]
Key(e) == <<e.method, PathSignature(e.path)>>

Analysed(es) == {i \in DOMAIN es : ~IsNoise(es[i], PrimaryHost(es))}
Keys(es) == {Key(es[i]) : i \in Analysed(es)}
Invocations(es, key) == {i \in Analysed(es) : Key(es[i]) = key}

\* The values at position i, and whether any of them is an id.
Column(paths, i) == [n \in DOMAIN paths |-> paths[n][i]]
VariableColumn(paths, i) == \E n \in DOMAIN paths : Variable(paths[n][i])
Literal(paths, i) == Column(paths, i)[Min(DOMAIN paths)]
Shapes(paths, i) ==
    [n \in {m \in DOMAIN paths : Variable(paths[m][i])} |-> Shape[paths[n][i]]]

\* _name_from_preceding, and _name_from_shape where there is no such literal.
BaseName(paths, i) ==
    LET before == {j \in 1..(i - 1) : ~VariableColumn(paths, j)}
    IN  IF before # {} /\ Hint[Literal(paths, Max(before))] # ""
        THEN [of |-> Hint[Literal(paths, Max(before))], at |-> 0]
        ELSE [of |-> MostCommon(Shapes(paths, i)), at |-> i]

\* _build_path_segments: a base that is taken gets the next suffix.
PathTemplate(paths) ==
    [i \in DOMAIN paths[Min(DOMAIN paths)] |->
        IF ~VariableColumn(paths, i)
        THEN [literal |-> Literal(paths, i), base |-> {}, suffix |-> 0]
        ELSE [literal |-> "", base |-> {BaseName(paths, i)},
              suffix |-> Cardinality({j \in 1..(i - 1) :
                  VariableColumn(paths, j) /\ BaseName(paths, j) = BaseName(paths, i)})]]

\* Mutant: occurrences are counted, not invocations.
Frequencies_Occurrences(names) ==
    {[name |-> k,
      seen |-> Cardinality({at \in (DOMAIN names) \X (1..2) :
                   at[2] \in DOMAIN names[at[1]] /\ names[at[1]][at[2]] = k}),
      total |-> Cardinality(DOMAIN names)] :
        k \in UNION {Range(names[n]) : n \in DOMAIN names}}

\* ParameterFrequency: in how many invocations a name was seen, of how many.
Frequencies(names) ==
    {[name |-> k,
      seen |-> Cardinality({n \in DOMAIN names : k \in Range(names[n])}),
      total |-> Cardinality(DOMAIN names)] :
        k \in UNION {Range(names[n]) : n \in DOMAIN names}}
IsRequired(frequency) == frequency.total > 0 /\ frequency.seen = frequency.total

\* _pearson_overlap, which is Jaccard's index, at the threshold of 0.8.
Overlap(a, b) == 100 * Cardinality(a \cap b) >= 80 * Cardinality(a \cup b)

\* _is_body_shape_ambiguous: two bodies with keys, and too few in common.
BodyShapeAmbiguous(bodies) ==
    \E a, b \in {Range(bodies[n]) : n \in DOMAIN bodies} \ {{}} : ~Overlap(a, b)

Paths(es, key) == [n \in Invocations(es, key) |-> es[n].path]
Queries(es, key) == [n \in Invocations(es, key) |-> es[n].query]
Bodies(es, key) == [n \in Invocations(es, key) |-> es[n].body]

Candidate(es, key) ==
    [method |-> key[1],
     template |-> PathTemplate(Paths(es, key)),
     count |-> Cardinality(Invocations(es, key)),
     query |-> Frequencies(Queries(es, key)),
     body |-> Frequencies(Bodies(es, key)),
     ambiguous |-> BodyShapeAmbiguous(Bodies(es, key))]

AnalyzeCapture(es) == {Candidate(es, key) : key \in Keys(es)}

--------------------------------------------------------------------------------
(* The recorder *)

Recorded == {r \in Requests : browser[r] = "recorded"}

\* The list has one entry for each request that was answered.
TypeOK ==
    /\ browser \in [Requests -> States]
    /\ bare \subseteq Requests
    /\ entries \in Seq(Entry)
    /\ Len(entries) = Cardinality(Recorded)
    /\ result.done \in BOOLEAN

Init ==
    /\ browser = [r \in Requests |-> "unsent"]
    /\ bare = {}
    /\ entries = <<>>
    /\ result = NoResult

Recording == ~result.done
Moves(r, from, to) ==
    /\ Recording
    /\ browser[r] = from
    /\ browser' = [browser EXCEPT ![r] = to]

\* _handle_request puts the request into _pending_responses, where one that
\* fails in the network stays: it has no "response" event.
HandleRequest(r) ==
    /\ Moves(r, "unsent", "pending")
    /\ UNCHANGED <<bare, entries, result>>

\* _handle_response takes it out, and waits for the body.
HandleResponse(r) ==
    /\ Moves(r, "pending", "reading")
    /\ UNCHANGED <<bare, entries, result>>

\* A response without its request event: an entry without a request body.
HandleUnpaired(r) ==
    /\ r \in Unseen
    /\ Moves(r, "unsent", "reading")
    /\ bare' = bare \cup {r}
    /\ UNCHANGED <<entries, result>>

\* What the entry of a request shows of it.
Known(r) == IF r \in bare THEN [r EXCEPT !.body = <<>>] ELSE r

\* Mutant: the request stays pending.
BodyArrives_Again(r) ==
    /\ Moves(r, "reading", "pending")
    /\ entries' = Append(entries, r)
    /\ UNCHANGED <<bare, result>>

\* The body is there, or could not be read: _on_entry appends the entry.
BodyArrives(r) ==
    /\ Moves(r, "reading", "recorded")
    /\ entries' = Append(entries, Known(r))
    /\ UNCHANGED <<bare, result>>

\* The session ends once no callback is running, and the artifact is analysed.
StopAndAnalyze ==
    /\ Recording
    /\ \A r \in Requests : browser[r] # "reading"
    /\ result' = [done |-> TRUE, candidates |-> AnalyzeCapture(entries)]
    /\ UNCHANGED <<browser, bare, entries>>

Next ==
    \/ \E r \in Requests :
           \/ HandleRequest(r) \/ HandleResponse(r) \/ HandleUnpaired(r)
           \/ BodyArrives(r)
    \/ StopAndAnalyze

Spec == Init /\ [][Next]_vars

--------------------------------------------------------------------------------
(* Properties *)

\* The requests that were answered, as the recorder knows them, in no order.
Answered == {Known(r) : r \in Recorded}

\* What a path template means: literals are equal, the others look like an id
\* (or like the mark that the signature has for one).
Matches(e, candidate) ==
    /\ e.method = candidate.method
    /\ DOMAIN e.path = DOMAIN candidate.template
    /\ \A i \in DOMAIN e.path :
           LET segment == candidate.template[i]
           IN  IF segment.base = {} THEN e.path[i] = segment.literal
               ELSE Variable(e.path[i]) \/ e.path[i] = ":var"

OnPrimary(e) == ~IsNoise(e, PrimaryHost(entries))
CallsOf(candidate) == {e \in Answered : OnPrimary(e) /\ Matches(e, candidate)}

\* Every answered request of the primary host that is no noise is counted in
\* exactly one candidate, the one its path matches, whatever the callbacks'
\* order; no candidate has an invocation the page did not make.
AnswersAreCovered ==
    result.done =>
        /\ \A e \in {a \in Answered : OnPrimary(a)} :
               Cardinality({c \in result.candidates : Matches(e, c)}) = 1
        /\ \A c \in result.candidates :
               c.count = Cardinality({r \in Recorded :
                   OnPrimary(Known(r)) /\ Matches(Known(r), c)})

\* "The (method, path_template) tuple identifies a candidate uniquely": the
\* filter of the model's operations and the later lookup rely on it.  There
\* are as many identities as clusters: none is merged with another or lost.
CandidatesAreDistinct ==
    result.done =>
        Cardinality({<<c.method, c.template>> : c \in result.candidates})
            = Cardinality(Keys(entries))

\* What a table marks as required.
RequiredIn(frequencies) == {f.name : f \in {g \in frequencies : IsRequired(g)}}

\* A parameter is required exactly when no answered request of the operation
\* was without it, repeated names and requests without a body included.
RequiredIffAlwaysSent ==
    \A c \in result.candidates :
        /\ RequiredIn(c.query) = {k \in UNION {Range(e.query) : e \in CallsOf(c)} :
               \A e \in CallsOf(c) : k \in Range(e.query)}
        /\ RequiredIn(c.body) = {k \in UNION {Range(e.body) : e \in CallsOf(c)} :
               \A e \in CallsOf(c) : k \in Range(e.body)}

\* No value occurs more often; two values lead.
Leads(f, x) == \A y \in Range(f) : Count(f, x) >= Count(f, y)
Tied(f) == \E x, y \in Range(f) : x # y /\ Leads(f, x) /\ Leads(f, y)

\* Two hosts lead, or two shapes lead in one column.
HasTies(es) ==
    \/ Tied(Hosts(es))
    \/ \E key \in Keys(es) : \E i \in DOMAIN key[2] : Tied(Shapes(Paths(es, key), i))

\* The bodies arrive in another order, p: backwards, or with two neighbours
\* exchanged.
Reordered(es, p) == [i \in DOMAIN es |-> es[p[i]]]
Orders(n) ==
    {[i \in 1..n |-> (n - i) + 1]} \cup
    {[i \in 1..n |-> IF i = j THEN j + 1 ELSE IF i = j + 1 THEN j ELSE i] :
        j \in 1..(n - 1)}

\* The analysis of a session is the same whatever order the bodies arrived in,
\* except where the majority it decides by is a tie.
OrderDoesNotMatter ==
    result.done /\ ~HasTies(entries) =>
        \A p \in Orders(Len(entries)) :
            result.candidates = AnalyzeCapture(Reordered(entries, p))
================================================================================
