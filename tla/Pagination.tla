------------------------------- MODULE Pagination -------------------------------
(***************************************************************************)
(* The page loop of dispatch/pagination.py: dispatch_paginated, a          *)
(* generator, between its caller and the provider.                         *)
(*                                                                         *)
(* The provider holds a list of records and a position is a number of      *)
(* records: what a cursor, an offset or a link stands for.  A provider is  *)
(* "steady" when each page continues the list where the request asks and   *)
(* says what comes next, "silent" when it does so and never gives a total, *)
(* and "any" when it may answer anything.  Where the list is in the body of *)
(* a page decides what _page_size takes for its length.                    *)
(***************************************************************************)
EXTENDS Naturals, Sequences

CONSTANTS
    MaxRecords, \* bound: records of the list
    MaxLimit,   \* bound: the declared limit
    MaxMaxPages \* bound: the max_pages of a caller

ASSUME BoundsAssumption == {MaxRecords, MaxLimit, MaxMaxPages} \subseteq Nat

VARIABLES
    pattern,  \* op.pagination; has_more and total are the offset pattern
    path,     \* is the JSONPath of the pattern one that the loop supports
    maxPages, \* max_pages
    limit,    \* declared_limit
    provider, \* steady, silent, any
    body,     \* the list in a body: "list", "buried", "crowded"
    records,  \* length of the list
    start,    \* the position that the caller's query asks for
    pc,       \* top of the loop, request sent, page yielded, over
    at,       \* current_query's cursor or offset, link_header_next; 0: none
    page,     \* the last page
    pages,    \* pages_yielded
    ended,    \* how the loop ended
    delivered \* history: the records a steady provider's pages held

setting == <<pattern, path, maxPages, limit, provider, body, records, start>>
vars == <<setting, pc, at, page, pages, ended, delivered>>

Offset == {"has_more", "total"}
Patterns == {"none", "cursor", "link"} \cup Offset

\* The list is the longest array at the body's top level; there is none, because
\* the body is the list or has it deeper; a longer one stands beside the list.
Bodies == {"list", "buried", "crowded"}
Ends == {"no", "end", "limit", "failure", "cross_origin", "raised"}

\* count: records of the page; largest: the longest array that the body holds
\* at its top; sign: what the page says of the next one; to: the cursor, link
\* target or total that comes with it.
Pages == [count : Nat, largest : Nat, sign : {"none", "no", "yes", "away"}, to : Nat]
NoPage == [count |-> 0, largest |-> 0, sign |-> "none", to |-> 0]

TypeOK ==
    /\ pattern \in Patterns
    /\ path \in {"supported", "unsupported"}
    /\ maxPages \in 0..MaxMaxPages
    /\ limit \in 1..MaxLimit
    /\ provider \in {"steady", "silent", "any"}
    /\ body \in Bodies
    /\ records \in 0..MaxRecords
    /\ start \in 0..records
    /\ pc \in {"top", "sent", "yielded", "over"}
    /\ at \in Nat
    /\ page \in Pages
    /\ pages \in 0..maxPages
    /\ ended \in Ends
    /\ delivered \in Seq(Nat)

Init ==
    /\ pattern \in Patterns
    /\ path \in {"supported", "unsupported"}
    /\ maxPages \in 0..MaxMaxPages
    /\ limit \in 1..MaxLimit
    /\ provider \in {"steady", "silent", "any"}
    /\ body \in Bodies
    /\ records \in 0..MaxRecords
    /\ start \in IF pattern \in {"none", "link"} THEN {0} ELSE 0..records
    /\ pc = "top" /\ at = start
    /\ page = NoPage /\ pages = 0
    /\ ended = "no" /\ delivered = << >>
-----------------------------------------------------------------------------
\* The provider.

Lesser(m, n) == IF m <= n THEN m ELSE n
Left == IF at <= records THEN records - at ELSE 0

\* _page_size of a body with n records; bound: the longer array.
SizesOf(n) ==
    CASE body = "list" -> {n}
      [] body = "buried" -> {0}
      [] body = "crowded" -> (n + 1)..(limit + 1)

\* A page with the next n records, which _page_size takes for size.
SteadyPage(n, size) ==
    LET next == at + n
        more == next < records
        given == pattern = "total" /\ provider = "steady"
        linked == pattern \in {"cursor", "link"} /\ more
    IN  [count |-> n, largest |-> size,
         sign |-> IF given \/ linked \/ (pattern = "has_more" /\ more) THEN "yes"
                  ELSE IF pattern = "has_more" THEN "no" ELSE "none",
         to |-> IF linked THEN next ELSE IF given THEN records ELSE 0]

\* Without a total, pages are full while there are records left.
SteadyPages ==
    LET full == Lesser(limit, Left)
        least == IF provider = "silent" THEN full ELSE Lesser(1, Left)
    IN  UNION {{SteadyPage(n, size) : size \in SizesOf(n)} : n \in least..full}

\* A cursor or a link that is there points somewhere.
AnyPages ==
    {q \in [count : 0..limit, largest : 0..limit, sign : {"none", "no", "yes", "away"},
            to : 0..MaxRecords] :
        /\ q.sign = "no" => pattern = "has_more"
        /\ q.sign = "away" => pattern = "link"
        /\ q.sign = "yes" => pattern # "none" /\ (pattern \in {"cursor", "link"} => q.to > 0)
        /\ q.to > 0 => q.sign = "yes" /\ pattern # "has_more"}
-----------------------------------------------------------------------------
\* Nothing but the loop's own control changes.
Over(how) ==
    /\ pc' = "over" /\ ended' = how
    /\ UNCHANGED <<setting, at, page, pages, delivered>>

Exhausted == pattern # "none" /\ pages >= maxPages

\* The safety limit is checked before each request.
LimitReached == pc = "top" /\ Exhausted /\ Over("limit")

\* client.dispatch, or _dispatch_raw_url for a link.
Request ==
    /\ pc = "top" /\ ~Exhausted
    /\ pc' = "sent"
    /\ UNCHANGED <<setting, at, page, pages, ended, delivered>>

\* mutant of Yield: only pages that the envelope fetched are counted.
Yield_CountsDispatches(q) ==
    /\ pc = "sent"
    /\ page' = q
    /\ delivered' = IF provider = "any" THEN delivered
                    ELSE delivered \o [i \in 1..q.count |-> at + i]
    /\ IF pattern = "none"
       THEN pc' = "over" /\ ended' = "end" /\ UNCHANGED pages
       ELSE /\ pc' = "yielded" /\ UNCHANGED ended
            /\ pages' = IF pattern = "link" /\ at > 0 THEN pages ELSE pages + 1
    /\ UNCHANGED <<setting, at>>

\* A page arrives and is yielded.  Without a pattern that is all.
Yield(q) ==
    /\ pc = "sent"
    /\ page' = q
    /\ delivered' = IF provider = "any" THEN delivered
                    ELSE delivered \o [i \in 1..q.count |-> at + i]
    /\ IF pattern = "none"
       THEN pc' = "over" /\ ended' = "end" /\ UNCHANGED pages
       ELSE pc' = "yielded" /\ pages' = pages + 1 /\ UNCHANGED ended
    /\ UNCHANGED <<setting, at>>

\* The dispatch ends in an error, which is yielded as the last item.
Fails == pc = "sent" /\ Over("failure")

\* _dispatch_raw_url does not catch what the transport raises.
Raises == pc = "sent" /\ pattern = "link" /\ at > 0 /\ Over("raised")

\* _resolve_jsonpath takes only paths that begin with "$.".
PathRaises ==
    /\ pc = "yielded" /\ path = "unsupported"
    /\ pattern \in Offset \cup {"cursor"}
    /\ Over("raised")

\* _has_more_offset
HasMore ==
    IF pattern = "has_more" THEN page.sign = "yes"
    ELSE IF page.sign = "yes" THEN at + page.largest < page.to
    ELSE page.largest >= limit

\* The page leads to another one.
GoesOn ==
    CASE pattern = "cursor" -> page.sign = "yes" /\ page.to # at
      [] pattern = "link" -> page.sign = "yes"
      [] OTHER -> HasMore

Readable == pattern = "link" \/ path = "supported"

\* The end of the data, as the page tells it.
Stop == pc = "yielded" /\ Readable /\ ~GoesOn /\ page.sign # "away" /\ Over("end")

\* The next link leads to another origin.
CrossOrigin == pc = "yielded" /\ page.sign = "away" /\ Over("cross_origin")

\* mutant of NextAt: the offset advances by the limit.
NextAt_ByLimit == IF pattern \in Offset THEN at + limit ELSE page.to

NextAt == IF pattern \in Offset THEN at + page.largest ELSE page.to

Advance ==
    /\ pc = "yielded" /\ Readable /\ GoesOn
    /\ at' = NextAt
    /\ pc' = "top"
    /\ UNCHANGED <<setting, page, pages, ended, delivered>>

Next ==
    \/ LimitReached \/ Request \/ Fails \/ Raises \/ PathRaises
    \/ Stop \/ CrossOrigin \/ Advance
    \/ \E q \in IF provider = "any" THEN AnyPages ELSE SteadyPages : Yield(q)

Spec == Init /\ [][Next]_vars

\* The caller asks for every page.  Nobody owes an answer: a linked page is asked
\* for without a timeout (pagination.py:427-429), and a dispatch may wait for ever
\* for its CSRF refresh (DispatchClient).
FairSpec == Spec /\ WF_vars(pc # "sent" /\ Next)
-----------------------------------------------------------------------------
\* Two requests in a row never carry the same cursor, whatever the provider
\* says (the degenerate end of pagination.py:320-323).
CursorMovesOn == [][pattern = "cursor" /\ pc = "yielded" /\ pc' = "top" => at' # at]_vars

\* A provider that leads in circles, repeats itself or never ends is left all
\* the same: the loop ends, or it waits for ever for one answer.
LoopEnds == <>(pc = "over" \/ [](pc = "sent"))

\* The offset can follow the list only where _page_size counts the list.  Where it
\* does not, records are skipped or read again, from a provider that keeps to the
\* pattern (pagination.py:383-393).
Countable == pattern \in Offset => body = "list"

\* What a caller may rely on: PageReading, if Countable.  Without a pattern there
\* is only the first page; a silent provider leaves the loop to guess; a max_pages
\* of 0 ends every loop before its first request.
Reading == INSTANCE PageReading
           WITH list <- [i \in 1..(records - start) |-> start + i],
                steady <- provider # "any" /\ pattern # "none" /\ Countable,
                telling <- provider = "steady" /\ maxPages > 0,
                got <- delivered

ImplementsReading == Reading!Spec
=============================================================================
