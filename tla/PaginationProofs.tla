---------------------------- MODULE PaginationProofs ----------------------------
(***************************************************************************)
(* What holds of the page loop for lists, limits and max_pages of any size. *)
(***************************************************************************)
EXTENDS Pagination, TLAPS

\* The loop has an end exactly when it is over, and no loop without a pattern.
EndInv ==
    /\ ended = "no" <=> pc # "over"
    /\ pc = "yielded" => pattern # "none"

\* The provider keeps to the pattern, and _page_size counts what it sends.
Kept == provider # "any" /\ Countable

\* Where the loop stands in the list of such a provider.
PlaceInv ==
    Kept =>
        /\ \A i \in 1..Len(delivered) : delivered[i] = start + i
        /\ pc \in {"top", "sent"} => at = start + Len(delivered) /\ at <= records
        /\ pc = "yielded" =>
             /\ at + page.count = start + Len(delivered)
             /\ at + page.count <= records
             /\ page = SteadyPage(page.count, page.largest)
             /\ pattern \in Offset => page.largest = page.count
             /\ at < records => page.count > 0
             /\ provider = "silent" => page.count = Lesser(limit, Left)
        /\ pc = "over" => start + Len(delivered) <= records

\* The loop goes back to its top only while there is more.
MoreInv ==
    Kept /\ provider = "steady" /\ pc = "top" /\ pages > 0 /\ pattern # "none"
        => at < records

\* A request is sent only below the limit.
CountInv == pc = "sent" => pattern = "none" \/ pages < maxPages

IInv == TypeOK /\ EndInv /\ CountInv /\ PlaceInv /\ MoreInv

\* A steady page is well typed, holds n records and is taken for size.
LEMMA SteadyTypes ==
    ASSUME TypeOK, NEW n \in Nat, NEW size \in Nat
    PROVE  /\ SteadyPage(n, size) \in Pages
           /\ SteadyPage(n, size).count = n /\ SteadyPage(n, size).largest = size
BY DEF SteadyPage, Pages, TypeOK

\* The pages of a steady provider continue the list as far as it goes.
LEMMA SteadyWithin ==
    ASSUME TypeOK, NEW q \in SteadyPages
    PROVE  /\ q.count \in Nat /\ q = SteadyPage(q.count, q.largest)
           /\ q \in Pages
           /\ at <= records => at + q.count <= records
           /\ at < records => q.count > 0
           /\ provider = "silent" => q.count = Lesser(limit, Left)
           /\ Countable /\ pattern \in Offset => q.largest = q.count
<1> DEFINE full == Lesser(limit, Left)
           least == IF provider = "silent" THEN full ELSE Lesser(1, Left)
<1>1. PICK n \in least..full : q \in {SteadyPage(n, size) : size \in SizesOf(n)}
  BY DEF SteadyPages
<1>2. PICK size \in SizesOf(n) : q = SteadyPage(n, size)
  BY <1>1
<1>3. limit \in Nat /\ limit >= 1 /\ at \in Nat /\ records \in Nat
  BY BoundsAssumption DEF TypeOK
<1>4. /\ n \in Nat
      /\ at <= records => n <= records - at
      /\ at < records => n > 0
      /\ provider = "silent" => n = Lesser(limit, Left)
  BY <1>1, <1>3 DEF Lesser, Left
<1>5. size \in Nat /\ (Countable /\ pattern \in Offset => size = n)
  BY <1>2, <1>3, <1>4 DEF SizesOf, Countable, TypeOK, Bodies
<1>6. q.count = n /\ q.largest = size /\ q \in Pages
  BY <1>2, <1>4, <1>5, SteadyTypes
<1>7. QED
  BY <1>2, <1>3, <1>4, <1>5, <1>6

\* A page of another provider is well typed.
LEMMA AnyTypes == ASSUME TypeOK, NEW q \in AnyPages PROVE q \in Pages
BY BoundsAssumption DEF AnyPages, Pages, TypeOK

\* What a steady page adds to the records delivered.
LEMMA Appended ==
    ASSUME NEW s \in Seq(Nat), NEW b \in Nat, NEW n \in Nat,
           \A i \in 1..Len(s) : s[i] = b + i
    PROVE  LET t == s \o [i \in 1..n |-> b + Len(s) + i] IN
           /\ t \in Seq(Nat)
           /\ Len(t) = Len(s) + n
           /\ \A i \in 1..Len(t) : t[i] = b + i
<1> DEFINE u == [i \in 1..n |-> b + Len(s) + i]
<1>1. Len(s) \in Nat
  OBVIOUS
<1>2. u \in Seq(Nat) /\ Len(u) = n
  BY <1>1
<1>3. /\ s \o u \in Seq(Nat) /\ Len(s \o u) = Len(s) + n
      /\ \A i \in 1..(Len(s) + n) : (s \o u)[i] = IF i <= Len(s) THEN s[i] ELSE u[i - Len(s)]
  BY <1>2
<1>4. \A i \in 1..(Len(s) + n) : (s \o u)[i] = b + i
  <2>1. SUFFICES ASSUME NEW i \in 1..(Len(s) + n) PROVE (s \o u)[i] = b + i
    OBVIOUS
  <2>2. CASE i <= Len(s)
    BY <1>1, <1>3, <2>2
  <2>3. CASE i > Len(s)
    <3>1. i - Len(s) \in 1..n
      BY <1>1, <2>3
    <3>2. u[i - Len(s)] = b + Len(s) + (i - Len(s))
      BY <3>1
    <3>3. QED
      BY <1>1, <1>3, <2>3, <3>2
  <2>4. QED
    BY <1>1, <2>2, <2>3
<1>5. QED
  BY <1>3, <1>4

\* The step of a page that arrives from a provider that keeps to the pattern.
LEMMA SteadyYield ==
    ASSUME IInv, Kept, NEW q \in SteadyPages, Yield(q)
    PROVE  /\ at + q.count <= records /\ q = SteadyPage(q.count, q.largest)
           /\ pattern \in Offset => q.largest = q.count
           /\ at < records => q.count > 0
           /\ provider = "silent" => q.count = Lesser(limit, Left)
           /\ delivered' \in Seq(Nat) /\ Len(delivered') = Len(delivered) + q.count
           /\ \A i \in 1..Len(delivered') : delivered'[i] = start + i
           /\ at = start + Len(delivered) /\ Len(delivered) \in Nat /\ q.count \in Nat
<1>1. /\ delivered \in Seq(Nat) /\ start \in Nat /\ records \in Nat /\ at \in Nat
      /\ Len(delivered) \in Nat
  BY BoundsAssumption DEF IInv, TypeOK
<1>2. /\ at = start + Len(delivered) /\ at <= records
      /\ \A i \in 1..Len(delivered) : delivered[i] = start + i
  BY DEF IInv, PlaceInv, Yield
<1>3. /\ q.count \in Nat /\ q = SteadyPage(q.count, q.largest)
      /\ pattern \in Offset => q.largest = q.count
      /\ at + q.count <= records
      /\ at < records => q.count > 0
      /\ provider = "silent" => q.count = Lesser(limit, Left)
  BY <1>2, SteadyWithin DEF IInv, Kept
<1>4. delivered' = delivered \o [i \in 1..q.count |-> start + Len(delivered) + i]
  BY <1>2 DEF Yield, Kept
<1>5. /\ delivered' \in Seq(Nat) /\ Len(delivered') = Len(delivered) + q.count
      /\ \A i \in 1..Len(delivered') : delivered'[i] = start + i
  BY <1>1, <1>2, <1>3, <1>4, Appended
<1>6. QED
  BY <1>1, <1>2, <1>3, <1>5

\* Where a page of a steady provider leads the loop.
LEMMA SteadyAdvance ==
    ASSUME IInv, Kept, Advance
    PROVE  at' = start + Len(delivered) /\ at' <= records
           /\ (provider = "steady" => at' < records)
<1>1. /\ at + page.count = start + Len(delivered) /\ at + page.count <= records
      /\ page = SteadyPage(page.count, page.largest) /\ page.count \in Nat
      /\ pattern \in Offset => page.largest = page.count
      /\ at \in Nat /\ records \in Nat /\ start \in Nat /\ Len(delivered) \in Nat
  BY BoundsAssumption DEF IInv, PlaceInv, TypeOK, Pages, Advance
<1>3. CASE pattern \in {"cursor", "link"}
  <2>1. page.sign = "yes"
    BY <1>3 DEF Advance, GoesOn
  <2>2. page.to = at + page.count /\ at + page.count < records
    BY <1>1, <1>3, <2>1 DEF SteadyPage
  <2>3. at' = page.to
    BY <1>3 DEF Advance, NextAt, Offset
  <2>4. QED
    BY <1>1, <2>2, <2>3
<1>4. CASE pattern \in Offset
  <2>1. at' = at + page.count
    BY <1>1, <1>4 DEF Advance, NextAt
  <2>2. ASSUME provider = "steady" PROVE at + page.count < records
    <3>1. CASE pattern = "has_more"
      <4>1. page.sign = "yes"
        BY <3>1 DEF Advance, GoesOn, HasMore
      <4>2. QED
        BY <1>1, <3>1, <4>1 DEF SteadyPage
    <3>2. CASE pattern = "total"
      <4>1. page.sign = "yes" /\ page.to = records
        BY <1>1, <2>2, <3>2 DEF SteadyPage
      <4>2. QED
        BY <1>1, <3>2, <4>1 DEF Advance, GoesOn, HasMore, Offset
    <3>3. QED
      BY <1>4, <3>1, <3>2 DEF Offset
  <2>3. QED
    BY <1>1, <2>1, <2>2
<1>5. CASE pattern = "none"
  BY <1>5 DEF IInv, EndInv, Advance
<1>6. QED
  BY <1>3, <1>4, <1>5 DEF IInv, TypeOK, Patterns

\* A step keeps the types.
LEMMA TypesKeep == ASSUME IInv, Next PROVE TypeOK'
<1>0. TypeOK /\ EndInv
  BY DEF IInv
<1>1. ASSUME NEW how \in Ends, Over(how) PROVE TypeOK'
  BY <1>0, <1>1 DEF Over, setting, TypeOK
<1>2. CASE LimitReached \/ Fails \/ Raises \/ PathRaises \/ Stop \/ CrossOrigin
  BY <1>1, <1>2 DEF LimitReached, Fails, Raises, PathRaises, Stop, CrossOrigin, Ends
<1>3. CASE Request
  BY <1>0, <1>3 DEF Request, setting, TypeOK
<1>4. CASE Advance
  <2>1. at' \in Nat
    BY <1>0, <1>4 DEF Advance, NextAt, TypeOK, Pages
  <2>2. QED
    BY <1>0, <1>4, <2>1 DEF Advance, setting, TypeOK
<1>5. ASSUME NEW q \in IF provider = "any" THEN AnyPages ELSE SteadyPages, Yield(q)
      PROVE  TypeOK'
  <2>1. q \in Pages
    BY <1>0, <1>5, AnyTypes, SteadyWithin
  <2>2. delivered' \in Seq(Nat)
    <3>1. q.count \in Nat /\ at \in Nat /\ delivered \in Seq(Nat)
      BY <1>0, <2>1 DEF TypeOK, Pages
    <3>2. [i \in 1..q.count |-> at + i] \in Seq(Nat)
      BY <3>1
    <3>3. \/ delivered' = delivered
          \/ delivered' = delivered \o [i \in 1..q.count |-> at + i]
      BY <1>5 DEF Yield
    <3> DEFINE more == [i \in 1..q.count |-> at + i]
    <3>4. delivered \o more \in Seq(Nat)
      <4> HIDE DEF more
      <4>1. more \in Seq(Nat)
        BY <3>2 DEF more
      <4>2. QED
        BY <3>1, <4>1
    <3>5. QED
      BY <3>1, <3>3, <3>4
  <2>3. pages' \in 0..maxPages
    BY <1>0, <1>5 DEF Yield, TypeOK, IInv, CountInv
  <2>4. QED
    BY <1>0, <1>5, <2>1, <2>2, <2>3 DEF Yield, setting, TypeOK, Ends
<1>6. QED
  BY <1>2, <1>3, <1>4, <1>5 DEF Next

\* A step keeps the loop at its place in the list.
LEMMA PlaceKeeps == ASSUME IInv, Next PROVE PlaceInv'
<1>0. UNCHANGED setting
  BY DEF Next, LimitReached, Request, Fails, Raises, PathRaises, Stop,
         CrossOrigin, Advance, Yield, Over
<1>1. SUFFICES ASSUME Kept, Kept' PROVE PlaceInv'
  BY <1>0 DEF PlaceInv, setting, Kept, Countable
<1>2. /\ \A i \in 1..Len(delivered) : delivered[i] = start + i
      /\ pc \in {"top", "sent"} => at = start + Len(delivered) /\ at <= records
      /\ pc = "yielded" => start + Len(delivered) <= records
      /\ pc \in {"top", "sent", "yielded", "over"}
      /\ start \in Nat /\ records \in Nat /\ Len(delivered) \in Nat
  BY <1>1, BoundsAssumption DEF IInv, TypeOK, PlaceInv
<1>3. ASSUME NEW how, Over(how), pc # "over" PROVE PlaceInv'
  BY <1>2, <1>3 DEF Over, setting, PlaceInv
<1>4. CASE LimitReached \/ Fails \/ Raises \/ PathRaises \/ Stop \/ CrossOrigin
  BY <1>3, <1>4 DEF LimitReached, Fails, Raises, PathRaises, Stop, CrossOrigin
<1>5. CASE Request
  BY <1>2, <1>5 DEF Request, setting, PlaceInv
<1>6. CASE Advance
  <2>1. at' = start + Len(delivered) /\ at' <= records
    BY <1>1, <1>6, SteadyAdvance
  <2>2. QED
    BY <1>2, <1>6, <2>1 DEF Advance, setting, PlaceInv
<1>7. ASSUME NEW q \in SteadyPages, Yield(q) PROVE PlaceInv'
  <2>1. /\ at + q.count <= records /\ q = SteadyPage(q.count, q.largest)
        /\ pattern \in Offset => q.largest = q.count
        /\ at < records => q.count > 0
        /\ provider = "silent" => q.count = Lesser(limit, Left)
        /\ Len(delivered') = Len(delivered) + q.count
        /\ \A i \in 1..Len(delivered') : delivered'[i] = start + i
        /\ at = start + Len(delivered) /\ q.count \in Nat
    BY <1>1, <1>7, SteadyYield
  <2>2. /\ page' = q /\ at' = at /\ start' = start /\ records' = records
        /\ limit' = limit /\ pattern' = pattern /\ provider' = provider
        /\ pc' \in {"yielded", "over"}
    BY <1>7 DEF Yield, setting
  <2>3. (page = SteadyPage(page.count, page.largest))'
    BY <1>1, <2>1, <2>2 DEF SteadyPage
  <2>4. (provider = "silent" => page.count = Lesser(limit, Left))'
    BY <1>1, <2>1, <2>2 DEF Lesser, Left
  <2>5. at' + page'.count = start' + Len(delivered') /\ at' + page'.count <= records'
    BY <1>2, <2>1, <2>2
  <2>6. QED
    BY <1>1, <1>2, <2>1, <2>2, <2>3, <2>4, <2>5 DEF PlaceInv
<1>8. QED
  BY <1>1, <1>4, <1>5, <1>6, <1>7 DEF Next, Kept

\* The loop starts at its place.
LEMMA InitHolds == ASSUME Init PROVE IInv
<1>2. TypeOK
  <2>1. start \in 0..records /\ at \in Nat
    BY BoundsAssumption DEF Init
  <2>2. page \in Pages /\ pages \in 0..maxPages /\ delivered \in Seq(Nat)
    BY BoundsAssumption DEF Init, NoPage, Pages
  <2>3. QED
    BY <2>1, <2>2 DEF Init, TypeOK, Ends
<1>3. EndInv /\ CountInv /\ MoreInv
  BY DEF Init, EndInv, CountInv, MoreInv
<1>4. PlaceInv
  BY <1>2, BoundsAssumption DEF Init, PlaceInv, TypeOK
<1>5. QED
  BY <1>2, <1>3, <1>4 DEF IInv

\* IInv is an invariant of the loop, for every list, limit and max_pages.
THEOREM Inductive == Spec => []IInv
<1>1. Init => IInv
  BY InitHolds
<1>2. IInv /\ [Next]_vars => IInv'
  <2>1. SUFFICES ASSUME IInv, [Next]_vars PROVE IInv'
    OBVIOUS
  <2>2. CASE Next
    <3>1. TypeOK' /\ PlaceInv'
      BY <2>1, <2>2, TypesKeep, PlaceKeeps
    <3>2. EndInv' /\ CountInv'
      BY <2>1, <2>2 DEF IInv, TypeOK, EndInv, CountInv, Next, LimitReached, Request, Fails,
         Raises, PathRaises, Stop, CrossOrigin, Advance, Yield, Over, setting, Exhausted
    <3>3. MoreInv'
      <4>1. CASE Advance
        BY <2>1, <4>1, SteadyAdvance DEF Advance, setting, MoreInv, Kept, Countable
      <4>2. CASE ~Advance
        BY <2>1, <2>2, <4>2 DEF MoreInv, Next, LimitReached, Request, Fails,
           Raises, PathRaises, Stop, CrossOrigin, Yield, Over
      <4>3. QED
        BY <4>1, <4>2
    <3>4. QED
      BY <3>1, <3>2, <3>3 DEF IInv
  <2>3. CASE UNCHANGED vars
    BY <2>1, <2>3 DEF vars, setting, IInv, TypeOK, EndInv, CountInv, PlaceInv, MoreInv,
       Kept, Countable, SteadyPage, Left
  <2>4. QED
    BY <2>1, <2>2, <2>3
<1>3. QED
  BY <1>1, <1>2, PTL DEF Spec

\* Every reachable state is well typed.
THEOREM TypeCorrect == Spec => []TypeOK
<1>1. IInv => TypeOK
  BY DEF IInv
<1>2. QED
  BY <1>1, Inductive, PTL

\* The pages that are left, and the steps until the next one.
Rank ==
    3 * (maxPages - pages)
    + (IF pc = "yielded" THEN 3 ELSE IF pc = "top" THEN 2 ELSE IF pc = "sent" THEN 1 ELSE 0)

\* What LoopEnds rests on: each step of the loop lowers a number that max_pages
\* bounds, whatever the provider answers.
THEOREM EveryStepUsesUp ==
    Spec => [](Rank \in 0..(3 * MaxMaxPages + 3)) /\ [][Rank' < Rank]_vars
<1>1. IInv => Rank \in 0..(3 * MaxMaxPages + 3)
  BY BoundsAssumption DEF IInv, TypeOK, Rank
<1>2. IInv /\ IInv' /\ [Next]_vars => [Rank' < Rank]_vars
  <2> SUFFICES ASSUME IInv, IInv', Next PROVE Rank' < Rank
    OBVIOUS
  <2>1. /\ maxPages \in Nat /\ pages \in Nat /\ pages <= maxPages /\ pages' <= maxPages'
        /\ pages' \in Nat /\ maxPages' = maxPages
    BY BoundsAssumption
    DEF IInv, TypeOK, Next, LimitReached, Request, Fails, Raises, PathRaises, Stop,
        CrossOrigin, Advance, Yield, Over, setting
  <2>2. CASE LimitReached \/ Fails \/ Raises \/ PathRaises \/ Stop \/ CrossOrigin
    <3>1. pc \in {"top", "sent", "yielded"} /\ pc' = "over" /\ pages' = pages
      BY <2>2 DEF LimitReached, Fails, Raises, PathRaises, Stop, CrossOrigin, Over
    <3>2. QED
      BY <2>1, <3>1 DEF Rank
  <2>3. CASE Request \/ Advance
    <3>1. /\ pages' = pages
          /\ (pc = "top" /\ pc' = "sent") \/ (pc = "yielded" /\ pc' = "top")
      BY <2>3 DEF Request, Advance
    <3>2. QED
      BY <2>1, <3>1 DEF Rank
  <2>4. ASSUME NEW q, Yield(q) PROVE Rank' < Rank
    <3>1. Rank = 3 * (maxPages - pages) + 1
      BY <2>4 DEF Yield, Rank
    <3>2. CASE pattern = "none"
      <4>1. Rank' = 3 * (maxPages - pages)
        BY <2>1, <2>4, <3>2 DEF Yield, Rank
      <4>2. QED
        BY <2>1, <3>1, <4>1
    <3>3. CASE pattern # "none"
      <4>1. pages' = pages + 1 /\ Rank' = 3 * (maxPages - pages') + 3
        BY <2>1, <2>4, <3>3 DEF Yield, Rank
      <4>2. QED
        BY <2>1, <3>1, <4>1
    <3>4. QED
      BY <3>2, <3>3
  <2>5. QED
    BY <2>2, <2>3, <2>4 DEF Next
<1>3. QED
  BY <1>1, <1>2, Inductive, PTL DEF Spec

\* Two requests in a row never carry the same cursor.
THEOREM CursorAdvances == Spec => CursorMovesOn
<1>1. [Next]_vars => [(pattern = "cursor" /\ pc = "yielded" /\ pc' = "top") => at' # at]_vars
  <2>1. SUFFICES ASSUME Next, pattern = "cursor", pc = "yielded", pc' = "top"
                 PROVE  at' # at
    BY DEF vars
  <2>2. Advance
    BY <2>1 DEF Next, LimitReached, Request, Fails, Raises, PathRaises, Stop, CrossOrigin,
       Yield, Over
  <2>3. QED
    BY <2>1, <2>2 DEF Advance, GoesOn, NextAt, Offset
<1>2. QED
  BY <1>1, PTL DEF Spec, CursorMovesOn

\* The records from the caller's starting point, as the abstract reading has them.
FromStart == [i \in 1..(records - start) |-> start + i]

\* What has been delivered is the beginning of the list.
LEMMA DeliveredIsBeginning ==
    ASSUME IInv, Kept
    PROVE  /\ Len(FromStart) = records - start
           /\ Len(delivered) \in 0..Len(FromStart)
           /\ delivered = [i \in 1..Len(delivered) |-> FromStart[i]]
<1>1. /\ records \in Nat /\ start \in Nat /\ start <= records /\ delivered \in Seq(Nat)
  BY BoundsAssumption DEF IInv, TypeOK
<1>2. Len(FromStart) = records - start
  BY <1>1 DEF FromStart
<1>3. Len(delivered) \in Nat /\ start + Len(delivered) <= records
      /\ \A i \in 1..Len(delivered) : delivered[i] = start + i
  BY <1>1 DEF IInv, PlaceInv, TypeOK
<1>4. \A i \in 1..Len(delivered) : FromStart[i] = delivered[i]
  BY <1>1, <1>3 DEF FromStart
<1>5. delivered = [i \in 1..Len(delivered) |-> delivered[i]]
  BY <1>1
<1>6. delivered = [i \in 1..Len(delivered) |-> FromStart[i]]
  BY <1>4, <1>5
<1>7. QED
  BY <1>1, <1>2, <1>3, <1>6

\* The same after a step.
LEMMA DeliveredPrimed ==
    ASSUME IInv', Kept'
    PROVE  (/\ Len(delivered) \in 0..Len(FromStart)
            /\ delivered = [i \in 1..Len(delivered) |-> FromStart[i]])'
BY DeliveredIsBeginning, PTL

\* A quiet end comes only after the last record.
LEMMA EndIsComplete ==
    ASSUME IInv, Stop, Kept
    PROVE  Len(delivered) = records - start
<1>1. /\ at + page.count = start + Len(delivered) /\ at + page.count <= records
      /\ page = SteadyPage(page.count, page.largest) /\ page.count \in Nat
      /\ pattern \in Offset => page.largest = page.count
      /\ provider = "silent" => page.count = Lesser(limit, Left)
      /\ at \in Nat /\ records \in Nat /\ start \in Nat /\ Len(delivered) \in Nat
      /\ limit \in Nat
  BY BoundsAssumption DEF IInv, PlaceInv, TypeOK, Pages, Stop
<1>2. SUFFICES at + page.count >= records
  BY <1>1
<1>3. CASE pattern \in {"cursor", "link"}
  <2>1. SUFFICES ASSUME at + page.count < records PROVE FALSE
    BY <1>1
  <2>2. page.sign = "yes" /\ page.to = at + page.count
    BY <1>1, <1>3, <2>1 DEF SteadyPage
  <2>3. page.to = at
    BY <1>3, <2>2 DEF Stop, GoesOn, Readable
  <2>4. page.count > 0
    BY <1>1, <2>1 DEF IInv, PlaceInv, Stop
  <2>5. QED
    BY <1>1, <2>2, <2>3, <2>4
<1>4. CASE pattern = "has_more"
  <2>1. page.sign # "yes"
    BY <1>4 DEF Stop, GoesOn, HasMore
  <2>2. ~(at + page.count < records)
    BY <1>1, <1>4, <2>1 DEF SteadyPage
  <2>3. QED
    BY <1>1, <2>2
<1>5. CASE pattern = "total" /\ provider = "steady"
  <2>1. page.sign = "yes" /\ page.to = records
    BY <1>1, <1>5 DEF SteadyPage
  <2>2. QED
    BY <1>1, <1>5, <2>1 DEF Stop, GoesOn, HasMore, Offset
<1>6. CASE pattern = "total" /\ provider = "silent"
  <2>1. page.sign = "none"
    BY <1>1, <1>6 DEF SteadyPage
  <2>2. page.count < limit
    BY <1>1, <1>6, <2>1 DEF Stop, GoesOn, HasMore, Offset
  <2>3. at <= records /\ page.count = Lesser(limit, records - at)
    BY <1>1, <1>6 DEF Left
  <2>4. page.count = records - at
    BY <1>1, <2>2, <2>3 DEF Lesser
  <2>5. QED
    BY <1>1, <2>4
<1>7. CASE pattern = "none"
  BY <1>7 DEF IInv, EndInv, Stop
<1>8. QED
  BY <1>3, <1>4, <1>5, <1>6, <1>7 DEF IInv, TypeOK, Patterns, Offset, Kept

\* Every step of the loop is a step of the abstract reading, or none.
LEMMA StepReads == ASSUME IInv, IInv', [Next]_vars PROVE [Reading!Next]_(Reading!vars)
<1> DEFINE n == Len(delivered)
<1> DEFINE promised == provider # "any" /\ pattern # "none" /\ Countable
<1>1. CASE UNCHANGED vars
  BY <1>1 DEF vars, setting, Countable, Reading!vars
<1>2. CASE Next
  <2>1. UNCHANGED setting
    BY <1>2 DEF Next, LimitReached, Request, Fails, Raises, PathRaises, Stop,
       CrossOrigin, Advance, Yield, Over
  <2>2. UNCHANGED <<FromStart, promised, provider = "steady" /\ maxPages > 0, Kept>>
    BY <2>1 DEF setting, FromStart, Countable, Kept
  <2>3. ASSUME promised
        PROVE  /\ Kept /\ Kept' /\ Len(FromStart) = records - start
               /\ n \in 0..Len(FromStart) /\ delivered = Reading!Upto(n)
    <3>1. Kept /\ Kept'
      BY <2>2, <2>3 DEF Kept
    <3>2. QED
      BY <3>1, DeliveredIsBeginning DEF Reading!Upto, FromStart
  <2>4. ASSUME NEW how \in Ends, Over(how), pc # "over",
               promised /\ how = "end" => n = records - start,
               promised /\ provider = "steady" /\ maxPages > 0 /\ how = "limit"
                  => n < records - start
        PROVE  Reading!Next
    <3>1. ended = "no" /\ ended' = how /\ delivered' = delivered
      BY <2>4 DEF IInv, EndInv, Over
    <3>2. ASSUME promised PROVE \E m \in 0..Len(FromStart) : Reading!ReadSteadily(m, how)
      <4>1. n >= Len(delivered) /\ delivered' = Reading!Upto(n)
        BY <2>3, <3>1, <3>2 DEF IInv, TypeOK
      <4>2. Reading!ReadSteadily(n, how)
        BY <2>3, <2>4, <3>2, <4>1 DEF Reading!ReadSteadily, FromStart
      <4>3. QED
        BY <2>3, <3>2, <4>2
    <3>3. Reading!Read(how)
      BY <2>2, <3>1, <3>2 DEF Reading!Read, FromStart
    <3>4. QED
      BY <3>3 DEF Reading!Next, Reading!Ends, Ends
  <2>5. CASE Fails \/ Raises \/ PathRaises \/ CrossOrigin
    BY <2>4, <2>5 DEF Fails, Raises, PathRaises, CrossOrigin, Ends
  <2>6. CASE Stop
    BY <2>4, <2>6, EndIsComplete DEF Stop, Ends, Kept
  <2>7. CASE LimitReached
    <3>1. ASSUME promised, provider = "steady", maxPages > 0 PROVE n < records - start
      <4>1. pc = "top" /\ pages > 0
        BY <2>7, <3>1 DEF LimitReached, Exhausted, IInv, TypeOK
      <4>2. at < records /\ at = start + n
        BY <3>1, <4>1 DEF IInv, MoreInv, PlaceInv, Kept
      <4>3. QED
        BY <4>2, BoundsAssumption DEF IInv, TypeOK
    <3>2. QED
      BY <2>4, <2>7, <3>1 DEF LimitReached, Ends
  <2>8. CASE Request \/ Advance
    BY <2>2, <2>8 DEF Request, Advance, FromStart, Reading!vars
  <2>9. ASSUME NEW q \in IF provider = "any" THEN AnyPages ELSE SteadyPages, Yield(q)
        PROVE  Reading!Next
    <3> DEFINE m == Len(delivered')
    <3>1. /\ ended = "no" /\ ended' \in {"no", "end"}
          /\ ended' = "end" => pattern = "none"
      BY <2>9 DEF Yield, IInv, EndInv
    <3>2. ASSUME promised
          PROVE  \E k \in 0..Len(FromStart) : Reading!ReadSteadily(k, ended')
      <4>1. m \in 0..Len(FromStart) /\ delivered' = Reading!Upto(m)
        BY <2>2, <2>3, <3>2, DeliveredPrimed DEF Reading!Upto, FromStart
      <4>2. m >= n
        BY <2>3, <2>9, <3>2, SteadyYield
      <4>3. Reading!ReadSteadily(m, ended')
        BY <3>1, <3>2, <4>1, <4>2 DEF Reading!ReadSteadily, FromStart
      <4>4. QED
        BY <4>1, <4>3
    <3>3. Reading!Read(ended')
      BY <2>2, <3>1, <3>2 DEF Reading!Read, FromStart
    <3>4. QED
      BY <3>1, <3>3 DEF Reading!Next, Reading!Ends
  <2>10. QED
    BY <1>2, <2>5, <2>6, <2>7, <2>8, <2>9 DEF Next
<1>3. QED
  BY <1>1, <1>2

\* Where _page_size counts the list (or the pattern does not ask for it), the loop
\* implements what PageReading promises: in order, nothing twice, nothing left out
\* before a quiet end.
THEOREM LoopImplementsReading == Spec => ImplementsReading
<1>1. Init => Reading!Init
  <2>1. SUFFICES ASSUME Init PROVE Reading!Init
    OBVIOUS
  <2>2. FromStart \in Seq(Nat)
    <3>1. records \in Nat /\ start \in Nat /\ start <= records
      BY <2>1, InitHolds, BoundsAssumption DEF IInv, TypeOK
    <3>2. QED
      BY <3>1 DEF FromStart
  <2>3. QED
    BY <2>1, <2>2 DEF Init, Reading!Init, FromStart
<1>2. QED
  BY <1>1, StepReads, Inductive, PTL DEF Spec, Reading!Spec, ImplementsReading
=============================================================================
