---------------------------- MODULE ThreadProofs ----------------------------
(***************************************************************************)
(* What a thread's log and its readers keep for any number of sessions,     *)
(* clears, drops and restarts and for every page size: the log is gapless   *)
(* and unbroken (LogInv), a removed member sees at most one frame more      *)
(* (ServerInv), and the stream implements the abstract reader of ThreadLog  *)
(* (ReaderInv).                                                             *)
(***************************************************************************)
EXTENDS ThreadStream, FiniteSetTheorems, SequenceTheorems, WellFoundedInduction, TLAPS

-----------------------------------------------------------------------------
(* Counting *)

\* Every set of naturals that is not empty has a least element.
LEMMA LeastElement ==
    ASSUME NEW S \in SUBSET Nat, S # {}
    PROVE  \E n \in S : \A m \in S : n <= m
<1>1. PICK n \in S : \A m \in S : ~(<<m, n>> \in OpToRel(<, Nat))
  BY NatLessThanWellFounded, WFMin
<1>2. \A m \in S : ~(m < n)
  BY <1>1 DEF OpToRel
<1> QED
  BY <1>2

\* A bounded set of positions has an element with n of them up to it, for each n up to
\* its size (the row that `order by seq limit n` ends with).
LEMMA NthElement ==
    ASSUME NEW M \in Nat, NEW S \in SUBSET (1 .. M), NEW n \in 1 .. Cardinality(S)
    PROVE  \E q \in S : Cardinality({r \in S : r <= q}) = n
<1> DEFINE Upto(q) == {r \in S : r <= q}
           Enough == {q \in Nat : Cardinality(Upto(q)) >= n}
<1>1. \A r \in S : r \in Nat /\ 1 <= r /\ r <= M
  OBVIOUS
<1>2. IsFiniteSet(S)
  <2>1. IsFiniteSet(1 .. M)
    BY FS_Interval
  <2> QED
    BY <2>1, FS_Subset
<1>3. \A q \in Nat : IsFiniteSet(Upto(q)) /\ Cardinality(Upto(q)) \in Nat
  <2> TAKE q \in Nat
  <2>1. Upto(q) \in SUBSET S
    OBVIOUS
  <2>2. IsFiniteSet(Upto(q))
    BY <1>2, <2>1, FS_Subset
  <2> QED
    BY <2>2, FS_CardinalityType
<1>4. M \in Enough
  <2>1. Upto(M) = S
    BY <1>1
  <2>2. Cardinality(S) \in Nat
    BY <1>2, FS_CardinalityType
  <2> QED
    BY <2>1, <2>2
<1>5. 0 \notin Enough
  <2>1. Upto(0) = {}
    <3>1. \A r \in S : ~(r <= 0)
      BY <1>1
    <3> QED
      BY <3>1
  <2>2. Cardinality(Upto(0)) = 0
    BY <2>1, FS_EmptySet
  <2> QED
    BY <2>2
<1>6. Enough \in SUBSET Nat
  OBVIOUS
<1>7. PICK q \in Enough : \A m \in Enough : q <= m
  <2> HIDE DEF Enough
  <2> QED
    BY <1>4, <1>6, LeastElement
<1>8. q \in Nat /\ q - 1 \in Nat /\ q - 1 \notin Enough
  <2> HIDE DEF Enough
  <2> QED
    BY <1>5, <1>6, <1>7
<1>9. Cardinality(Upto(q - 1)) < n /\ Cardinality(Upto(q)) >= n
  <2>1. Cardinality(Upto(q)) >= n
    BY <1>7
  <2>2. ~(Cardinality(Upto(q - 1)) >= n)
    BY <1>8
  <2> HIDE DEF Upto, Enough
  <2> QED
    BY <2>1, <2>2, <1>3, <1>8
<1>10. q \in S
  <2>1. q \notin S => Upto(q) = Upto(q - 1)
    <3>1. q \notin S => \A r \in S : r <= q <=> r <= q - 1
      BY <1>1, <1>8
    <3> QED
      BY <3>1
  <2> HIDE DEF Upto, Enough
  <2> QED
    BY <2>1, <1>3, <1>8, <1>9
<1>11. Upto(q) = Upto(q - 1) \cup {q} /\ q \notin Upto(q - 1)
  <2>1. \A r \in S : r <= q <=> (r <= q - 1 \/ r = q)
    BY <1>1, <1>8
  <2>2. ~(q <= q - 1)
    BY <1>8
  <2> QED
    BY <2>1, <2>2, <1>10
<1> HIDE DEF Upto, Enough
<1>12. Cardinality(Upto(q)) = Cardinality(Upto(q - 1)) + 1
  BY <1>3, <1>8, <1>11, FS_AddElement
<1>13. Cardinality(Upto(q)) = n
  BY <1>3, <1>8, <1>9, <1>12
<1> QED
  BY <1>10, <1>13 DEF Upto
-----------------------------------------------------------------------------
(* The log *)

\* A row appended at the position a live session holds keeps the log gapless and every
\* session's rows together (run-event-sink.ts: append).
LEMMA AppendKeepsLog ==
    ASSUME LogInv, NEW s \in Sessions, AppendRow(s)
    PROVE  LogInv'
<1> DEFINE here == nextSeq[s]
<1>1. LogTypeOK /\ MaxSeq \in Nat /\ "none" \notin Sessions
  BY LogAssumption DEF LogInv
<1>2. /\ session[s] = "live" /\ here \in Positions /\ rows[here] = "none"
      /\ rows' = [rows EXCEPT ![here] = s]
      /\ nextSeq' = [nextSeq EXCEPT ![s] = here + 1]
      /\ counter' = IF here >= counter THEN here + 1 ELSE counter
      /\ UNCHANGED <<session, clears, torn>>
  BY DEF AppendRow
<1>3. /\ here \in Nat /\ 1 <= here /\ here <= MaxSeq /\ counter \in Nat /\ counter <= MaxSeq + 1
      /\ rows \in [Positions -> Sessions \cup {"none"}]
      /\ nextSeq \in [Sessions -> 1 .. (MaxSeq + 1)]
  BY <1>1, <1>2 DEF LogTypeOK, Positions
<1>4. /\ rows'[here] = s /\ \A p \in Positions : p # here => rows'[p] = rows[p]
      /\ nextSeq'[s] = here + 1 /\ \A t \in Sessions : t # s => nextSeq'[t] = nextSeq[t]
  BY <1>2, <1>3
<1>5. LogTypeOK'
  <2>1. rows' \in [Positions -> Sessions \cup {"none"}]
    BY <1>2, <1>3
  <2>3. here + 1 \in 1 .. (MaxSeq + 1)
    BY <1>1, <1>3
  <2>4. nextSeq' \in [Sessions -> 1 .. (MaxSeq + 1)]
    BY <1>2, <1>3, <2>3
  <2>2. counter' \in 0 .. (MaxSeq + 1)
    BY <1>1, <1>2, <1>3
  <2> QED
    BY <1>1, <1>2, <2>1, <2>2, <2>4 DEF LogTypeOK, Positions
<1> HIDE DEF here
<1>6. Gapless' /\ (~torn => counter' = here + 1)
  <2> SUFFICES ASSUME ~torn
               PROVE  /\ \A p \in Positions : rows'[p] # "none" <=> p < counter'
                      /\ counter' = here + 1
    BY <1>2 DEF Gapless, Positions
  <2>1. \A p \in Positions : rows[p] # "none" <=> p < counter
    BY DEF LogInv, Gapless
  <2>2. here <= counter \/ (counter = 0 /\ here = 1)
    BY <1>2 DEF LogInv, here
  <2>3. here = counter \/ (counter = 0 /\ here = 1)
    BY <2>1, <2>2, <1>2, <1>3
  <2>4. counter' = here + 1
    BY <2>3, <1>2, <1>3
  <2>5. \A p \in Positions : p < counter' <=> (p = here \/ p < counter)
    BY <2>3, <2>4, <1>1, <1>3 DEF Positions
  <2> QED
    BY <2>1, <2>4, <2>5, <1>1, <1>4
<1>7. \A t \in Sessions : session'[t] = "idle" => \A p \in Positions : rows'[p] # t
  BY <1>2, <1>4 DEF LogInv
<1>8. \A t \in Sessions : \A p \in Positions : rows'[p] = t => p < nextSeq'[t]
  <2>1. \A t \in Sessions : \A p \in Positions : rows[p] = t => p < nextSeq[t]
    BY DEF LogInv
  <2>2. \A p \in Positions : p \in Int
    BY DEF Positions
  <2> QED
    BY <2>1, <2>2, <1>3, <1>4 DEF here
<1>9. ASSUME NEW t \in Sessions, NEW p \in Positions, NEW q \in Positions,
             rows'[p] = t, p < q, q < nextSeq'[t]
      PROVE  rows'[q] = t
  <2>1. p \in Int /\ q \in Int
    BY DEF Positions
  <2>2. \A u \in Sessions : \A a, b \in Positions :
          rows[a] = u /\ a < b /\ b < nextSeq[u] => rows[b] = u
    BY DEF LogInv
  <2>3. CASE t = s
    <3>1. p # here
      BY <2>1, <2>3, <1>3, <1>4, <1>9
    <3>2. rows[p] = s
      BY <3>1, <2>3, <1>4, <1>9
    <3>3. q = here \/ q < here
      BY <2>1, <2>3, <1>3, <1>4, <1>9
    <3> QED
      BY <2>1, <2>2, <2>3, <3>2, <3>3, <1>4, <1>9 DEF here
  <2>4. CASE t # s
    <3>1. p # here /\ nextSeq'[t] = nextSeq[t]
      BY <2>4, <1>4, <1>9
    <3>2. rows[p] = t /\ rows[q] = t
      BY <3>1, <2>2, <1>4, <1>9
    <3>3. q # here
      BY <3>2, <1>1, <1>2
    <3> QED
      BY <3>2, <3>3, <1>4
  <2> QED
    BY <2>3, <2>4
<1>10. ASSUME ~torn', NEW t \in Sessions, session'[t] = "live"
       PROVE  nextSeq'[t] <= counter' \/ (counter' = 0 /\ nextSeq'[t] = 1)
  <2>1. ~torn /\ session[t] = "live" /\ counter' = here + 1
    BY <1>2, <1>6, <1>10
  <2>2. nextSeq[t] <= counter \/ (counter = 0 /\ nextSeq[t] = 1)
    BY <2>1 DEF LogInv
  <2>3. CASE t = s
    BY <2>1, <2>3, <1>3, <1>4
  <2>4. CASE t # s
    <3>1. nextSeq'[t] = nextSeq[t] /\ nextSeq[t] \in Int
      BY <2>4, <1>3, <1>4
    <3>2. counter <= here + 1
      BY <2>1, <1>2, <1>3
    <3> QED
      BY <2>1, <2>2, <3>1, <3>2, <1>3
  <2> QED
    BY <2>3, <2>4
<1>11. clears' = 0 => ~torn'
  BY <1>2 DEF LogInv
<1> QED
  BY <1>5, <1>6, <1>7, <1>8, <1>9, <1>10, <1>11 DEF LogInv, Positions

\* A session that starts takes the end of the log (createLiveRunWork's startSeq).
LEMMA StartKeepsLog ==
    ASSUME LogInv, NEW s \in Sessions, StartSession(s)
    PROVE  LogInv'
<1> DEFINE here == IF counter = 0 THEN 1 ELSE counter
<1>1. LogTypeOK /\ MaxSeq \in Nat
  BY LogAssumption DEF LogInv
<1>2. /\ session[s] = "idle" /\ session' = [session EXCEPT ![s] = "live"]
      /\ nextSeq' = [nextSeq EXCEPT ![s] = here] /\ UNCHANGED <<rows, counter, clears, torn>>
  BY DEF StartSession
<1>3. /\ here \in 1 .. (MaxSeq + 1) /\ counter \in Nat
      /\ session \in [Sessions -> Phases] /\ nextSeq \in [Sessions -> 1 .. (MaxSeq + 1)]
  BY <1>1 DEF LogTypeOK
<1>4. /\ nextSeq'[s] = here /\ session'[s] = "live"
      /\ \A t \in Sessions : t # s => nextSeq'[t] = nextSeq[t] /\ session'[t] = session[t]
  BY <1>2, <1>3
<1>5. LogTypeOK'
  <2>1. nextSeq' \in [Sessions -> 1 .. (MaxSeq + 1)]
    BY <1>2, <1>3
  <2>2. session' \in [Sessions -> Phases]
    BY <1>2, <1>3 DEF Phases
  <2> QED
    BY <1>1, <1>2, <2>1, <2>2 DEF LogTypeOK, Positions
<1>6. \A p \in Positions : rows[p] # s
  BY <1>2 DEF LogInv
<1>7. Gapless' /\ (clears' = 0 => ~torn')
  BY <1>2 DEF LogInv, Gapless, Positions
<1>8. /\ \A t \in Sessions : session'[t] = "idle" => \A p \in Positions : rows'[p] # t
      /\ \A t \in Sessions : \A p \in Positions : rows'[p] = t => p < nextSeq'[t]
      /\ \A t \in Sessions : \A p, q \in Positions :
           rows'[p] = t /\ p < q /\ q < nextSeq'[t] => rows'[q] = t
  BY <1>2, <1>4, <1>6 DEF LogInv
<1>9. ~torn' => \A t \in Sessions :
        session'[t] = "live" => nextSeq'[t] <= counter' \/ (counter' = 0 /\ nextSeq'[t] = 1)
  BY <1>2, <1>3, <1>4 DEF LogInv
<1> QED
  BY <1>5, <1>7, <1>8, <1>9 DEF LogInv, Positions

\* A session that is refused or ends writes nothing more.
LEMMA EndKeepsLog ==
    ASSUME LogInv, NEW s \in Sessions, AppendRefused(s) \/ EndSession(s)
    PROVE  LogInv'
<1>1. PICK phase \in {"failed", "ended"} :
        session' = [session EXCEPT ![s] = phase] /\ UNCHANGED <<rows, counter, nextSeq, clears, torn>>
  BY DEF AppendRefused, EndSession
<1>2. session \in [Sessions -> Phases] /\ LogTypeOK
  BY DEF LogInv, LogTypeOK
<1>3. session'[s] = phase /\ \A t \in Sessions : t # s => session'[t] = session[t]
  BY <1>1, <1>2
<1>4. LogTypeOK'
  <2>1. session' \in [Sessions -> Phases]
    BY <1>1, <1>2 DEF Phases
  <2> QED
    BY <1>1, <1>2, <2>1 DEF LogTypeOK, Positions
<1>5. /\ \A t \in Sessions : session'[t] = "idle" => session[t] = "idle"
      /\ \A t \in Sessions : session'[t] = "live" => session[t] = "live"
  BY <1>3
<1> QED
  BY <1>1, <1>4, <1>5 DEF LogInv, Gapless, Positions

\* A clear empties the log; a session with a position of its own in hand tears it.
LEMMA ClearKeepsLog ==
    ASSUME LogInv, ClearThread
    PROVE  LogInv'
<1>1. LogTypeOK /\ MaxSeq \in Nat /\ MaxClears \in Nat /\ "none" \notin Sessions
  BY LogAssumption DEF LogInv
<1>2. /\ clears < MaxClears /\ clears' = clears + 1 /\ counter' = 0
      /\ rows' = [p \in Positions |-> "none"]
      /\ torn' <=> (torn \/ \E s \in Sessions : session[s] = "live" /\ nextSeq[s] > 1)
      /\ torn' \in BOOLEAN
      /\ UNCHANGED <<session, nextSeq>>
  BY <1>1 DEF ClearThread, LogTypeOK
<1>3. LogTypeOK'
  BY <1>1, <1>2 DEF LogTypeOK, Positions
<1>4. \A p \in Positions : rows'[p] = "none" /\ ~(p < 0)
  BY <1>2 DEF Positions
<1>5. clears \in Nat
  BY <1>1 DEF LogTypeOK
<1>6. ~torn' => \A t \in Sessions : session'[t] = "live" => nextSeq'[t] = 1
  BY <1>1, <1>2 DEF LogTypeOK
<1> QED
  BY <1>1, <1>2, <1>3, <1>4, <1>5, <1>6 DEF LogInv, Gapless, Positions

\* Every step of the sessions and the operator keeps the log's invariant.
LEMMA LogStep == LogInv /\ LogNext => LogInv'
  BY AppendKeepsLog, StartKeepsLog, EndKeepsLog, ClearKeepsLog DEF LogNext

LEMMA LogStays == LogInv /\ UNCHANGED logVars => LogInv'
  BY DEF LogInv, LogTypeOK, Gapless, Positions, logVars

LEMMA LogStarts == LogInit => LogInv
<1> SUFFICES ASSUME LogInit PROVE LogInv
  OBVIOUS
<1>1. \A p \in Positions : ~(p < 0)
  BY DEF Positions
<1>2. /\ rows = [p \in Positions |-> "none"] /\ counter = 0
      /\ session = [s \in Sessions |-> "idle"] /\ nextSeq = [s \in Sessions |-> 1]
      /\ clears = 0 /\ torn = FALSE /\ MaxSeq \in Nat /\ MaxClears \in Nat
      /\ "none" \notin Sessions
  BY LogAssumption DEF LogInit
<1>3. LogTypeOK
  <2>1. 1 \in 1 .. (MaxSeq + 1) /\ 0 \in 0 .. (MaxSeq + 1) /\ 0 \in 0 .. MaxClears
    BY <1>2
  <2> QED
    BY <1>2, <2>1 DEF LogTypeOK, Phases
<1>4. Gapless
  BY <1>1, <1>2 DEF Gapless
<1>5. \A s \in Sessions : \A p \in Positions : rows[p] # s
  BY <1>2
<1> QED
  BY <1>2, <1>3, <1>4, <1>5 DEF LogInv

\* A log that keeps LogInv is sound.
LEMMA LogInvIsSound == LogInv => LogIsSound
<1> SUFFICES ASSUME LogInv PROVE SessionsStandTogether
  BY DEF LogIsSound, LogInv
<1> SUFFICES ASSUME NEW s \in Sessions, NEW p \in Positions, NEW q \in Positions, NEW r \in Positions,
                    p < q, q < r, rows[p] = s, rows[r] = s
             PROVE  rows[q] = s
  BY DEF SessionsStandTogether
<1>1. r < nextSeq[s] /\ nextSeq[s] \in Int
  BY DEF LogInv, LogTypeOK
<1>2. q < nextSeq[s]
  BY <1>1 DEF Positions
<1> QED
  BY <1>2 DEF LogInv

-----------------------------------------------------------------------------
(* Pages *)

\* The written positions behind p are finitely many positions of the log.
LEMMA RowsBehind ==
    ASSUME LogTypeOK, NEW p \in Nat, NEW After, After = {q \in Written : q > p}
    PROVE  /\ After \in SUBSET (1 .. MaxSeq) /\ IsFiniteSet(After) /\ Cardinality(After) \in Nat
           /\ \A q \in After : Event(q) \in Frames
<1>1. MaxSeq \in Nat
  BY LogAssumption
<1>2. After \in SUBSET (1 .. MaxSeq)
  BY DEF Written, Positions
<1>3. IsFiniteSet(1 .. MaxSeq)
  BY <1>1, FS_Interval
<1>4. IsFiniteSet(After) /\ Cardinality(After) \in Nat
  BY <1>2, <1>3, FS_Subset, FS_CardinalityType
<1>5. \A q \in After : q \in Positions /\ rows[q] \in Sessions
  BY DEF LogTypeOK, Written
<1> QED
  BY <1>2, <1>4, <1>5 DEF Event, Frames

\* A page holds events, at most PageSize of them (event-log.ts: listAfter).
LEMMA PageIsFrames ==
    ASSUME LogTypeOK, NEW p \in Nat
    PROVE  Page(p) \in Seq(Frames) /\ Len(Page(p)) <= PageSize
<1> DEFINE After == {q \in Written : q > p}
           Nth(n) == CHOOSE q \in After : Cardinality({r \in After : r <= q}) = n
           size == IF Cardinality(After) < PageSize THEN Cardinality(After) ELSE PageSize
<1>1. MaxSeq \in Nat /\ PageSize \in Nat
  BY LogAssumption, StreamAssumption
<1>2. Page(p) = [n \in 1 .. size |-> Event(Nth(n))]
  BY DEF Page
<1>3. /\ After \in SUBSET (1 .. MaxSeq) /\ Cardinality(After) \in Nat
      /\ \A q \in After : Event(q) \in Frames
  BY RowsBehind
<1>4. size \in Nat /\ size <= PageSize /\ size <= Cardinality(After)
  BY <1>1, <1>3
<1>5. \A n \in 1 .. size : Nth(n) \in After
  <2> TAKE n \in 1 .. size
  <2>1. n \in 1 .. Cardinality(After)
    BY <1>3, <1>4
  <2> HIDE DEF After
  <2>2. After \in SUBSET (1 .. MaxSeq)
    BY <1>3
  <2>3. \E q \in After : Cardinality({r \in After : r <= q}) = n
    BY ONLY <2>1, <2>2, <1>1, NthElement
  <2> QED
    BY <2>3
<1> HIDE DEF After, Nth, size
<1>6. \A n \in 1 .. size : Event(Nth(n)) \in Frames
  BY <1>3, <1>5
<1>7. Page(p) \in [1 .. size -> Frames]
  BY <1>2, <1>6
<1> QED
  BY <1>4, <1>7

\* On a log without a gap the page behind p is the next events, one by one.
LEMMA PageIsNext ==
    ASSUME LogInv, ~torn, NEW p \in Nat, p <= LogLength
    PROVE  /\ Len(Page(p)) \in Nat /\ p + Len(Page(p)) <= LogLength
           /\ Stretch(Page(p), p)
<1> DEFINE After == {q \in Written : q > p}
           Nth(n) == CHOOSE q \in After : Cardinality({r \in After : r <= q}) = n
           size == IF Cardinality(After) < PageSize THEN Cardinality(After) ELSE PageSize
<1>1. /\ MaxSeq \in Nat /\ PageSize \in Nat /\ LogLength \in Nat /\ LogLength <= MaxSeq
      /\ LogTypeOK /\ counter \in Nat
  BY LogAssumption, StreamAssumption DEF LogInv, LogTypeOK, LogLength
<1>2. Page(p) = [n \in 1 .. size |-> Event(Nth(n))]
  BY DEF Page
<1>3. \A q \in Positions : q \in Written <=> q <= LogLength
  <2>1. \A q \in Positions : rows[q] # "none" <=> q < counter
    BY DEF LogInv, Gapless
  <2>2. \A q \in Positions : q < counter <=> q <= LogLength
    BY <1>1 DEF LogLength, Positions
  <2> QED
    BY <2>1, <2>2 DEF Written
<1>4. After = (p + 1) .. LogLength
  <2>1. \A q \in After : q \in (p + 1) .. LogLength
    BY <1>1, <1>3 DEF Written, Positions
  <2>2. \A q \in (p + 1) .. LogLength : q \in Positions /\ q > p /\ q <= LogLength
    BY <1>1 DEF Positions
  <2> QED
    BY <2>1, <2>2, <1>3
<1>5. \A q \in After : {r \in After : r <= q} = (p + 1) .. q
  <2> SUFFICES ASSUME NEW q \in (p + 1) .. LogLength
               PROVE  {r \in (p + 1) .. LogLength : r <= q} = (p + 1) .. q
    BY <1>4
  <2> QED
    BY <1>1
<1>6. \A q \in (p + 1) .. LogLength : Cardinality((p + 1) .. q) = q - p
  <2> TAKE q \in (p + 1) .. LogLength
  <2>1. p + 1 \in Int /\ q \in Int /\ ~(p + 1 > q) /\ q - (p + 1) + 1 = q - p
    BY <1>1
  <2> QED
    BY <2>1, FS_Interval
<1>7. Cardinality(After) = LogLength - p
  <2>1. CASE p = LogLength
    <3>1. (p + 1) .. LogLength = {}
      BY <1>1, <2>1
    <3> QED
      BY <1>1, <1>4, <2>1, <3>1, FS_EmptySet
  <2>2. CASE p < LogLength
    <3>1. LogLength \in (p + 1) .. LogLength
      BY <1>1, <2>2
    <3> QED
      BY <1>4, <1>6, <3>1
  <2> QED
    BY <1>1, <2>1, <2>2
<1>8. size \in Nat /\ p + size <= LogLength
  BY <1>1, <1>7
<1>9. \A n \in 1 .. size : Nth(n) = p + n
  <2> TAKE n \in 1 .. size
  <2>1. p + n \in After
    BY <1>1, <1>4, <1>8
  <2>2. \A q \in After : Cardinality({r \in After : r <= q}) = q - p
    BY <1>4, <1>5, <1>6
  <2>3. \A q \in After : q \in Int
    BY <1>4
  <2> HIDE DEF After
  <2>4. \A q \in After : Cardinality({r \in After : r <= q}) = n <=> q = p + n
    BY <2>2, <2>3
  <2> QED
    BY <2>1, <2>4
<1> HIDE DEF After, Nth, size
<1>10. Page(p) = [n \in 1 .. size |-> Event(p + n)]
  BY <1>2, <1>9
<1>11. Len(Page(p)) = size
  BY <1>8, <1>10
<1> QED
  BY <1>8, <1>10, <1>11 DEF Stretch

-----------------------------------------------------------------------------
(* The server *)

\* A frame carries a position of the log.
LEMMA FramePosition == \A f \in Frames : f[1] \in Positions /\ f[1] \in 0 .. MaxSeq
  BY LogAssumption DEF Frames, Positions

\* The API's own steps (thread-events.ts).
LEMMA ServeKeeps ==
    ASSUME LogInv, SubInv, Serve
    PROVE  SubInv'
<1>1. CASE CheckPage
  BY <1>1 DEF CheckPage, SubInv, TypeOK, Frames, Positions
<1>2. CASE ListAfter
  <2>1. lastSeq \in Nat /\ LogTypeOK
    BY DEF SubInv, TypeOK, LogInv
  <2>2. Page(lastSeq) \in Seq(Frames) /\ Len(Page(lastSeq)) <= PageSize
    BY <2>1, PageIsFrames
  <2>3. /\ batch' = Page(lastSeq) /\ server = "query" /\ server' = "frames"
        /\ UNCHANGED <<conn, cursor, key, shown, lastSeq, wire, apiKey, member, late, drops>>
    BY <1>2 DEF ListAfter
  <2>4. conn = "open"
    BY <2>3 DEF SubInv, TypeOK
  <2> QED
    BY <2>2, <2>3, <2>4 DEF SubInv, TypeOK
<1>3. CASE CheckFrame
  BY <1>3 DEF CheckFrame, SubInv, TypeOK
<1>4. CASE SendFrame
  <2>1. /\ server = "send" /\ server' = "frames"
        /\ lastSeq' = Head(batch)[1] /\ wire' = Append(wire, Head(batch)) /\ batch' = Tail(batch)
        /\ late' = IF member THEN late ELSE late + 1
        /\ UNCHANGED <<conn, cursor, key, shown, full, apiKey, member, drops>>
    BY <1>4 DEF SendFrame
  <2>2. batch \in Seq(Frames) /\ batch # <<>> /\ wire \in Seq(Frames) /\ Len(batch) <= PageSize
    BY <2>1 DEF SubInv, TypeOK
  <2>3. Head(batch) \in Frames /\ batch' \in Seq(Frames) /\ Len(batch') <= PageSize
    BY <2>1, <2>2, StreamAssumption, HeadTailProperties, LenProperties
  <2>4. wire' \in Seq(Frames) /\ lastSeq' \in 0 .. MaxSeq
    BY <2>1, <2>2, <2>3, AppendProperties, FramePosition
  <2>5. late' \in {0, 1} /\ (late' = 1 => ~member)
    BY <2>1 DEF SubInv, TypeOK
  <2> QED
    BY <2>1, <2>3, <2>4, <2>5 DEF SubInv, TypeOK
<1>5. CASE EndPage
  BY <1>5 DEF EndPage, SubInv, TypeOK
<1>6. CASE Wake
  BY <1>6 DEF Wake, SubInv, TypeOK
<1> QED
  BY <1>1, <1>2, <1>3, <1>4, <1>5, <1>6 DEF Serve

\* A lost connection takes the page and the wire with it (stream.ts).
LEMMA DisconnectKeeps ==
    ASSUME SubInv, conn = "open", Disconnect, apiKey' \in 0 .. MaxRestarts, drops' \in 0 .. MaxDrops
    PROVE  SubInv'
<1>1. <<>> \in Seq(Frames) /\ Len(<<>>) <= PageSize
  BY StreamAssumption, EmptySeq
<1> QED
  BY <1>1 DEF Disconnect, SubInv, TypeOK

\* The client's steps, the losses and the operator's.
LEMMA FollowKeeps ==
    ASSUME SubInv, Follow \/ Drop \/ RestartApi \/ Reload \/ Revoke
    PROVE  SubInv'
<1>1. CASE Subscribe
  BY <1>1 DEF Subscribe, SubInv, TypeOK
<1>2. CASE Receive
  <2>1. /\ conn = "open" /\ wire # <<>>
        /\ cursor' = Head(wire)[1] /\ key' = apiKey
        /\ shown' = Append(shown, Head(wire)) /\ wire' = Tail(wire)
        /\ UNCHANGED <<conn, server, lastSeq, batch, full, apiKey, member, late, drops>>
    BY <1>2 DEF Receive
  <2>2. wire \in Seq(Frames) /\ shown \in Seq(Frames)
    BY DEF SubInv, TypeOK
  <2>3. Head(wire) \in Frames /\ wire' \in Seq(Frames)
    BY <2>1, <2>2, HeadTailProperties
  <2>4. shown' \in Seq(Frames) /\ cursor' \in 0 .. MaxSeq
    BY <2>1, <2>2, <2>3, AppendProperties, FramePosition
  <2> QED
    BY <2>1, <2>3, <2>4 DEF SubInv, TypeOK
<1>3. CASE StreamEnds
  BY <1>3, DisconnectKeeps DEF StreamEnds, SubInv, TypeOK
<1>4. CASE Drop
  <2>1. drops' \in 0 .. MaxDrops /\ apiKey' \in 0 .. MaxRestarts
    BY <1>4, StreamAssumption DEF Drop, SubInv, TypeOK
  <2> QED
    BY <1>4, <2>1, DisconnectKeeps DEF Drop
<1>5. CASE RestartApi
  <2>1. drops' \in 0 .. MaxDrops /\ apiKey' \in 0 .. MaxRestarts
    BY <1>5, StreamAssumption DEF RestartApi, SubInv, TypeOK
  <2> QED
    BY <1>5, <2>1, DisconnectKeeps DEF RestartApi
<1>6. CASE Reconnect
  BY <1>6 DEF Reconnect, SubInv, TypeOK
<1>7. CASE Reload
  <2>1. <<>> \in Seq(Frames) /\ 0 \in 0 .. MaxSeq
    BY LogAssumption
  <2> QED
    BY <1>7, <2>1 DEF Reload, SubInv, TypeOK
<1>8. CASE Revoke
  BY <1>8 DEF Revoke, SubInv, TypeOK
<1> QED
  BY <1>1, <1>2, <1>3, <1>4, <1>5, <1>6, <1>7, <1>8 DEF Follow

LEMMA SubStays == SubInv /\ UNCHANGED subVars => SubInv'
  BY DEF SubInv, TypeOK, subVars

LEMMA ServerStarts == Init => ServerInv
<1> SUFFICES ASSUME Init PROVE LogInv /\ SubInv
  BY DEF ServerInv
<1>1. LogInv
  BY LogStarts DEF Init
<1>2. <<>> \in Seq(Frames) /\ Len(<<>>) <= PageSize
  BY StreamAssumption, EmptySeq
<1>3. 0 \in 0 .. MaxSeq /\ 0 \in 0 .. MaxRestarts /\ 0 \in 0 .. MaxDrops
  BY LogAssumption, StreamAssumption
<1>4. SubInv
  BY <1>2, <1>3 DEF Init, SubInv, TypeOK
<1> QED
  BY <1>1, <1>4

\* Every step keeps the log's and the server's invariant.
LEMMA ServerStep == ServerInv /\ [Next]_vars => ServerInv'
<1> SUFFICES ASSUME LogInv, SubInv, [Next]_vars
             PROVE  LogInv' /\ SubInv'
  BY DEF ServerInv
<1>1. CASE LogNext /\ UNCHANGED subVars
  BY <1>1, LogStep, SubStays
<1>2. CASE SubNext /\ UNCHANGED logVars
  BY <1>2, LogStays, ServeKeeps, FollowKeeps DEF SubNext
<1>3. CASE UNCHANGED vars
  BY <1>3, LogStays, SubStays DEF vars
<1> QED
  BY <1>1, <1>2, <1>3 DEF Next

LEMMA ServerAlways == Spec => []ServerInv
  BY ServerStarts, ServerStep, PTL DEF Spec

\* However many sessions number their own events, the log stays gapless, its counter
\* names its end and no two sessions interleave, unless a clear pulled the rows from
\* under a live session (run-event-sink.ts: append; run-worker.ts: createLiveRunWork).
THEOREM LogProved == Spec => []LogIsSound
<1>1. ServerInv => LogIsSound
  BY LogInvIsSound DEF ServerInv
<1> QED
  BY <1>1, ServerAlways, PTL

\* A written event is never replaced or renumbered, however many sessions overlap: only a
\* clear takes a row away (run-event-sink.ts: append, the unique index on thread and seq).
THEOREM RowsAreFinalProved == Spec => RowsAreFinal
<1> DEFINE Kept == clears' = clears => \A p \in Positions : rows[p] # "none" => rows'[p] = rows[p]
<1>1. ServerInv /\ [Next]_vars => Kept \/ UNCHANGED logVars
  <2> SUFFICES ASSUME ServerInv, [Next]_vars, clears' = clears,
                      NEW p \in Positions, rows[p] # "none"
               PROVE  rows'[p] = rows[p] \/ UNCHANGED logVars
    OBVIOUS
  <2>1. rows \in [Positions -> Sessions \cup {"none"}] /\ clears \in Nat
    BY DEF ServerInv, LogInv, LogTypeOK
  <2>2. CASE LogNext
    <3>1. ~ClearThread
      BY <2>1 DEF ClearThread
    <3>2. PICK s \in Sessions : StartSession(s) \/ AppendRow(s) \/ AppendRefused(s) \/ EndSession(s)
      BY <2>2, <3>1 DEF LogNext
    <3>3. UNCHANGED rows \/ (rows[nextSeq[s]] = "none" /\ rows' = [rows EXCEPT ![nextSeq[s]] = s])
      BY <3>2 DEF StartSession, AppendRow, AppendRefused, EndSession
    <3> QED
      BY <2>1, <3>3
  <2>3. CASE UNCHANGED logVars
    BY <2>3
  <2> QED
    BY <2>2, <2>3 DEF Next, vars
<1> QED
  BY <1>1, ServerAlways, PTL DEF Spec, RowsAreFinal

\* A member removed mid-stream is sent at most the one frame whose check had passed,
\* for every page size and any number of drops (thread-events.ts: membershipActive).
THEOREM RevocationProved == Spec => []RevocationIsPrompt
<1>1. ServerInv => RevocationIsPrompt
  BY DEF ServerInv, SubInv, TypeOK, LogInv, RevocationIsPrompt
<1> QED
  BY <1>1, ServerAlways, PTL

-----------------------------------------------------------------------------
(* The reader *)

\* The end of the log is a position of it, and every position up to it is written.
LEMMA LogEnd ==
    ASSUME LogInv
    PROVE  /\ counter \in Nat /\ LogLength \in Nat /\ LogLength <= MaxSeq /\ clears \in Nat
           /\ ~torn => \A p \in 1 .. LogLength : p \in Positions /\ rows[p] \in Sessions
<1>1. MaxSeq \in Nat /\ counter \in 0 .. (MaxSeq + 1) /\ clears \in Nat
  BY LogAssumption DEF LogInv, LogTypeOK
<1>2. counter \in Nat /\ LogLength \in Nat /\ LogLength <= MaxSeq
  BY <1>1 DEF LogLength
<1>3. ASSUME ~torn, NEW p \in 1 .. LogLength
      PROVE  p \in Positions /\ rows[p] \in Sessions
  <2>1. p \in Positions /\ p < counter
    BY <1>1, <1>2, <1>3 DEF Positions, LogLength
  <2>2. rows[p] # "none"
    BY <2>1, <1>3 DEF LogInv, Gapless
  <2> QED
    BY <2>1, <2>2 DEF LogInv, LogTypeOK
<1> QED
  BY <1>1, <1>2, <1>3

\* An append on an untorn log puts its event at the end and moves no other.
LEMMA AppendExtends ==
    ASSUME LogInv, ~torn, NEW s \in Sessions, AppendRow(s)
    PROVE  /\ LogLength' = LogLength + 1 /\ LogLength + 1 \in Positions
           /\ rows'[LogLength + 1] = s
           /\ \A p \in 1 .. LogLength : rows'[p] = rows[p]
<1> DEFINE here == nextSeq[s]
<1>1. /\ session[s] = "live" /\ here \in Positions /\ rows[here] = "none"
      /\ rows' = [rows EXCEPT ![here] = s]
      /\ counter' = IF here >= counter THEN here + 1 ELSE counter
  BY DEF AppendRow
<1>2. counter \in Nat /\ LogLength \in Nat /\ LogLength <= MaxSeq
  BY LogEnd
<1>3. here <= counter \/ (counter = 0 /\ here = 1)
  BY <1>1 DEF LogInv
<1>4. ~(here < counter)
  BY <1>1 DEF LogInv, Gapless
<1>5. here \in Int /\ here >= 1
  BY <1>1 DEF Positions
<1>6. here = LogLength + 1
  BY <1>2, <1>3, <1>4, <1>5 DEF LogLength
<1>7. counter' = here + 1
  BY <1>1, <1>2, <1>4, <1>5
<1>8. LogLength' = LogLength + 1
  <2>1. LogLength' = IF counter' = 0 THEN 0 ELSE counter' - 1
    BY DEF LogLength
  <2> QED
    BY <2>1, <1>5, <1>6, <1>7
<1>9. DOMAIN rows = Positions
  BY DEF LogInv, LogTypeOK
<1> HIDE DEF here
<1>10. \A p \in 1 .. LogLength : p # here /\ p \in Positions
  BY <1>1, <1>2, <1>6, LogAssumption DEF Positions
<1> QED
  BY <1>1, <1>6, <1>8, <1>9, <1>10

\* While nobody clears, the log only grows at its end.
LEMMA LogGrows ==
    ASSUME LogInv, LogInv', LogNext, clears' = 0
    PROVE  /\ clears = 0 /\ ~torn /\ LogLength' >= LogLength
           /\ \A p \in 1 .. LogLength : rows'[p] = rows[p]
           /\ \/ \E s \in Sessions : AppendRow(s)
              \/ UNCHANGED <<rows, counter>>
<1>1. clears \in Nat /\ LogLength \in Nat
  BY LogEnd
<1>2. ~ClearThread
  BY <1>1 DEF ClearThread
<1>3. PICK s \in Sessions : StartSession(s) \/ AppendRow(s) \/ AppendRefused(s) \/ EndSession(s)
  BY <1>2 DEF LogNext
<1>4. clears = 0
  BY <1>3 DEF StartSession, AppendRow, AppendRefused, EndSession
<1>5. ~torn
  BY <1>4 DEF LogInv
<1>6. CASE AppendRow(s)
  BY <1>1, <1>4, <1>5, <1>6, AppendExtends
<1>7. CASE ~AppendRow(s)
  <2>1. UNCHANGED <<rows, counter>>
    BY <1>3, <1>7 DEF StartSession, AppendRefused, EndSession
  <2>2. LogLength' = LogLength
    BY <2>1 DEF LogLength
  <2> QED
    BY <2>1, <2>2, <1>1, <1>4, <1>5
<1> QED
  BY <1>6, <1>7

\* A stretch inside the log stays one when the log grows at its end.
LEMMA StretchGrows ==
    ASSUME NEW frames \in Seq(Frames), NEW from \in Nat, Stretch(frames, from),
           LogLength \in Nat, from + Len(frames) <= LogLength,
           \A p \in 1 .. LogLength : rows'[p] = rows[p]
    PROVE  \A i \in 1 .. Len(frames) : frames[i] = <<from + i, rows'[from + i]>>
<1> TAKE i \in 1 .. Len(frames)
<1>1. Len(frames) \in Nat
  BY LenProperties
<1>2. from + i \in 1 .. LogLength
  BY <1>1
<1> QED
  BY <1>2 DEF Stretch, Event

\* The log's own steps leave what the reader holds where it is.
LEMMA LogStepReader ==
    ASSUME ServerInv, ServerInv', ReaderInv, LogNext, UNCHANGED subVars
    PROVE  ReaderInv'
<1> SUFFICES ASSUME clears' = 0
             PROVE  /\ Len(shown') = cursor' /\ Stretch(shown, 0)'
                    /\ Stretch(wire, cursor)' /\ (conn' = "open" => lastSeq' = cursor' + Len(wire'))
                    /\ Stretch(batch, lastSeq)'
                    /\ cursor' + Len(wire') + Len(batch') <= LogLength'
  BY DEF ReaderInv
<1>1. /\ UNCHANGED <<conn, cursor, shown, lastSeq, batch, wire>>
      /\ cursor \in Nat /\ lastSeq \in Nat
      /\ shown \in Seq(Frames) /\ wire \in Seq(Frames) /\ batch \in Seq(Frames)
      /\ conn # "open" => wire = <<>> /\ batch = <<>>
  BY DEF ServerInv, SubInv, TypeOK, subVars
<1>2. Len(wire) \in Nat /\ Len(batch) \in Nat /\ Len(shown) \in Nat
  BY <1>1, LenProperties
<1>3. /\ clears = 0 /\ LogLength' >= LogLength /\ LogLength \in Nat /\ LogLength' \in Nat
      /\ \A p \in 1 .. LogLength : rows'[p] = rows[p]
  <2>1. LogLength' \in Nat
    <3>1. counter' \in Nat
      BY LogAssumption DEF ServerInv, LogInv, LogTypeOK
    <3>2. LogLength' = IF counter' = 0 THEN 0 ELSE counter' - 1
      BY DEF LogLength
    <3>3. (IF counter' = 0 THEN 0 ELSE counter' - 1) \in Nat
      <4>1. \A c \in Nat : (IF c = 0 THEN 0 ELSE c - 1) \in Nat
        OBVIOUS
      <4> QED
        BY <3>1, <4>1, Zenon
    <3> QED
      BY <3>2, <3>3, Zenon
  <2> QED
    BY <2>1, LogGrows, LogEnd DEF ServerInv
<1>4. /\ Len(shown) = cursor /\ Stretch(shown, 0)
      /\ Stretch(wire, cursor) /\ (conn = "open" => lastSeq = cursor + Len(wire))
      /\ Stretch(batch, lastSeq)
      /\ cursor + Len(wire) + Len(batch) <= LogLength
  BY <1>3 DEF ReaderInv
<1>5. \A i \in 1 .. Len(shown) : shown[i] = <<0 + i, rows'[0 + i]>>
  <2>1. 0 + Len(shown) <= LogLength
    BY <1>1, <1>2, <1>3, <1>4
  <2>2. 0 \in Nat /\ shown \in Seq(Frames) /\ Stretch(shown, 0)
    BY <1>1, <1>4
  <2> QED
    BY ONLY <1>3, <2>1, <2>2, StretchGrows
<1>6. \A i \in 1 .. Len(wire) : wire[i] = <<cursor + i, rows'[cursor + i]>>
  <2>1. cursor + Len(wire) <= LogLength
    BY <1>1, <1>2, <1>3, <1>4
  <2> QED
    BY <1>1, <1>3, <1>4, <2>1, StretchGrows
<1>7. \A i \in 1 .. Len(batch) : batch[i] = <<lastSeq + i, rows'[lastSeq + i]>>
  <2>1. CASE conn = "open"
    <3>1. lastSeq + Len(batch) <= LogLength
      BY <1>1, <1>2, <1>3, <1>4, <2>1
    <3> QED
      BY <1>1, <1>3, <1>4, <3>1, StretchGrows
  <2>2. CASE conn # "open"
    BY <1>1, <2>2
  <2> QED
    BY <2>1, <2>2
<1>8. /\ Stretch(shown, 0)' <=> \A i \in 1 .. Len(shown') : shown'[i] = <<0 + i, rows'[0 + i]>>
      /\ Stretch(wire, cursor)' <=>
           \A i \in 1 .. Len(wire') : wire'[i] = <<cursor' + i, rows'[cursor' + i]>>
      /\ Stretch(batch, lastSeq)' <=>
           \A i \in 1 .. Len(batch') : batch'[i] = <<lastSeq' + i, rows'[lastSeq' + i]>>
  BY DEF Stretch, Event
<1>9. cursor' + Len(wire') + Len(batch') <= LogLength'
  BY <1>1, <1>2, <1>3, <1>4
<1> QED
  BY <1>1, <1>4, <1>5, <1>6, <1>7, <1>8, <1>9

\* The head of a stretch is the next event, and its tail goes on from there.
LEMMA StretchMoves ==
    ASSUME NEW frames \in Seq(Frames), frames # <<>>, NEW from \in Nat, Stretch(frames, from)
    PROVE  /\ Head(frames) = Event(from + 1) /\ Head(frames)[1] = from + 1
           /\ Tail(frames) \in Seq(Frames) /\ Len(Tail(frames)) = Len(frames) - 1
           /\ Len(frames) \in Nat \ {0}
           /\ Stretch(Tail(frames), from + 1)
<1>1. Len(frames) \in Nat \ {0} /\ 1 \in 1 .. Len(frames)
  BY EmptySeq, LenProperties
<1>2. /\ Tail(frames) \in Seq(Frames) /\ Len(Tail(frames)) = Len(frames) - 1
      /\ \A i \in 1 .. Len(Tail(frames)) : Tail(frames)[i] = frames[i + 1]
  BY HeadTailProperties
<1>3. Head(frames) = frames[1]
  BY <1>1
<1>4. \A i \in 1 .. Len(frames) : frames[i] = Event(from + i)
  BY DEF Stretch
<1>5. Head(frames) = Event(from + 1)
  BY <1>1, <1>3, <1>4
<1>6. ASSUME NEW i \in 1 .. Len(Tail(frames))
      PROVE  Tail(frames)[i] = Event((from + 1) + i)
  <2>1. i + 1 \in 1 .. Len(frames) /\ from + (i + 1) = (from + 1) + i
    BY <1>1, <1>2
  <2> QED
    BY <1>2, <1>4, <2>1
<1> QED
  BY <1>1, <1>2, <1>5, <1>6 DEF Event, Stretch

\* A stretch takes the event that follows it.
LEMMA StretchTakes ==
    ASSUME NEW frames \in Seq(Frames), NEW from \in Nat, Stretch(frames, from),
           NEW frame \in Frames, frame = Event(from + Len(frames) + 1)
    PROVE  Stretch(Append(frames, frame), from)
<1>1. /\ Len(Append(frames, frame)) = Len(frames) + 1 /\ Len(frames) \in Nat
      /\ \A i \in 1 .. Len(frames) : Append(frames, frame)[i] = frames[i]
      /\ Append(frames, frame)[Len(frames) + 1] = frame
  BY AppendProperties, LenProperties
<1>2. \A i \in 1 .. Len(frames) : frames[i] = Event(from + i)
  BY DEF Stretch
<1>3. from + (Len(frames) + 1) = from + Len(frames) + 1
  BY <1>1
<1>4. \A i \in 1 .. Len(Append(frames, frame)) : i \in 1 .. Len(frames) \/ i = Len(frames) + 1
  BY <1>1
<1> QED
  BY <1>1, <1>2, <1>3, <1>4 DEF Stretch

\* The subscription's own steps move events from the log to the page, the wire and the
\* console in order, and lose none of them but those a new connection reads again.
LEMMA SubStepReader ==
    ASSUME ServerInv, ReaderInv, SubNext, UNCHANGED logVars
    PROVE  ReaderInv'
<1>1. UNCHANGED <<rows, counter, clears>>
  BY DEF logVars
<1>2. /\ \A p : Event(p)' = Event(p)
      /\ LogLength' = LogLength
  BY <1>1 DEF Event, LogLength
<1> SUFFICES ASSUME clears = 0
             PROVE  /\ Len(shown') = cursor' /\ Stretch(shown', 0)
                    /\ Stretch(wire', cursor') /\ (conn' = "open" => lastSeq' = cursor' + Len(wire'))
                    /\ Stretch(batch', lastSeq')
                    /\ cursor' + Len(wire') + Len(batch') <= LogLength
  BY <1>1, <1>2 DEF ReaderInv, Stretch
<1>3. /\ cursor \in Nat /\ lastSeq \in Nat /\ LogInv /\ ~torn
      /\ shown \in Seq(Frames) /\ wire \in Seq(Frames) /\ batch \in Seq(Frames)
      /\ server = "send" => batch # <<>>
      /\ conn # "open" => wire = <<>> /\ batch = <<>>
      /\ (server = "none") <=> (conn # "open")
  BY DEF ServerInv, SubInv, TypeOK, LogInv
<1>4. /\ Len(shown) = cursor /\ Stretch(shown, 0)
      /\ Stretch(wire, cursor) /\ (conn = "open" => lastSeq = cursor + Len(wire))
      /\ Stretch(batch, lastSeq)
      /\ cursor + Len(wire) + Len(batch) <= LogLength
  BY DEF ReaderInv
<1>5. Len(wire) \in Nat /\ Len(batch) \in Nat /\ LogLength \in Nat /\ Len(shown) \in Nat
  BY <1>3, LenProperties, LogEnd
<1>6. Len(<<>>) = 0 /\ \A from : Stretch(<<>>, from)
  BY DEF Stretch
<1>8. CASE Subscribe
  BY <1>3, <1>4, <1>5, <1>6, <1>8 DEF Subscribe
<1>9. CASE ListAfter
  <2>1. /\ batch' = Page(lastSeq) /\ server = "query"
        /\ UNCHANGED <<conn, cursor, shown, lastSeq, wire>>
    BY <1>9 DEF ListAfter
  <2>2. lastSeq = cursor + Len(wire) /\ lastSeq <= LogLength
    BY <1>3, <1>4, <1>5, <2>1
  <2>3. /\ Len(Page(lastSeq)) \in Nat /\ lastSeq + Len(Page(lastSeq)) <= LogLength
        /\ Stretch(Page(lastSeq), lastSeq)
    BY <1>3, <2>2, PageIsNext
  <2> QED
    BY <1>4, <2>1, <2>2, <2>3
<1>10. CASE SendFrame
  <2>1. /\ server = "send" /\ lastSeq' = Head(batch)[1]
        /\ wire' = Append(wire, Head(batch)) /\ batch' = Tail(batch)
        /\ UNCHANGED <<conn, cursor, shown>>
    BY <1>10 DEF SendFrame
  <2>2. batch # <<>> /\ conn = "open" /\ lastSeq = cursor + Len(wire)
    BY <1>3, <1>4, <2>1
  <2>3. /\ Head(batch) = Event(lastSeq + 1) /\ Head(batch)[1] = lastSeq + 1
        /\ Len(Tail(batch)) = Len(batch) - 1 /\ Len(batch) \in Nat \ {0}
        /\ Stretch(Tail(batch), lastSeq + 1)
    BY <1>3, <1>4, <2>2, StretchMoves
  <2>4. Head(batch) \in Frames
    BY <1>3, <2>2, HeadTailProperties
  <2>5. Len(Append(wire, Head(batch))) = Len(wire) + 1
    BY <1>3, <2>4, AppendProperties
  <2>6. Head(batch) = Event(cursor + Len(wire) + 1)
    BY <2>2, <2>3
  <2>7. Stretch(Append(wire, Head(batch)), cursor)
    BY ONLY <1>3, <1>4, <2>4, <2>6, StretchTakes
  <2> QED
    BY <1>3, <1>4, <1>5, <2>1, <2>2, <2>3, <2>5, <2>7
<1>11. CASE Receive
  <2>1. /\ conn = "open" /\ wire # <<>> /\ cursor' = Head(wire)[1]
        /\ shown' = Append(shown, Head(wire)) /\ wire' = Tail(wire)
        /\ UNCHANGED <<conn, lastSeq, batch>>
    BY <1>11 DEF Receive
  <2>2. /\ Head(wire) = Event(cursor + 1) /\ Head(wire)[1] = cursor + 1
        /\ Len(Tail(wire)) = Len(wire) - 1 /\ Len(wire) \in Nat \ {0}
        /\ Stretch(Tail(wire), cursor + 1)
    BY <1>3, <1>4, <2>1, StretchMoves
  <2>3. Head(wire) \in Frames
    BY <1>3, <2>1, HeadTailProperties
  <2>4. Len(Append(shown, Head(wire))) = Len(shown) + 1
    BY <1>3, <2>3, AppendProperties
  <2>5. 0 \in Nat /\ Head(wire) = Event(0 + Len(shown) + 1)
    BY <1>3, <1>4, <2>2
  <2>6. Stretch(Append(shown, Head(wire)), 0)
    BY ONLY <1>3, <1>4, <2>3, <2>5, StretchTakes
  <2> QED
    BY <1>3, <1>4, <1>5, <2>1, <2>2, <2>4, <2>6
<1>12. CASE Disconnect
  <2>1. /\ conn' = "backoff" /\ wire' = <<>> /\ batch' = <<>> /\ UNCHANGED <<cursor, shown, lastSeq>>
    BY <1>12 DEF Disconnect
  <2> QED
    BY <1>3, <1>4, <1>5, <1>6, <2>1
<1>13. CASE Reload
  <2>1. /\ conn = "refused" /\ conn' = "connecting" /\ cursor' = 0 /\ shown' = <<>>
        /\ UNCHANGED <<lastSeq, batch, wire>>
    BY <1>13 DEF Reload
  <2> QED
    BY <1>3, <1>4, <1>5, <1>6, <2>1
<1>14. CASE CheckPage \/ CheckFrame \/ EndPage \/ Wake \/ Reconnect \/ Revoke
  <2>1. UNCHANGED <<cursor, shown, lastSeq, batch, wire>>
    BY <1>14 DEF CheckPage, CheckFrame, EndPage, Wake, Reconnect, Revoke
  <2>2. conn' = "open" => conn = "open"
    BY <1>14 DEF CheckPage, CheckFrame, EndPage, Wake, Reconnect, Revoke
  <2> QED
    BY <1>4, <2>1, <2>2
<1>15. CASE StreamEnds \/ Drop \/ RestartApi
  BY <1>12, <1>15 DEF StreamEnds, Drop, RestartApi
<1> QED
  BY <1>8, <1>9, <1>10, <1>11, <1>13, <1>14, <1>15 DEF SubNext, Serve, Follow

LEMMA ReaderStays == ReaderInv /\ UNCHANGED vars => ReaderInv'
  BY DEF ReaderInv, Stretch, Event, LogLength, vars, logVars, subVars

LEMMA ReaderStarts == Init => ReaderInv
<1> SUFFICES ASSUME Init PROVE ReaderInv
  OBVIOUS
<1>1. /\ counter = 0 /\ cursor = 0 /\ lastSeq = 0 /\ conn = "connecting"
      /\ shown = <<>> /\ wire = <<>> /\ batch = <<>>
  BY DEF Init, LogInit
<1>2. Len(<<>>) = 0 /\ \A from : Stretch(<<>>, from)
  BY DEF Stretch
<1> QED
  BY <1>1, <1>2 DEF ReaderInv, LogLength

LEMMA ReaderAlways == Spec => []ReaderInv
<1>1. ServerInv /\ ServerInv' /\ ReaderInv /\ [Next]_vars => ReaderInv'
  BY LogStepReader, SubStepReader, ReaderStays DEF Next
<1> QED
  BY <1>1, ReaderStarts, ServerAlways, PTL DEF Spec

-----------------------------------------------------------------------------
(* The refinement *)

\* The events of an untorn log are a sequence of frames.
LEMMA EventsAreFrames ==
    ASSUME LogInv, ~torn
    PROVE  EventsWritten \in Seq(Frames) /\ Len(EventsWritten) = LogLength
<1>1. LogLength \in Nat /\ \A p \in 1 .. LogLength : p \in Positions /\ rows[p] \in Sessions
  BY LogEnd
<1>2. \A p \in 1 .. LogLength : Event(p) \in Frames
  BY <1>1 DEF Event, Frames
<1>3. EventsWritten \in [1 .. LogLength -> Frames]
  BY <1>2 DEF EventsWritten
<1> QED
  BY <1>1, <1>3

\* An append is the abstract log's Write.
LEMMA AppendWrites ==
    ASSUME LogInv, ~torn, NEW s \in Sessions, AppendRow(s), UNCHANGED shown
    PROVE  StreamedLog!Write
<1> DEFINE e == <<LogLength + 1, s>>
<1>1. /\ LogLength' = LogLength + 1 /\ LogLength + 1 \in Positions
      /\ rows'[LogLength + 1] = s
      /\ \A p \in 1 .. LogLength : rows'[p] = rows[p]
  BY AppendExtends
<1>2. EventsWritten \in Seq(Frames) /\ Len(EventsWritten) = LogLength /\ LogLength \in Nat
  BY EventsAreFrames, LogEnd
<1>3. e \in Positions \X Sessions /\ e \in Frames
  BY <1>1 DEF Frames
<1>4. EventsWritten' = [p \in 1 .. (LogLength + 1) |-> <<p, rows'[p]>>]
  BY <1>1 DEF EventsWritten, Event
<1>5. EventsWritten = [p \in 1 .. LogLength |-> <<p, rows[p]>>]
  BY DEF EventsWritten, Event
<1> HIDE DEF e
<1>6. /\ Append(EventsWritten, e) \in Seq(Frames)
      /\ Len(Append(EventsWritten, e)) = LogLength + 1
      /\ \A i \in 1 .. LogLength : Append(EventsWritten, e)[i] = EventsWritten[i]
      /\ Append(EventsWritten, e)[LogLength + 1] = e
  BY <1>2, <1>3, AppendProperties
<1>7. Append(EventsWritten, e) \in [1 .. (LogLength + 1) -> Frames]
  BY <1>6, LenProperties
<1>8. \A i \in 1 .. (LogLength + 1) : Append(EventsWritten, e)[i] = <<i, rows'[i]>>
  <2> TAKE i \in 1 .. (LogLength + 1)
  <2>1. CASE i = LogLength + 1
    BY <2>1, <1>1, <1>6 DEF e
  <2>2. CASE i # LogLength + 1
    <3>1. i \in 1 .. LogLength
      BY <2>2, <1>2
    <3>2. EventsWritten[i] = <<i, rows[i]>>
      BY <3>1, <1>5
    <3> QED
      BY <3>1, <3>2, <1>1, <1>6
  <2> QED
    BY <2>1, <2>2
<1>9. EventsWritten' = Append(EventsWritten, e)
  <2>0. \A f \in [1 .. (LogLength + 1) -> Frames] : f = [i \in 1 .. (LogLength + 1) |-> f[i]]
    OBVIOUS
  <2>1. Append(EventsWritten, e) = [i \in 1 .. (LogLength + 1) |-> Append(EventsWritten, e)[i]]
    BY <2>0, <1>7, Zenon
  <2>2. [i \in 1 .. (LogLength + 1) |-> Append(EventsWritten, e)[i]]
          = [i \in 1 .. (LogLength + 1) |-> <<i, rows'[i]>>]
    BY <1>8
  <2> QED
    BY <1>4, <2>1, <2>2
<1>10. e \in Positions \X Sessions
  BY <1>3
<1> QED
  BY <1>9, <1>10 DEF StreamedLog!Write

\* On a thread nobody clears the subscription shows what the log holds: every step of
\* the API, the wire and the client is a step of the abstract reader or none.
LEMMA StreamStep ==
    ASSUME ServerInv, ServerInv', ReaderInv, clears = 0, clears' = 0, [Next]_vars
    PROVE  [StreamedLog!Next]_<<EventsWritten, shown>>
<1>1. LogInv /\ LogInv' /\ ~torn
  BY DEF ServerInv, LogInv
<1>2. CASE LogNext /\ UNCHANGED subVars
  <2>1. UNCHANGED shown
    BY <1>2 DEF subVars
  <2>2. (\E s \in Sessions : AppendRow(s)) \/ UNCHANGED <<rows, counter>>
    BY <1>1, <1>2, LogGrows
  <2>3. CASE \E s \in Sessions : AppendRow(s)
    BY <1>1, <2>1, <2>3, AppendWrites DEF StreamedLog!Next
  <2>4. CASE UNCHANGED <<rows, counter>>
    BY <2>1, <2>4 DEF EventsWritten, Event, LogLength
  <2> QED
    BY <2>2, <2>3, <2>4
<1>3. CASE SubNext /\ UNCHANGED logVars
  <2>1. UNCHANGED EventsWritten
    BY <1>3 DEF logVars, EventsWritten, Event, LogLength
  <2>2. CASE Receive
    <3>1. wire # <<>> /\ shown' = Append(shown, Head(wire))
      BY <2>2 DEF Receive
    <3>2. /\ wire \in Seq(Frames) /\ cursor \in Nat /\ Stretch(wire, cursor)
          /\ Len(shown) = cursor /\ cursor + Len(wire) + Len(batch) <= LogLength
          /\ batch \in Seq(Frames)
      BY DEF ServerInv, SubInv, TypeOK, ReaderInv
    <3>3. Head(wire) = Event(cursor + 1) /\ Len(wire) \in Nat \ {0}
      BY <3>1, <3>2, StretchMoves
    <3>4. Len(batch) \in Nat /\ LogLength \in Nat
      BY <1>1, <3>2, LenProperties, LogEnd
    <3>5. Len(EventsWritten) = LogLength
      BY <1>1, EventsAreFrames
    <3>6. Len(shown) < Len(EventsWritten) /\ Len(shown) + 1 \in 1 .. LogLength
      BY <3>2, <3>3, <3>4, <3>5
    <3>7. EventsWritten[Len(shown) + 1] = Head(wire)
      BY <3>2, <3>3, <3>6 DEF EventsWritten
    <3> QED
      BY <2>1, <3>1, <3>6, <3>7 DEF StreamedLog!Next, StreamedLog!Show
  <2>3. CASE Reload
    BY <2>1, <2>3 DEF Reload, StreamedLog!Next, StreamedLog!Reload
  <2>4. CASE Serve \/ Subscribe \/ Reconnect \/ Revoke
    <3>1. UNCHANGED shown
      BY <2>4 DEF Serve, CheckPage, ListAfter, CheckFrame, SendFrame, EndPage, Wake, Subscribe,
                  Reconnect, Revoke
    <3> QED
      BY <2>1, <3>1
  <2>5. CASE StreamEnds \/ Drop \/ RestartApi
    <3>1. UNCHANGED shown
      BY <2>5 DEF StreamEnds, Drop, RestartApi, Disconnect
    <3> QED
      BY <2>1, <3>1
  <2> QED
    BY <1>3, <2>2, <2>3, <2>4, <2>5 DEF SubNext, Follow
<1>4. CASE UNCHANGED vars
  BY <1>4 DEF vars, logVars, subVars, EventsWritten, Event, LogLength
<1> QED
  BY <1>2, <1>3, <1>4 DEF Next

\* A console that follows a thread nobody clears is shown every event once and in order,
\* for any number of sessions, drops and API restarts and every page size
\* (thread-events.ts: the replay loop; stream.ts: the client's cursor).
THEOREM StreamImplements == Spec /\ [](clears = 0) => ImplementsThreadLog
<1>1. Init => StreamedLog!Init
  <2> SUFFICES ASSUME Init PROVE EventsWritten = <<>> /\ shown = <<>>
    BY DEF StreamedLog!Init
  <2>1. LogLength = 0 /\ shown = <<>>
    BY DEF Init, LogInit, LogLength
  <2>2. EventsWritten = [p \in 1 .. 0 |-> Event(p)]
    BY <2>1 DEF EventsWritten
  <2> QED
    BY <2>1, <2>2
<1>2. ServerInv /\ ServerInv' /\ ReaderInv /\ clears = 0 /\ (clears = 0)' /\ [Next]_vars
        => [StreamedLog!Next]_<<EventsWritten, shown>>
  BY StreamStep
<1> QED
  BY <1>1, <1>2, ServerAlways, ReaderAlways, PTL DEF Spec, ImplementsThreadLog, StreamedLog!Spec
=============================================================================
