------------------------- MODULE KalshiClientProofs -------------------------
(***************************************************************************)
(* A fetch, for every set of series, every number of pages, workers and    *)
(* attempts: what is loaded is whole and loaded once, and what is not is   *)
(* reported.                                                               *)
(***************************************************************************)
EXTENDS KalshiClient, FiniteSetTheorems, TLAPS

Jobs == [step: {"none", "queued", "ask", "wait", "sent", "backoff", "failed"},
         attempt: Nat, pages: Seq(Nat), delay: Nat]

ClientTypeOK ==
  /\ stage \in {"events", "again", "titles", "returned"}
  /\ job \in [Series -> Jobs]
  /\ ahead \in Nat
  /\ results \in Seq([series: Series, pages: Seq(Nat)])
  /\ titled \subseteq Series /\ errors \subseteq Series

InOrder(pages) == pages = [p \in 1 .. Len(pages) |-> p]

\* A thread has read the first pages of its series, and not all of them.
PagesInOrder ==
  \A s \in Series : InOrder(job[s].pages) /\ Len(job[s].pages) < Listing[s]

ResultsWhole ==
  \A i \in DOMAIN results :
    InOrder(results[i].pages) /\ Len(results[i].pages) = Listing[results[i].series]

ResultsOnce ==
  \A i, k \in DOMAIN results : results[i].series = results[k].series => i = k

\* While events are fetched a series is loaded exactly when nobody works on it; then
\* exactly what has failed is reported, and only what is loaded is asked for a title.
Accounted ==
  /\ stage \in {"events", "again"} =>
       /\ errors = {} /\ titled = {}
       /\ \A s \in Series : s \in Loaded <=> job[s].step = "none"
  /\ stage \in {"titles", "returned"} =>
       /\ errors = Series \ Loaded /\ titled \subseteq Loaded
       /\ \A s \in Series : job[s].step # "none" => s \in Loaded
  /\ stage = "returned" => Pending = {}

FetchInv == ClientTypeOK /\ PagesInOrder /\ ResultsWhole /\ ResultsOnce /\ Accounted

-----------------------------------------------------------------------------
\* A thread that has just been given a series, or none, has read no page.
LEMMA Fresh ==
  /\ Idle \in Jobs /\ Idle.step = "none" /\ Idle.pages = <<>>
  /\ Queued \in Jobs /\ Queued.step = "queued" /\ Queued.pages = <<>>
<1> <<>> \in Seq(Nat)
  OBVIOUS
<1>1. Idle \in Jobs /\ Idle.step = "none" /\ Idle.pages = <<>>
  BY DEF Idle, Jobs
<1>2. Queued \in Jobs /\ Queued.step = "queued" /\ Queued.pages = <<>>
  BY DEF Idle, Queued, Jobs
<1>3. QED BY <1>1, <1>2

\* Where no page has been read, the pages are in order and not yet all there.
LEMMA NoPagesInOrder == \A s \in Series : InOrder(<<>>) /\ Len(<<>>) < Listing[s]
BY ClientAssumption DEF InOrder

\* What is loaded are series of the fetch.
LEMMA LoadedSeries == ClientTypeOK => Loaded \subseteq Series
<1> SUFFICES ASSUME ClientTypeOK, NEW i \in DOMAIN results PROVE results[i].series \in Series
  BY DEF Loaded
<1>1. results \in Seq([series: Series, pages: Seq(Nat)])
  BY DEF ClientTypeOK
<1> DEFINE Result == [series: Series, pages: Seq(Nat)]
<1>2. \A r \in Result : r.series \in Series
  OBVIOUS
<1> HIDE DEF Result
<1>3. results[i] \in Result
  <2>1. results \in Seq(Result)
    BY <1>1 DEF Result
  <2>2. DOMAIN results = 1 .. Len(results) /\ Len(results) \in Nat
    BY <2>1
  <2>3. i \in 1 .. Len(results)
    BY <2>2
  <2>4. QED BY <2>1, <2>3
<1>4. QED BY <1>2, <1>3

\* It holds before the first request.
LEMMA InitFetchInv == Init => FetchInv
<1> SUFFICES ASSUME Init PROVE FetchInv OBVIOUS
<1> USE Fresh DEF Init
<1>1. ClientTypeOK
  BY DEF ClientTypeOK
<1>2. PagesInOrder
  BY NoPagesInOrder DEF PagesInOrder
<1>3. ResultsWhole /\ ResultsOnce
  BY DEF ResultsWhole, ResultsOnce
<1>4. Accounted
  BY DEF Accounted, Loaded
<1>5. QED BY <1>1, <1>2, <1>3, <1>4 DEF FetchInv

\* A thread that only moves on, from and to where it works, touches no result.
LEMMA MoveKeepsFetchInv ==
  ASSUME FetchInv, NEW s \in Series, NEW j \in Jobs,
         job[s].step \in {"queued", "ask", "wait", "sent", "backoff"},
         j.step \in {"ask", "wait", "sent", "backoff", "failed"},
         j.pages = job[s].pages \/ j.pages = <<>>,
         job' = [job EXCEPT ![s] = j],
         ahead' \in Nat, UNCHANGED <<stage, results, titled, errors>>
  PROVE  FetchInv'
<1>1. ClientTypeOK'
  BY DEF FetchInv, ClientTypeOK
<1>2. PagesInOrder'
  <2> SUFFICES ASSUME NEW t \in Series
               PROVE  InOrder(job'[t].pages) /\ Len(job'[t].pages) < Listing[t]
    BY DEF PagesInOrder
  <2>1. job'[t].pages = job[t].pages \/ job'[t].pages = <<>>
    BY DEF FetchInv, ClientTypeOK
  <2>2. QED BY <2>1, NoPagesInOrder DEF FetchInv, PagesInOrder
<1>3. ResultsWhole' /\ ResultsOnce'
  BY DEF FetchInv, ResultsWhole, ResultsOnce
<1>4. Accounted'
  <2>1. Loaded' = Loaded
    BY DEF Loaded
  <2>2. s \in Pending /\ stage # "returned"
    BY DEF FetchInv, Accounted, Pending, Busy
  <2>3. \A t \in Series : job'[t].step = "none" <=> job[t].step = "none"
    BY DEF FetchInv, ClientTypeOK
  <2>4. QED BY <2>1, <2>2, <2>3 DEF FetchInv, Accounted
<1>5. QED BY <1>1, <1>2, <1>3, <1>4 DEF FetchInv

\* A thread that starts, takes a turn, sends, backs off or gives up.
LEMMA MoveFetchInv ==
  ASSUME FetchInv, NEW s \in Series,
         Start(s) \/ Throttle(s) \/ Send(s) \/ Wake(s) \/ Transient(s) \/ Refused(s)
  PROVE  FetchInv'
<1>1. /\ job[s] \in Jobs /\ ahead \in Nat /\ Interval \in Nat
      /\ job[s].attempt \in Nat /\ job[s].pages \in Seq(Nat) /\ job[s].delay \in Nat
  BY ClientAssumption DEF FetchInv, ClientTypeOK, Jobs
<1>a. /\ job[s].step \in {"queued", "ask", "wait", "sent", "backoff"}
      /\ UNCHANGED <<stage, results, titled, errors>>
  BY DEF Start, Throttle, Send, Wake, Transient, Refused
<1>b. ahead' \in Nat
  BY <1>1 DEF Start, Throttle, Send, Wake, Transient, Refused
<1>2. SUFFICES \E j \in Jobs :
        /\ j.step \in {"ask", "wait", "sent", "backoff", "failed"}
        /\ j.pages = job[s].pages \/ j.pages = <<>>
        /\ job' = [job EXCEPT ![s] = j]
  BY <1>a, <1>b, MoveKeepsFetchInv
<1> DEFINE failed == [Idle EXCEPT !.step = "failed"]
           retried == [job[s] EXCEPT !.step = "backoff", !.attempt = job[s].attempt + 1]
<1>3. failed \in Jobs /\ failed.step = "failed" /\ failed.pages = <<>>
  BY Fresh DEF Jobs
<1>4. CASE Start(s) \/ Wake(s)
  <2> DEFINE j == [job[s] EXCEPT !.step = "ask"]
  <2>1. j \in Jobs /\ j.step = "ask" /\ j.pages = job[s].pages
    BY <1>1 DEF Jobs
  <2>2. job' = [job EXCEPT ![s] = j]
    BY <1>4 DEF Start, Wake
  <2>3. QED BY <2>1, <2>2
<1>5. CASE Throttle(s)
  <2> DEFINE j == [job[s] EXCEPT !.step = "wait", !.delay = ahead]
  <2>1. j \in Jobs /\ j.step = "wait" /\ j.pages = job[s].pages
    BY <1>1 DEF Jobs
  <2>2. job' = [job EXCEPT ![s] = j]
    BY <1>5 DEF Throttle, FetchInv, ClientTypeOK, Jobs
  <2>3. QED BY <2>1, <2>2
<1>6. CASE Send(s)
  <2> DEFINE j == [job[s] EXCEPT !.step = "sent"]
  <2>1. j \in Jobs /\ j.step = "sent" /\ j.pages = job[s].pages
    BY <1>1 DEF Jobs
  <2>2. job' = [job EXCEPT ![s] = j]
    BY <1>6 DEF Send
  <2>3. QED BY <2>1, <2>2
<1>7. CASE Transient(s)
  <2>1. retried \in Jobs /\ retried.step = "backoff" /\ retried.pages = job[s].pages
    <3> DEFINE attempts == job[s].attempt + 1
    <3>1. attempts \in Nat
      BY <1>1
    <3> HIDE DEF attempts
    <3>2. [job[s] EXCEPT !.step = "backoff", !.attempt = attempts] \in Jobs
      BY <1>1, <3>1 DEF Jobs
    <3>3. QED BY <1>1, <3>2 DEF attempts, Jobs
  <2>2. job' = [job EXCEPT ![s] = retried] \/ job' = [job EXCEPT ![s] = failed]
    <3>1. CASE job[s].attempt + 1 < MaxRetries
      BY <1>7, <3>1 DEF Transient
    <3>2. CASE ~(job[s].attempt + 1 < MaxRetries)
      BY <1>7, <3>2 DEF Transient
    <3>3. QED BY <3>1, <3>2
  <2> HIDE DEF retried, failed
  <2>3. QED BY <1>3, <2>1, <2>2
<1>8. CASE Refused(s)
  BY <1>3, <1>8 DEF Refused
<1>9. QED BY <1>4, <1>5, <1>6, <1>7, <1>8

\* A page that arrives goes on with the series, gives it up at the cap, or completes it.
LEMMA PageFetchInv ==
  ASSUME FetchInv, NEW s \in Series, Page(s)
  PROVE  FetchInv'
<1> DEFINE pages == Append(job[s].pages, Len(job[s].pages) + 1)
<1>1. /\ job[s] \in Jobs /\ job[s].pages \in Seq(Nat) /\ Listing[s] \in Nat
      /\ InOrder(job[s].pages) /\ Len(job[s].pages) < Listing[s]
  BY ClientAssumption DEF FetchInv, ClientTypeOK, Jobs, PagesInOrder
<1>2. pages \in Seq(Nat) /\ InOrder(pages) /\ Len(pages) = Len(job[s].pages) + 1
  BY <1>1 DEF InOrder
<1>3. stage \in {"events", "again"} /\ job[s].step = "sent" /\ s \notin Loaded
  BY DEF Page, FetchInv, ClientTypeOK, Accounted, Pending, Busy
<1>4. CASE Len(pages) < Listing[s] /\ Len(pages) = MaxPages
  <2> DEFINE j == [Idle EXCEPT !.step = "failed"]
  <2>1. j \in Jobs /\ j.step = "failed" /\ j.pages = <<>>
    BY Fresh DEF Jobs
  <2>2. job' = [job EXCEPT ![s] = j] /\ UNCHANGED <<stage, ahead, results, titled, errors>>
    BY <1>4 DEF Page
  <2>3. ahead \in Nat
    BY DEF FetchInv, ClientTypeOK
  <2> HIDE DEF j
  <2>4. QED BY <1>3, <2>1, <2>2, <2>3, MoveKeepsFetchInv
<1>5. CASE Len(pages) < Listing[s] /\ Len(pages) # MaxPages
  <2> DEFINE j == [Idle EXCEPT !.step = "ask", !.pages = pages]
  <2>1. j \in Jobs /\ j.step = "ask" /\ j.pages = pages
    BY <1>2, Fresh DEF Jobs
  <2>2. job' = [job EXCEPT ![s] = j] /\ UNCHANGED <<stage, ahead, results, titled, errors>>
    BY <1>5 DEF Page
  <2> HIDE DEF pages, j
  <2>3. ClientTypeOK'
    BY <2>1, <2>2 DEF FetchInv, ClientTypeOK
  <2>4. PagesInOrder'
    BY <1>2, <1>5, <2>1, <2>2 DEF FetchInv, ClientTypeOK, PagesInOrder
  <2>5. ResultsWhole' /\ ResultsOnce'
    BY <2>2 DEF FetchInv, ResultsWhole, ResultsOnce
  <2>6. Accounted'
    BY <1>3, <2>1, <2>2 DEF FetchInv, ClientTypeOK, Accounted, Loaded
  <2>7. QED BY <2>3, <2>4, <2>5, <2>6 DEF FetchInv
<1>6. CASE ~(Len(pages) < Listing[s])
  <2> DEFINE done == [series |-> s, pages |-> pages]
  <2>1. Len(pages) = Listing[s]
    BY <1>1, <1>2, <1>6
  <2>2. done \in [series: Series, pages: Seq(Nat)] /\ done.series = s /\ done.pages = pages
    BY <1>2
  <2>3. /\ job' = [job EXCEPT ![s] = Idle] /\ results' = Append(results, done)
        /\ UNCHANGED <<stage, ahead, titled, errors>>
    BY <1>6 DEF Page
  <2>4. results \in Seq([series: Series, pages: Seq(Nat)])
    BY DEF FetchInv, ClientTypeOK
  <2> HIDE DEF pages, done
  <2>5. /\ DOMAIN results' = 1 .. Len(results) + 1 /\ DOMAIN results = 1 .. Len(results) /\ Len(results) \in Nat
        /\ results'[Len(results) + 1] = done
        /\ \A i \in DOMAIN results : results'[i] = results[i]
    BY <2>2, <2>3, <2>4
  <2>6. Loaded' = Loaded \cup {s}
    BY <2>2, <2>5 DEF Loaded
  <2>7. ClientTypeOK'
    BY <2>2, <2>3, Fresh DEF FetchInv, ClientTypeOK
  <2>8. PagesInOrder'
    BY <2>3, Fresh, NoPagesInOrder DEF FetchInv, ClientTypeOK, PagesInOrder
  <2>9. ResultsWhole'
    BY <1>2, <2>1, <2>2, <2>5 DEF FetchInv, ResultsWhole
  <2>10. ResultsOnce'
    <3>1. \A i \in DOMAIN results : results[i].series # s
      BY <1>3 DEF Loaded
    <3>2. QED BY <2>2, <2>5, <3>1 DEF FetchInv, ResultsOnce
  <2>11. Accounted'
    BY <1>3, <2>3, <2>6, Fresh DEF FetchInv, ClientTypeOK, Accounted
  <2>12. QED BY <2>7, <2>8, <2>9, <2>10, <2>11 DEF FetchInv
<1>7. QED BY <1>4, <1>5, <1>6

\* A series ends its title with or without a request; no page of it is touched.
LEMMA TitleFetchInv ==
  ASSUME FetchInv, NEW s \in Series, TitleCached(s) \/ Title(s)
  PROVE  FetchInv'
<1>1. /\ stage = "titles" /\ job[s].step \in {"queued", "sent"}
      /\ titled' = titled \cup {s} /\ job' = [job EXCEPT ![s] = Idle]
      /\ UNCHANGED <<stage, ahead, results, errors>>
  BY DEF TitleCached, Title
<1>2. ClientTypeOK'
  BY <1>1, Fresh DEF FetchInv, ClientTypeOK
<1>3. PagesInOrder'
  BY <1>1, Fresh, NoPagesInOrder DEF FetchInv, ClientTypeOK, PagesInOrder
<1>4. ResultsWhole' /\ ResultsOnce'
  BY <1>1 DEF FetchInv, ResultsWhole, ResultsOnce
<1>5. Accounted'
  <2>1. Loaded' = Loaded /\ s \in Loaded
    BY <1>1 DEF Loaded, FetchInv, Accounted
  <2>2. QED BY <1>1, <2>1, Fresh DEF FetchInv, ClientTypeOK, Accounted
<1>6. QED BY <1>2, <1>3, <1>4, <1>5 DEF FetchInv

\* A round hands out series anew: what failed to be fetched again, or what was loaded to
\* be asked for its title.
LEMMA RoundFetchInv ==
  ASSUME FetchInv, Again \/ Titles
  PROVE  FetchInv'
<1>1. job \in [Series -> Jobs] /\ Loaded \subseteq Series /\ UNCHANGED <<ahead, results, titled>>
      /\ stage \in {"events", "again"}
  BY LoadedSeries DEF Again, Titles, FetchInv, ClientTypeOK
<1>2. \A t \in Series : job'[t] \in {Idle, Queued}
  BY DEF Again, Titles
<1>3. job' \in [Series -> Jobs]
  BY Fresh DEF Again, Titles
<1>4. \A t \in Series : job[t].step = "none" \/ t \in Failed
  <2> SUFFICES ASSUME NEW t \in Series, job[t].step # "none", t \notin Failed PROVE FALSE
    OBVIOUS
  <2>1. t \notin Pending
    BY DEF Again, Titles
  <2>2. job[t].step \in {"none", "queued", "ask", "wait", "sent", "backoff", "failed"}
    BY <1>1 DEF Jobs
  <2>3. QED BY <2>1, <2>2 DEF Pending, Busy, Failed
<1>5. Failed = Series \ Loaded
  BY <1>1, <1>4 DEF Failed, FetchInv, Accounted
<1>6. ClientTypeOK'
  BY <1>1, <1>3, <1>5 DEF Again, Titles, FetchInv, ClientTypeOK
<1>7. PagesInOrder'
  BY <1>2, Fresh, NoPagesInOrder DEF PagesInOrder
<1>8. ResultsWhole' /\ ResultsOnce' /\ Loaded' = Loaded
  BY <1>1 DEF FetchInv, ResultsWhole, ResultsOnce, Loaded
<1>9. Accounted'
  <2>1. CASE Again
    BY <2>1, <1>1, <1>5, <1>8, Fresh DEF Again, FetchInv, Accounted
  <2>2. CASE Titles
    BY <2>2, <1>1, <1>5, <1>8, Fresh DEF Titles, FetchInv, Accounted
  <2>3. QED BY <2>1, <2>2
<1>10. QED BY <1>6, <1>7, <1>8, <1>9 DEF FetchInv

\* The end of the fetch, and the passing of time, change no series.
LEMMA QuietFetchInv ==
  ASSUME FetchInv, Return \/ Tick \/ UNCHANGED vars
  PROVE  FetchInv'
<1>1. job \in [Series -> Jobs] /\ ahead \in Nat
  BY DEF FetchInv, ClientTypeOK
<1>2. UNCHANGED <<results, titled, errors>> /\ ahead' \in Nat
  BY <1>1 DEF Return, Tick, vars
<1>3. job' \in [Series -> Jobs]
  <2>1. CASE Tick
    <3> SUFFICES ASSUME NEW s \in Series PROVE [job[s] EXCEPT !.delay = Less(job[s].delay)] \in Jobs
      BY <2>1 DEF Tick
    <3>1. job[s] \in Jobs
      BY <1>1
    <3>2. Less(job[s].delay) \in Nat
      BY <3>1 DEF Less, Jobs
    <3>3. QED BY <3>1, <3>2 DEF Jobs
  <2>2. QED BY <1>1, <2>1 DEF Return, vars
<1>4. \A s \in Series : job'[s].step = job[s].step /\ job'[s].pages = job[s].pages
  <2>1. CASE Tick
    <3> TAKE s \in Series
    <3>1. job'[s] = [job[s] EXCEPT !.delay = Less(job[s].delay)]
      BY <2>1 DEF Tick
    <3>2. job[s] \in Jobs
      BY <1>1
    <3>3. QED BY <3>1, <3>2 DEF Jobs
  <2>2. QED BY <2>1 DEF Return, vars
<1>5. Loaded' = Loaded /\ Pending' = Pending
  BY <1>2, <1>4 DEF Loaded, Pending, Busy
<1>6. stage' \in {"events", "again", "titles", "returned"} /\ (stage' = stage \/ Return)
  BY DEF Return, Tick, vars, FetchInv, ClientTypeOK
<1>7. ClientTypeOK'
  BY <1>2, <1>3, <1>6 DEF FetchInv, ClientTypeOK
<1>8. PagesInOrder' /\ ResultsWhole' /\ ResultsOnce'
  BY <1>2, <1>4 DEF FetchInv, PagesInOrder, ResultsWhole, ResultsOnce
<1>9. Accounted'
  BY <1>2, <1>4, <1>5, <1>6 DEF Return, FetchInv, Accounted
<1>10. QED BY <1>7, <1>8, <1>9 DEF FetchInv

-----------------------------------------------------------------------------
\* Whatever the order of answers, faults, retries and rounds, the threads, the results
\* and the report of a fetch agree.
THEOREM FetchInvariance == Spec => []FetchInv
<1>1. Init => FetchInv
  BY InitFetchInv
<1>2. FetchInv /\ [Next]_vars => FetchInv'
  <2> SUFFICES ASSUME FetchInv, [Next]_vars PROVE FetchInv' OBVIOUS
  <2>1. ASSUME NEW s \in Series, JobStep(s) PROVE FetchInv'
    BY <2>1, MoveFetchInv, PageFetchInv, TitleFetchInv DEF JobStep
  <2>2. CASE Again \/ Titles
    BY <2>2, RoundFetchInv
  <2>3. CASE Return \/ Tick \/ UNCHANGED vars
    BY <2>3, QuietFetchInv
  <2>4. QED BY <2>1, <2>2, <2>3 DEF Next
<1>3. QED BY <1>1, <1>2, PTL DEF Spec

\* SeriesWhole: a series is fetched whole, or it is reported, for any number of series,
\* pages, workers and attempts (get_paginated, get_events_for_series, fetch_contracts).
THEOREM SeriesWholeHolds == Spec => []SeriesWhole
<1>1. FetchInv => SeriesWhole
  <2> SUFFICES ASSUME FetchInv PROVE SeriesWhole OBVIOUS
  <2>1. ASSUME NEW i \in DOMAIN results
        PROVE  results[i].pages = [p \in 1 .. Listing[results[i].series] |-> p]
    BY DEF FetchInv, ResultsWhole, InOrder
  <2>2. ASSUME NEW i \in DOMAIN results PROVE results[i].series \in Loaded
    BY DEF Loaded
  <2>3. Loaded \cap errors = {} /\ (stage = "returned" => Loaded \cup errors = Series /\ titled \subseteq Loaded)
    <3>1. Loaded \subseteq Series
      BY LoadedSeries DEF FetchInv
    <3>2. QED BY <3>1 DEF FetchInv, ClientTypeOK, Accounted
  <2>4. QED BY <2>1, <2>2, <2>3 DEF SeriesWhole, FetchInv, ResultsOnce
<1>2. QED BY <1>1, FetchInvariance, PTL

-----------------------------------------------------------------------------
\* Who waits no less long than s, s among them.
Behind(s) == {t \in Waiting : job[t].delay >= job[s].delay}

\* The next free slot comes right after those of the threads that still wait: it is as
\* far away as that many turns, and one that may already be running.
TurnsInv ==
  /\ Cardinality(Busy) <= Workers
  /\ ahead <= Interval * (Cardinality(Waiting) + 1)
  /\ \A s \in Waiting : /\ job[s].delay + Interval <= ahead
                        /\ ahead <= job[s].delay + Interval * Cardinality(Behind(s))
  /\ \A s, t \in Waiting : s = t \/ job[s].delay >= job[t].delay + Interval
                                 \/ job[t].delay >= job[s].delay + Interval

\* The threads are finitely many, and so are those that wait.
LEMMA FinitelyMany ==
  /\ Busy \in SUBSET Series /\ IsFiniteSet(Busy) /\ Cardinality(Busy) \in Nat
  /\ Waiting \in SUBSET Busy /\ IsFiniteSet(Waiting) /\ Cardinality(Waiting) \in Nat
  /\ Cardinality(Waiting) <= Cardinality(Busy)
  /\ \A s : Behind(s) \in SUBSET Waiting /\ IsFiniteSet(Behind(s)) /\ Cardinality(Behind(s)) \in Nat
<1>1. Busy \in SUBSET Series /\ Waiting \in SUBSET Busy /\ \A s : Behind(s) \in SUBSET Waiting
  BY DEF Busy, Waiting, Behind
<1>2. IsFiniteSet(Busy)
  BY <1>1, ClientAssumption, FS_Subset
<1>3. IsFiniteSet(Waiting) /\ Cardinality(Waiting) <= Cardinality(Busy)
  BY <1>1, <1>2, FS_Subset
<1>4. \A s : IsFiniteSet(Behind(s))
  BY <1>1, <1>3, FS_Subset
<1>5. QED BY <1>1, <1>2, <1>3, <1>4, FS_CardinalityType

\* Turns add up.
LEMMA Turns ==
  /\ Interval \in Nat /\ Interval > 0 /\ Workers \in Nat
  /\ \A n \in Nat : Interval * n \in Nat /\ Interval * (n + 1) = Interval * n + Interval
  /\ \A m, n \in Nat : m <= n => Interval * m <= Interval * n
<1>1. Interval \in Nat /\ Interval > 0 /\ Workers \in Nat
  BY ClientAssumption
<1>2. \A i, m, n \in Nat : m <= n => i * m <= i * n
  OBVIOUS
<1>3. \A i, n \in Nat : i * n \in Nat /\ i * (n + 1) = i * n + i
  OBVIOUS
<1>4. QED BY <1>1, <1>2, <1>3

\* Threads that neither take a turn nor wait for one leave the turns alone.
LEMMA TurnsKept ==
  ASSUME TurnsInv, ahead' = ahead, Waiting' = Waiting, Cardinality(Busy') <= Workers,
         \A s \in Waiting : job'[s].delay = job[s].delay
  PROVE  TurnsInv'
<1>1. \A s \in Waiting : Behind(s)' = Behind(s)
  BY DEF Behind
<1>2. QED BY <1>1 DEF TurnsInv

\* One thread moves on; those that wait go on waiting.
LEMMA OneMoves ==
  ASSUME FetchInv, TurnsInv, NEW s \in Series, NEW j, job' = [job EXCEPT ![s] = j],
         s \notin Waiting, j.step # "wait", ahead' = ahead,
         \/ s \in Busy \/ Cardinality(Busy) < Workers
         \/ j.step \notin {"ask", "sent", "backoff"}
  PROVE  TurnsInv'
<1>1. job'[s] = j /\ \A t \in Series \ {s} : job'[t] = job[t]
  BY DEF FetchInv, ClientTypeOK
<1>2. Waiting' = Waiting /\ \A t \in Waiting : job'[t].delay = job[t].delay
  BY <1>1 DEF Waiting
<1>3. Busy' \in SUBSET (Busy \cup {s}) /\ (j.step \notin {"ask", "sent", "backoff"} => Busy' \in SUBSET Busy)
  BY <1>1 DEF Busy
<1>4. Cardinality(Busy') <= Workers
  <2>1. CASE Busy' \in SUBSET Busy
    <3>1. Cardinality(Busy') <= Cardinality(Busy) /\ Cardinality(Busy') \in Nat
      BY <2>1, FinitelyMany, FS_Subset, FS_CardinalityType
    <3>2. QED BY <3>1, FinitelyMany, Turns DEF TurnsInv
  <2>2. CASE s \in Busy
    BY <1>3, <2>1, <2>2
  <2>3. CASE s \notin Busy /\ Cardinality(Busy) < Workers
    <3>1. IsFiniteSet(Busy \cup {s}) /\ Cardinality(Busy \cup {s}) = Cardinality(Busy) + 1
      BY <2>3, FinitelyMany, FS_AddElement
    <3>2. Cardinality(Busy') <= Cardinality(Busy) + 1 /\ IsFiniteSet(Busy')
      BY <1>3, <3>1, FS_Subset
    <3>3. Cardinality(Busy') \in Nat
      BY <3>2, FS_CardinalityType
    <3>4. QED BY <2>3, <3>2, <3>3, FinitelyMany, Turns
  <2>4. QED BY <1>3, <2>1, <2>2, <2>3
<1>5. QED BY <1>2, <1>4, TurnsKept
\* While nobody works nobody waits.
LEMMA RoundTurns ==
  ASSUME TurnsInv, Pending = {}, ahead' = ahead,
         \A s \in Series : job'[s].step \in {"none", "queued", "failed"}
  PROVE  TurnsInv'
<1>1. Busy = {} /\ Waiting = {} /\ Busy' = {} /\ Waiting' = {}
  BY DEF Pending, Busy, Waiting
<1>2. Cardinality({}) = 0
  BY FS_EmptySet
<1>3. QED BY <1>1, <1>2, Turns DEF TurnsInv

\* Reserving a slot leaves the turns in order.
LEMMA ThrottleTurns ==
  ASSUME FetchInv, TurnsInv, NEW s \in Series, Throttle(s)
  PROVE  TurnsInv'
<1>1. /\ job \in [Series -> Jobs] /\ ahead \in Nat /\ ahead' = ahead + Interval
      /\ job[s].step = "ask"
  BY DEF FetchInv, ClientTypeOK, Throttle
<1>2. /\ job'[s].step = "wait" /\ job'[s].delay = ahead
      /\ \A t \in Series \ {s} : job'[t] = job[t]
      /\ \A t \in Series : job[t].delay \in Nat
  BY <1>1 DEF Jobs, Throttle
<1>3. Busy' = Busy /\ s \notin Waiting
  BY <1>1, <1>2 DEF Busy, Waiting
<1>4. \A t \in Waiting : job[t].delay < ahead /\ job[t].delay \in Nat /\ job'[t] = job[t]
  BY <1>1, <1>2, <1>3, Turns DEF TurnsInv, Waiting
<1>5. CASE ahead = 0
  <2>1. Waiting = {}
    BY <1>4, <1>5
  <2>2. Waiting' = {}
    BY <1>2, <1>5, <2>1 DEF Waiting
  <2>3. Interval * (Cardinality({}) + 1) = Interval
    BY FS_EmptySet, Turns
  <2>4. QED BY <1>1, <1>3, <1>5, <2>1, <2>2, <2>3, Turns DEF TurnsInv
<1>6. CASE ahead > 0
  <2>1. Waiting' = Waiting \cup {s}
    BY <1>2, <1>6 DEF Waiting
  <2>2. Cardinality(Waiting') = Cardinality(Waiting) + 1
    BY <2>1, <1>3, FinitelyMany, FS_AddElement
  <2>3. ahead' <= Interval * (Cardinality(Waiting') + 1)
    <3> DEFINE m == Cardinality(Waiting) + 1
    <3>1. m \in Nat /\ Cardinality(Waiting') = m /\ ahead <= Interval * m
      BY <2>2, FinitelyMany DEF TurnsInv
    <3>2. Interval * (m + 1) = Interval * m + Interval /\ Interval * m \in Nat
      BY <3>1, Turns
    <3>3. QED BY <3>1, <3>2, <1>1, Turns
  <2>4. ASSUME NEW t \in Waiting
        PROVE  /\ job'[t].delay + Interval <= ahead'
               /\ ahead' <= job'[t].delay + Interval * Cardinality(Behind(t)')
    <3> DEFINE n == Cardinality(Behind(t))
    <3>1. Behind(t)' = Behind(t) \cup {s} /\ s \notin Behind(t)
      BY <1>1, <1>2, <1>3, <1>4, <2>1, <2>4 DEF Behind
    <3>2. Cardinality(Behind(t)') = n + 1 /\ n \in Nat
      BY <3>1, FinitelyMany, FS_AddElement
    <3>3. /\ Interval * Cardinality(Behind(t)') = Interval * n + Interval
          /\ Interval * n \in Nat /\ Interval \in Nat
      BY <3>2, Turns
    <3>4. job[t].delay + Interval <= ahead /\ ahead <= job[t].delay + Interval * n
      BY <2>4 DEF TurnsInv
    <3>5. job'[t].delay = job[t].delay /\ job[t].delay \in Nat
      BY <1>4, <2>4
    <3>6. QED BY <1>1, <3>3, <3>4, <3>5
  <2>5. /\ job'[s].delay + Interval <= ahead'
        /\ ahead' <= job'[s].delay + Interval * Cardinality(Behind(s)')
    <3>1. Behind(s)' = {s}
      <4>1. \A t \in Waiting : ~(job'[t].delay >= job'[s].delay)
        BY <1>1, <1>2, <1>4
      <4>2. QED BY <1>1, <1>2, <2>1, <4>1 DEF Behind
    <3>2. Cardinality(Behind(s)') = 1
      BY <3>1, FS_Singleton
    <3>3. Interval * Cardinality(Behind(s)') = Interval /\ Interval \in Nat
      BY <3>2, Turns
    <3>4. QED BY <1>1, <1>2, <3>3
  <2>6. ASSUME NEW t \in Waiting', NEW u \in Waiting'
        PROVE  t = u \/ job'[t].delay >= job'[u].delay + Interval
                     \/ job'[u].delay >= job'[t].delay + Interval
    <3>1. CASE t \in Waiting /\ u \in Waiting
      BY <1>4, <3>1 DEF TurnsInv
    <3>2. \A v \in Waiting : job'[s].delay >= job'[v].delay + Interval
      BY <1>2, <1>4 DEF TurnsInv
    <3>3. QED BY <2>1, <3>1, <3>2
  <2>7. QED BY <1>3, <2>1, <2>3, <2>4, <2>5, <2>6 DEF TurnsInv
<1>7. QED BY <1>1, <1>5, <1>6

\* So does the passing of time.
LEMMA TickTurns ==
  ASSUME FetchInv, TurnsInv, Tick
  PROVE  TurnsInv'
<1> DEFINE Woken == {s \in Waiting : job[s].delay = 1}
<1>1. job \in [Series -> Jobs] /\ ahead \in Nat /\ ahead > 0 /\ ahead' = ahead - 1
  BY DEF FetchInv, ClientTypeOK, Tick
<1>2. \A s \in Series : /\ job[s].delay \in Nat /\ job'[s].step = job[s].step
                        /\ job'[s].delay = Less(job[s].delay)
  BY <1>1 DEF Tick, Jobs
<1>3. Busy' = Busy
  BY <1>2 DEF Busy
<1>4. Waiting' = Waiting \ Woken
  BY <1>2 DEF Waiting, Less
<1>5. \A s \in Waiting : job[s].delay \in Nat /\ job[s].delay > 0 /\ job'[s].delay = job[s].delay - 1
  BY <1>2 DEF Waiting, Less
<1>6. ASSUME NEW s \in Waiting'
      PROVE  Behind(s)' = Behind(s)
  BY <1>4, <1>5 DEF Behind
<1>7. ASSUME NEW s \in Waiting'
      PROVE  /\ job'[s].delay + Interval <= ahead'
             /\ ahead' <= job'[s].delay + Interval * Cardinality(Behind(s)')
  <2> DEFINE n == Interval * Cardinality(Behind(s))
  <2>1. n \in Nat /\ n = Interval * Cardinality(Behind(s)')
    BY <1>6, FinitelyMany, Turns
  <2>2. s \in Waiting /\ job[s].delay + Interval <= ahead /\ ahead <= job[s].delay + n
    BY <1>4 DEF TurnsInv
  <2>3. QED BY <1>1, <1>5, <2>1, <2>2, Turns
<1>8. ASSUME NEW s \in Waiting', NEW t \in Waiting'
      PROVE  s = t \/ job'[s].delay >= job'[t].delay + Interval
                   \/ job'[t].delay >= job'[s].delay + Interval
  <2>1. s \in Waiting /\ t \in Waiting
    BY <1>4
  <2>2. s = t \/ job[s].delay >= job[t].delay + Interval \/ job[t].delay >= job[s].delay + Interval
    BY <2>1 DEF TurnsInv
  <2>3. QED BY <1>5, <2>1, <2>2, Turns
<1>9. ahead' <= Interval * (Cardinality(Waiting') + 1)
  <2>1. CASE Woken = {}
    <3>1. Waiting' = Waiting
      BY <1>4, <2>1
    <3>2. ahead <= Interval * (Cardinality(Waiting) + 1)
      BY DEF TurnsInv
    <3>3. Interval * (Cardinality(Waiting) + 1) \in Nat
      BY FinitelyMany, Turns
    <3>4. QED BY <1>1, <3>1, <3>2, <3>3
  <2>2. ASSUME NEW w \in Woken
        PROVE  ahead' <= Interval * (Cardinality(Waiting') + 1)
    <3>1. w \in Waiting /\ job[w].delay = 1
      OBVIOUS
    <3>2. ASSUME NEW t \in Woken PROVE t = w
      BY <3>1, Turns DEF TurnsInv
    <3>3. Waiting' = Waiting \ {w}
      BY <1>4, <3>1, <3>2
    <3>4. Cardinality(Waiting') = Cardinality(Waiting) - 1
      BY <3>1, <3>3, FinitelyMany, FS_RemoveElement
    <3>5. Behind(w) = Waiting
      BY <1>5, <3>1 DEF Behind
    <3>6. ahead <= 1 + Interval * Cardinality(Waiting)
      BY <3>1, <3>5 DEF TurnsInv
    <3>7. Cardinality(Waiting') + 1 = Cardinality(Waiting) /\ Interval * Cardinality(Waiting) \in Nat
      BY <3>4, FinitelyMany, Turns
    <3>8. QED BY <1>1, <3>6, <3>7
  <2>3. QED BY <2>1, <2>2
<1>10. QED BY <1>3, <1>7, <1>8, <1>9 DEF TurnsInv

\* At the start nobody waits for a turn.
LEMMA InitTurnsInv == Init => TurnsInv
<1> SUFFICES ASSUME Init PROVE TurnsInv
  OBVIOUS
<1>1. \A s \in Series : job[s].step = "queued"
  BY Fresh DEF Init
<1>2. Busy = {} /\ Waiting = {}
  BY <1>1 DEF Busy, Waiting
<1>3. QED BY <1>2, FS_EmptySet, Turns DEF Init, TurnsInv

\* Every step keeps the turns in order.
LEMMA StepTurnsInv == FetchInv /\ TurnsInv /\ [Next]_vars => TurnsInv'
<1> SUFFICES ASSUME FetchInv, TurnsInv, [Next]_vars PROVE TurnsInv'
  OBVIOUS
<1>1. ASSUME NEW s \in Series, Start(s) PROVE TurnsInv'
  <2> DEFINE j == [job[s] EXCEPT !.step = "ask"]
  <2>1. job[s] \in Jobs /\ job' = [job EXCEPT ![s] = j] /\ j.step = "ask"
    BY <1>1 DEF FetchInv, ClientTypeOK, Start, Jobs
  <2>2. s \notin Waiting /\ ahead' = ahead /\ Cardinality(Busy) < Workers
    BY <1>1 DEF Start, Waiting
  <2>3. QED BY <2>1, <2>2, OneMoves
<1>2. ASSUME NEW s \in Series, TitleCached(s) PROVE TurnsInv'
  <2>1. s \notin Waiting /\ ahead' = ahead
    BY <1>2 DEF TitleCached, Waiting
  <2>2. QED BY <1>2, <2>1, Fresh, OneMoves DEF TitleCached
<1>3. ASSUME NEW s \in Series, Throttle(s) PROVE TurnsInv'
  BY <1>3, ThrottleTurns
<1>4. ASSUME NEW s \in Series, Send(s) \/ Wake(s) PROVE TurnsInv'
  <2>1. job[s] \in Jobs
    BY DEF FetchInv, ClientTypeOK
  <2>2. PICK step \in {"sent", "ask"} : job' = [job EXCEPT ![s] = [job[s] EXCEPT !.step = step]]
    BY <1>4 DEF Send, Wake
  <2>3. [job[s] EXCEPT !.step = step].step = step
    BY <2>1 DEF Jobs
  <2>4. s \notin Waiting /\ s \in Busy /\ ahead' = ahead
    BY <1>4 DEF Send, Wake, Waiting, Busy
  <2>5. QED BY <2>2, <2>3, <2>4, OneMoves
<1>5. ASSUME NEW s \in Series, Page(s) \/ Title(s) \/ Transient(s) \/ Refused(s) PROVE TurnsInv'
  <2>1. job[s] \in Jobs
    BY DEF FetchInv, ClientTypeOK
  <2>2. s \notin Waiting /\ s \in Busy /\ ahead' = ahead
    BY <1>5 DEF Page, Title, Transient, Refused, Waiting, Busy
  <2>3. CASE Page(s)
    <3> DEFINE pages == Append(job[s].pages, Len(job[s].pages) + 1)
               more == Len(pages) < Listing[s]
               j == IF more /\ Len(pages) = MaxPages THEN [Idle EXCEPT !.step = "failed"]
                    ELSE IF more THEN [Idle EXCEPT !.step = "ask", !.pages = pages]
                    ELSE Idle
    <3>1. job' = [job EXCEPT ![s] = j]
      BY <2>3 DEF Page
    <3>2. j.step # "wait"
      BY DEF Idle
    <3>3. QED BY <2>2, <3>1, <3>2, OneMoves
  <2>4. CASE Title(s)
    BY <2>2, <2>4, Fresh, OneMoves DEF Title
  <2>5. CASE Transient(s) \/ Refused(s)
    <3> DEFINE Retry == [job[s] EXCEPT !.step = "backoff", !.attempt = job[s].attempt + 1]
               GiveUp == [Idle EXCEPT !.step = "failed"]
    <3>1. job' = [job EXCEPT ![s] = Retry] \/ job' = [job EXCEPT ![s] = GiveUp]
      BY <2>5 DEF Transient, Refused
    <3>2. Retry.step # "wait" /\ GiveUp.step # "wait"
      BY <2>1 DEF Jobs, Idle
    <3>3. QED BY <2>2, <3>1, <3>2, OneMoves
  <2>6. QED BY <1>5, <2>3, <2>4, <2>5
<1>6. CASE Again \/ Titles
  <2>1. \A s \in Series : job'[s].step \in {"none", "queued", "failed"}
    BY <1>6, Fresh DEF Again, Titles
  <2>2. QED BY <1>6, <2>1, RoundTurns DEF Again, Titles
<1>7. CASE Return \/ UNCHANGED vars
  <2>1. Busy' = Busy /\ Waiting' = Waiting /\ ahead' = ahead /\ job' = job
    BY <1>7 DEF Return, vars, Busy, Waiting
  <2>2. QED BY <2>1, TurnsKept DEF TurnsInv
<1>8. CASE Tick
  BY <1>8, TickTurns
<1>9. QED BY <1>1, <1>2, <1>3, <1>4, <1>5, <1>6, <1>7, <1>8 DEF Next, JobStep

\* The shared throttle keeps its account: the next free slot lies right behind the turns
\* of the threads that still wait (_next_slot, CONCURRENCY workers).
THEOREM TurnsInvariance == Spec => []TurnsInv
<1>1. Init => TurnsInv
  BY InitTurnsInv
<1>2. FetchInv /\ TurnsInv /\ [Next]_vars => TurnsInv'
  BY StepTurnsInv
<1>3. QED BY <1>1, <1>2, FetchInvariance, PTL DEF Spec

\* The turns of all threads lie an interval apart, and nobody waits for more of them than
\* there are threads, however many workers, series and attempts there are.
THEOREM SlotsSpacedHolds == Spec => []SlotsSpaced
<1>1. ASSUME FetchInv, TurnsInv PROVE SlotsSpaced
  <2>1. ASSUME NEW s \in Waiting
        PROVE  job[s].delay <= Interval * Workers
    <3> DEFINE m == Cardinality(Waiting)
    <3>1. m \in Nat /\ m <= Workers
      BY <1>1, FinitelyMany, Turns DEF TurnsInv
    <3> DEFINE taken == Interval * m
               most == Interval * Workers
    <3>2. /\ taken \in Nat /\ most \in Nat /\ Interval \in Nat /\ taken <= most
          /\ Interval * (m + 1) = taken + Interval
      BY <3>1, Turns
    <3>3. job[s].delay + Interval <= ahead /\ ahead <= taken + Interval
      BY <1>1, <2>1, <3>2 DEF TurnsInv
    <3>4. job[s].delay \in Nat /\ ahead \in Nat
      BY <1>1, <2>1 DEF FetchInv, ClientTypeOK, Waiting, Jobs
    <3>5. job[s].delay <= most
      <4> HIDE DEF taken, most
      <4>1. QED BY <3>2, <3>3, <3>4
    <3>6. QED BY <3>5
  <2>2. QED BY <1>1, <2>1 DEF TurnsInv, SlotsSpaced
<1>2. QED BY <1>1, FetchInvariance, TurnsInvariance, PTL
=============================================================================
