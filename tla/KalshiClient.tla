---------------------------- MODULE KalshiClient ----------------------------
(***************************************************************************)
(* kalshi_client.py as fetch.fetch_contracts drives it: the events of many *)
(* series are read page by page by a pool of threads, what failed is read  *)
(* once more from its first page, and then the titles of what was loaded   *)
(* are read.  Every thread takes its turn at one throttle, and a request   *)
(* that meets a transient fault (429, 5xx, a broken connection, a timeout) *)
(* is sent again a few times.                                              *)
(*                                                                         *)
(* Time is relative to now: ahead is how far the next free slot lies in    *)
(* the future, and a waiting thread knows how long it still sleeps.  How   *)
(* long it backs off changes no outcome and is left open.                  *)
(***************************************************************************)
EXTENDS Naturals, Sequences, FiniteSets

CONSTANTS Series,         \* series to fetch
          Listing,        \* series -> the pages its cursor leads through
          Workers,        \* CONCURRENCY
          Interval,       \* 1 / MAX_RPS
          MaxRetries,     \* MAX_RETRIES: attempts of one request
          MaxPages        \* MAX_PAGES

ASSUME ClientAssumption ==
  /\ IsFiniteSet(Series) /\ Listing \in [Series -> Nat \ {0}]
  /\ {Workers, Interval, MaxRetries, MaxPages} \subseteq Nat \ {0}

VARIABLES stage,          \* "events", "again", "titles" or "returned"
          job,            \* series -> what its thread is at
          ahead,          \* max(0, _rl_next - now)
          results,        \* (ticker, pages) of the series that loaded, as they completed
          titled,         \* series whose title and fees are known
          errors          \* series reported as failed
vars == <<stage, job, ahead, results, titled, errors>>

Idle == [step |-> "none", attempt |-> 0, pages |-> <<>>, delay |-> 0]
Queued == [Idle EXCEPT !.step = "queued"]
Busy == {s \in Series : job[s].step \in {"ask", "wait", "sent", "backoff"}}
Pending == {s \in Series : job[s].step = "queued"} \cup Busy
Failed == {s \in Series : job[s].step = "failed"}
Loaded == {results[i].series : i \in DOMAIN results}

Init ==
  /\ stage = "events"
  /\ job = [s \in Series |-> Queued]
  /\ ahead = 0 /\ results = <<>> /\ titled = {} /\ errors = {}

-----------------------------------------------------------------------------
(* A worker picks the series up; a title that is cached needs no request.   *)
Start(s) ==
  /\ job[s].step = "queued" /\ Cardinality(Busy) < Workers
  /\ job' = [job EXCEPT ![s].step = "ask"]
  /\ UNCHANGED <<stage, ahead, results, titled, errors>>

TitleCached(s) ==
  /\ stage = "titles" /\ job[s].step = "queued"
  /\ titled' = titled \cup {s}
  /\ job' = [job EXCEPT ![s] = Idle]
  /\ UNCHANGED <<stage, ahead, results, errors>>

\* Mutant: the floor is counted from now instead of from the slot handed out.
ThrottleFromNow(s) ==
  /\ job[s].step = "ask"
  /\ job' = [job EXCEPT ![s].step = "wait", ![s].delay = ahead]
  /\ ahead' = Interval
  /\ UNCHANGED <<stage, results, titled, errors>>

(* _throttle, _next_slot: the slot is taken under the lock and slept for    *)
(* outside of it.                                                           *)
Throttle(s) ==
  /\ job[s].step = "ask"
  /\ job' = [job EXCEPT ![s].step = "wait", ![s].delay = ahead]
  /\ ahead' = ahead + Interval
  /\ UNCHANGED <<stage, results, titled, errors>>

Send(s) ==
  /\ job[s].step = "wait" /\ job[s].delay = 0
  /\ job' = [job EXCEPT ![s].step = "sent"]
  /\ UNCHANGED <<stage, ahead, results, titled, errors>>

Wake(s) ==
  /\ job[s].step = "backoff"
  /\ job' = [job EXCEPT ![s].step = "ask"]
  /\ UNCHANGED <<stage, ahead, results, titled, errors>>

-----------------------------------------------------------------------------
(* A page of events arrives (get_paginated).  The cursor of the last page   *)
(* is empty; one that goes on past the cap is an error, not a short list.   *)
Page(s) ==
  LET pages == Append(job[s].pages, Len(job[s].pages) + 1)
      more == Len(pages) < Listing[s]
  IN /\ stage # "titles" /\ job[s].step = "sent"
     /\ results' = IF more THEN results ELSE Append(results, [series |-> s, pages |-> pages])
     /\ job' = [job EXCEPT ![s] =
          IF more /\ Len(pages) = MaxPages THEN [Idle EXCEPT !.step = "failed"]
          ELSE IF more THEN [Idle EXCEPT !.step = "ask", !.pages = pages]
          ELSE Idle]
     /\ UNCHANGED <<stage, ahead, titled, errors>>

Title(s) ==
  /\ stage = "titles" /\ job[s].step = "sent"
  /\ titled' = titled \cup {s}
  /\ job' = [job EXCEPT ![s] = Idle]
  /\ UNCHANGED <<stage, ahead, results, errors>>

\* Mutant: attempts are not counted.
TransientForever(s) ==
  /\ job[s].step = "sent"
  /\ job' = [job EXCEPT ![s].step = "backoff"]
  /\ UNCHANGED <<stage, ahead, results, titled, errors>>

(* 429, 5xx, no answer: the same request again, or the series has failed.   *)
Transient(s) ==
  LET attempts == job[s].attempt + 1
  IN /\ job[s].step = "sent"
     /\ job' = [job EXCEPT ![s] = IF attempts < MaxRetries
                                  THEN [@ EXCEPT !.step = "backoff", !.attempt = attempts]
                                  ELSE [Idle EXCEPT !.step = "failed"]]
     /\ UNCHANGED <<stage, ahead, results, titled, errors>>

(* Any other 4xx, or an answer that is no JSON.                             *)
Refused(s) ==
  /\ job[s].step = "sent"
  /\ job' = [job EXCEPT ![s] = [Idle EXCEPT !.step = "failed"]]
  /\ UNCHANGED <<stage, ahead, results, titled, errors>>

-----------------------------------------------------------------------------
\* Mutant: the failures of the first round are reported before the second one is known.
AgainReported ==
  /\ stage = "events" /\ Pending = {} /\ Failed # {}
  /\ stage' = "again"
  /\ errors' = Failed
  /\ job' = [s \in Series |-> IF s \in Failed THEN Queued ELSE Idle]
  /\ UNCHANGED <<ahead, results, titled>>

(* get_events_for_series: what failed is fetched once more, anew.           *)
Again ==
  /\ stage = "events" /\ Pending = {} /\ Failed # {}
  /\ stage' = "again"
  /\ job' = [s \in Series |-> IF s \in Failed THEN Queued ELSE Idle]
  /\ UNCHANGED <<ahead, results, titled, errors>>

(* get_series_meta, of what was loaded.                                     *)
Titles ==
  /\ Pending = {}
  /\ stage = "again" \/ (stage = "events" /\ Failed = {})
  /\ stage' = "titles"
  /\ errors' = Failed
  /\ job' = [s \in Series |-> IF s \in Loaded THEN Queued ELSE Idle]
  /\ UNCHANGED <<ahead, results, titled>>

(* A title that cannot be had is left empty.                                *)
Return ==
  /\ stage = "titles" /\ Pending = {}
  /\ stage' = "returned"
  /\ UNCHANGED <<job, ahead, results, titled, errors>>

Less(n) == IF n > 0 THEN n - 1 ELSE 0
Tick ==
  /\ ahead > 0
  /\ ahead' = ahead - 1
  /\ job' = [s \in Series |-> [job[s] EXCEPT !.delay = Less(@)]]
  /\ UNCHANGED <<stage, results, titled, errors>>

JobStep(s) == \/ Start(s) \/ TitleCached(s) \/ Throttle(s) \/ Send(s) \/ Wake(s)
              \/ Page(s) \/ Title(s) \/ Transient(s) \/ Refused(s)
Next == (\E s \in Series : JobStep(s)) \/ Again \/ Titles \/ Return \/ Tick
Spec == Init /\ [][Next]_vars

(* Threads run, requests are answered or time out, and time passes.         *)
FairSpec == Spec /\ WF_vars(Again \/ Titles \/ Return) /\ WF_vars(Tick)
                 /\ \A s \in Series : WF_vars(JobStep(s))

-----------------------------------------------------------------------------
(* A series is fetched whole or reported: never a listing with a page        *)
(* missing or twice in it, whatever was retried, cut off by the cap or       *)
(* fetched again after a failure, and never both loaded and reported.        *)
SeriesWhole ==
  /\ \A i \in DOMAIN results :
       /\ results[i].pages = [p \in 1 .. Listing[results[i].series] |-> p]
       /\ results[i].series \notin errors
       /\ \A k \in DOMAIN results : results[k].series = results[i].series => k = i
  /\ stage = "returned" => Loaded \cup errors = Series /\ titled \subseteq Loaded

(* The turns of all threads lie at least an interval apart, also when many   *)
(* of them queue for the throttle at once, so the process keeps to MAX_RPS;  *)
(* and nobody waits for more turns than there are threads.                   *)
Waiting == {s \in Series : job[s].step = "wait" /\ job[s].delay > 0}
SlotsSpaced ==
  /\ \A s \in Waiting : /\ job[s].delay + Interval <= ahead
                        /\ job[s].delay <= Interval * Workers
  /\ \A s, t \in Waiting : s = t \/ job[s].delay >= job[t].delay + Interval
                                 \/ job[t].delay >= job[s].delay + Interval

(* A fetch ends, even when nothing ever answers or a cursor runs in a        *)
(* circle: attempts, pages and rounds are all bounded.                       *)
FetchEnds == <>(stage = "returned")
=============================================================================
