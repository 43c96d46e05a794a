----------------------------- MODULE LinkCheck ------------------------------
(***************************************************************************)
(* The external link checker: Checker.Check, the goroutine it starts for   *)
(* every distinct URL, and the per-host rate limiter they share            *)
(* (internal/infrastructure/linkcheck/linkcheck.go).                       *)
(*                                                                         *)
(* A URL is a number, its rank in the sorted list.  The network answers    *)
(* each request as it likes.  Times are kept relative to the clock, in     *)
(* ticks: a slot is so many ticks ahead, and one that is an interval or    *)
(* more behind is forgotten, because rateLimit cannot tell it from no slot *)
(* at all.  A goroutine whose timer has fired sends before the clock moves *)
(* on (BOUND: no scheduling delay between the permission and the request). *)
(***************************************************************************)
EXTENDS Integers, FiniteSets, SequencesExt, Sorting

CONSTANTS
  Hosts,             \* host names
  HostOf,            \* URL -> host
  Inputs,            \* the URL lists Check may be called with
  Configs,           \* the Configs New may be called with
  DefaultRedirects,  \* 5 in the code
  DefaultInterval    \* 200ms in the code, here in ticks

URL == DOMAIN HostOf

ASSUME LinkCheckAssumption ==
  /\ HostOf \in [URL -> Hosts] /\ URL \subseteq Nat
  /\ Inputs \subseteq Seq(URL)
  /\ Configs \subseteq [concurrency : Int, maxRedirects : Int, perHostInterval : Int]
  /\ {DefaultRedirects, DefaultInterval} \subseteq Nat \ {0}

\* New: a zero field means the default, a negative redirect cap means none.
New(c) ==
  [limit     |-> IF c.concurrency < 1 THEN 8 ELSE c.concurrency,
   redirects |-> IF c.maxRedirects < 0 THEN 0
                 ELSE IF c.maxRedirects = 0 THEN DefaultRedirects ELSE c.maxRedirects,
   interval  |-> IF c.perHostInterval = 0 THEN DefaultInterval ELSE c.perHostInterval]

VARIABLES
  cfg,       \* the Config as New normalized it
  input,     \* the urls argument
  uniq,      \* its distinct URLs, sorted
  ctxDone,   \* the context of the run is canceled
  i,         \* position in the loop over the distinct URLs
  returned,  \* Check returned
  sem,       \* slots of the semaphore in use
  g,         \* where the goroutine of each URL is
  method,    \* the method it is trying
  via,       \* requests it has made in the current redirect chain
  lastHost,  \* Checker.lastHost: the slot reserved last on each host
  slot,      \* the slot each goroutine reserved
  out        \* the result map; "none" where it has no entry

request == <<method, via>>
call == <<cfg, input, uniq>>
vars == <<call, ctxDone, i, returned, sem, g, request, lastHost, slot, out>>

\* A slot so far behind constrains nobody.
Forgotten == IF cfg.interval > 0 THEN -cfg.interval ELSE 0

Results == {"ok", "dead", "capped", "canceled"}
Points  == {"none", "guard", "limit", "sleep", "send", "reply", "hop", "finish", "gone"}
Replies == {"good", "bad", "notAllowed", "redirect"}

\* Mutant of Distinct: the list is checked as it comes.
AsGiven(s) == s

\* Check: each URL once, in order.
Distinct(s) == SortedBy(ToSet(s), [u \in URL |-> u])

-----------------------------------------------------------------------------
Init ==
  /\ input \in Inputs /\ uniq = Distinct(input)
  /\ cfg \in {New(c) : c \in Configs}
  /\ ctxDone = FALSE
  /\ i = 1 /\ returned = FALSE /\ sem = 0
  /\ g = [u \in URL |-> "none"]
  /\ method = [u \in URL |-> "HEAD"]
  /\ via = [u \in URL |-> 0]
  /\ lastHost = [h \in Hosts |-> Forgotten]
  /\ slot = [u \in URL |-> Forgotten]
  /\ out = [u \in URL |-> "none"]

Cancel ==
  /\ ~ctxDone
  /\ ctxDone' = TRUE
  /\ UNCHANGED <<call, i, returned, sem, g, request, lastHost, slot, out>>

Older(t) == IF t > Forgotten THEN t - 1 ELSE t

\* The clock moves on, unless somebody may send now.
Tick ==
  /\ \A u \in URL : g[u] # "send" /\ ~(g[u] = "sleep" /\ slot[u] <= 0)
  /\ \E u \in URL : slot[u] > Forgotten
  /\ slot' = [u \in URL |-> Older(slot[u])]
  /\ lastHost' = [h \in Hosts |-> Older(lastHost[h])]
  /\ UNCHANGED <<call, ctxDone, i, returned, sem, g, request, out>>

(* The loop of Check.  When the context is done and the semaphore has room *)
(* the select takes either branch.                                         *)

\* Mutant of Skip: the loop goes on without an entry for the URL.
SkipSilently ==
  /\ i <= Len(uniq) /\ ctxDone
  /\ i' = i + 1
  /\ UNCHANGED <<call, ctxDone, returned, sem, g, request, lastHost, slot, out>>

Skip ==
  /\ i <= Len(uniq) /\ ctxDone
  /\ out' = IF out[uniq[i]] = "none" THEN [out EXCEPT ![uniq[i]] = "canceled"] ELSE out
  /\ i' = i + 1
  /\ UNCHANGED <<call, ctxDone, returned, sem, g, request, lastHost, slot>>

Spawn ==
  /\ i <= Len(uniq) /\ sem < cfg.limit
  /\ sem' = sem + 1
  /\ g' = [g EXCEPT ![uniq[i]] = "guard"]
  /\ i' = i + 1
  /\ UNCHANGED <<call, ctxDone, returned, request, lastHost, slot, out>>

Return ==
  /\ i > Len(uniq) /\ ~returned
  /\ \A u \in URL : g[u] \in {"none", "gone"}
  /\ returned' = TRUE
  /\ UNCHANGED <<call, ctxDone, i, sem, g, request, lastHost, slot, out>>

(* checkOne, in the goroutine of u.  Storing the result in the map ends it. *)

Record(u, r) ==
  /\ out' = [out EXCEPT ![u] = r]
  /\ g' = [g EXCEPT ![u] = "finish"]

\* url.Parse fails, or the guard refuses the URL or fails to look its host
\* up (both set Blocked), or lets it through.
Guard(u) ==
  /\ g[u] = "guard"
  /\ \/ Record(u, "dead")
     \/ g' = [g EXCEPT ![u] = "limit"] /\ UNCHANGED out
  /\ UNCHANGED <<call, ctxDone, i, returned, sem, request, lastHost, slot>>

\* rateLimit, the critical section: the next slot of the host is reserved
\* under the mutex whether or not the goroutine then waits for it.
NextSlot(h) ==
  IF lastHost[h] + cfg.interval > 0 THEN lastHost[h] + cfg.interval ELSE 0

\* Mutant of Reserve: only a goroutine that has to wait stores its slot.
ReserveIfWaiting(u) ==
  /\ g[u] = "limit" /\ cfg.interval > 0
  /\ slot' = [slot EXCEPT ![u] = NextSlot(HostOf[u])]
  /\ lastHost' = IF NextSlot(HostOf[u]) > 0
                 THEN [lastHost EXCEPT ![HostOf[u]] = NextSlot(HostOf[u])] ELSE lastHost
  /\ g' = [g EXCEPT ![u] = IF NextSlot(HostOf[u]) > 0 THEN "sleep" ELSE "send"]
  /\ UNCHANGED <<call, ctxDone, i, returned, sem, request, out>>

Reserve(u) ==
  /\ g[u] = "limit" /\ cfg.interval > 0
  /\ slot' = [slot EXCEPT ![u] = NextSlot(HostOf[u])]
  /\ lastHost' = [lastHost EXCEPT ![HostOf[u]] = NextSlot(HostOf[u])]
  /\ g' = [g EXCEPT ![u] = IF NextSlot(HostOf[u]) > 0 THEN "sleep" ELSE "send"]
  /\ UNCHANGED <<call, ctxDone, i, returned, sem, request, out>>

Unlimited(u) ==
  /\ g[u] = "limit" /\ cfg.interval <= 0
  /\ g' = [g EXCEPT ![u] = "send"]
  /\ UNCHANGED <<call, ctxDone, i, returned, sem, request, lastHost, slot, out>>

Wake(u) ==
  /\ g[u] = "sleep" /\ (slot[u] <= 0 \/ ctxDone)
  /\ g' = [g EXCEPT ![u] = "send"]
  /\ UNCHANGED <<call, ctxDone, i, returned, sem, request, lastHost, slot, out>>

\* client.Do sends nothing on a context that is done.
Send(u) ==
  /\ g[u] = "send"
  /\ IF ctxDone
     THEN Record(u, "dead") /\ UNCHANGED via
     ELSE /\ via' = [via EXCEPT ![u] = @ + 1]
          /\ g' = [g EXCEPT ![u] = "reply"]
          /\ UNCHANGED out
  /\ UNCHANGED <<call, ctxDone, i, returned, sem, method, lastHost, slot>>

\* The reply; "bad" is an error status, a transport error, the timeout or the
\* end of the context, which only the wording of the result tells apart.  A
\* server that refuses HEAD is asked again with GET, a redirect is followed;
\* neither passes through rateLimit.
Reply(u, reply) ==
  /\ g[u] = "reply"
  /\ CASE reply = "good" -> Record(u, "ok") /\ UNCHANGED request
       [] reply = "bad"  -> Record(u, "dead") /\ UNCHANGED request
       [] reply = "notAllowed" /\ method[u] = "GET" ->
            Record(u, "dead") /\ UNCHANGED request
       [] reply = "notAllowed" /\ method[u] = "HEAD" ->
            /\ g' = [g EXCEPT ![u] = "send"]
            /\ method' = [method EXCEPT ![u] = "GET"]
            /\ via' = [via EXCEPT ![u] = 0]
            /\ UNCHANGED out
       [] reply = "redirect" ->
            g' = [g EXCEPT ![u] = "hop"] /\ UNCHANGED <<request, out>>
  /\ UNCHANGED <<call, ctxDone, i, returned, sem, lastHost, slot>>

\* CheckRedirect: the cap, then the guard on the new target.
TooManyRedirects(u) == via[u] >= cfg.redirects

Hop(u) ==
  /\ g[u] = "hop"
  /\ \/ TooManyRedirects(u) /\ Record(u, "capped")
     \/ /\ ~TooManyRedirects(u)
        /\ \/ Record(u, "dead")
           \/ g' = [g EXCEPT ![u] = "send"] /\ UNCHANGED out
  /\ UNCHANGED <<call, ctxDone, i, returned, sem, request, lastHost, slot>>

\* Mutant of Finish: the deferred release is missing.
FinishHolding(u) ==
  /\ g[u] = "finish"
  /\ g' = [g EXCEPT ![u] = "gone"]
  /\ UNCHANGED <<call, ctxDone, i, returned, sem, request, lastHost, slot, out>>

\* The deferred release of the semaphore, then wg.Done.
Finish(u) ==
  /\ g[u] = "finish"
  /\ sem' = sem - 1
  /\ g' = [g EXCEPT ![u] = "gone"]
  /\ UNCHANGED <<call, ctxDone, i, returned, request, lastHost, slot, out>>

Goroutine(u) ==
  \/ Guard(u) \/ Reserve(u) \/ Unlimited(u) \/ Wake(u) \/ Send(u)
  \/ (\E reply \in Replies : Reply(u, reply)) \/ Hop(u) \/ Finish(u)

Loop == Skip \/ Spawn \/ Return

Terminating == returned /\ UNCHANGED vars

Next == Cancel \/ Tick \/ Loop \/ Terminating \/ \E u \in URL : Goroutine(u)

\* Runnable goroutines run, time passes, and the client's timeout answers
\* where the network does not.
Fairness ==
  /\ WF_vars(Loop) /\ WF_vars(Tick)
  /\ \A u \in URL : WF_vars(Goroutine(u))

Spec == Init /\ [][Next]_vars /\ Fairness

-----------------------------------------------------------------------------
\* The types; the semaphore stays within its limit and a chain within one more
\* request than the redirect cap.
TypeOK ==
  /\ cfg \in {New(c) : c \in Configs} /\ input \in Inputs /\ uniq = Distinct(input)
  /\ ctxDone \in BOOLEAN /\ returned \in BOOLEAN
  /\ i \in 1..(Len(uniq) + 1) /\ sem \in 0..cfg.limit
  /\ g \in [URL -> Points]
  /\ method \in [URL -> {"HEAD", "GET"}]
  /\ via \in [URL -> 0..cfg.redirects + 1]
  /\ lastHost \in [Hosts -> Int] /\ slot \in [URL -> Int]
  /\ out \in [URL -> Results \union {"none"}]

InFlight == {u \in URL : g[u] \notin {"none", "gone"}}

\* Check, "the map is complete: every input URL gets a result", whether it was
\* checked, refused or skipped because the context ended, and no URL that was
\* not asked for has one; no goroutine outlives the call.
MapIsComplete ==
  returned => /\ InFlight = {}
              /\ \A u \in URL : out[u] # "none" <=> u \in ToSet(input)

\* Config.Concurrency, "bounds in-flight requests", and the semaphore is given
\* back exactly once by every goroutine that took it.
ConcurrencyBound ==
  Cardinality(InFlight) <= cfg.limit /\ sem = Cardinality(InFlight)

\* rateLimit: the slots handed out on one host are an interval apart, however
\* many goroutines reserve at once and whether or not they wait for theirs; and
\* a goroutine sends its first request ahead of its slot only if canceled.
SlotsAreSpaced ==
  /\ \A u, v \in URL :
       u # v /\ HostOf[u] = HostOf[v] /\ slot[u] >= 0 /\ cfg.interval > 0 =>
         slot[u] - slot[v] >= cfg.interval \/ slot[v] - slot[u] >= cfg.interval
  /\ \A u \in URL : via[u] > 0 /\ slot[u] > 0 => ctxDone

\* A URL is checked once: a recorded verdict is never replaced, so a late
\* goroutine cannot overwrite the entry of a canceled one or the reverse.
VerdictIsFinal ==
  [][\A u \in URL : out[u] # "none" => out'[u] = out[u]]_vars

\* The requests of a chain stay within the cap (one is made in any case), so a
\* redirect loop ends; a URL reported reachable was asked.
ChainsAreBounded ==
  \A u \in URL : /\ via[u] <= IF cfg.redirects = 0 THEN 1 ELSE cfg.redirects
                 /\ out[u] = "ok" => via[u] > 0

\* What one call asks of the network, with the types: the three bounds together.
LoadIsBounded == TypeOK /\ ConcurrencyBound /\ SlotsAreSpaced /\ ChainsAreBounded

\* Check returns: no goroutine waits for a slot or for the semaphore forever.
CheckReturns == <>returned
=============================================================================
