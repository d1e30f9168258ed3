------------------------- MODULE NewsAlerts_proofs -------------------------
(***************************************************************************)
(* Hits survive flushes, windows are written once and the funnel keeps to  *)
(* its limit (NewsAlerts), for every set of news, length of a window,      *)
(* time limit and number of faults; and what the user corrected stays      *)
(* beside the cycles that make the verdicts (AiFunnel).                    *)
(***************************************************************************)
EXTENDS NewsAlerts, FiniteSetTheorems, TLAPS

\* What has not been tried has no attempts.
TriesCounted ==
  \A n \in News : /\ screen[n] = "none" => screenTries[n] = 0
                  /\ analysis[n] = "none" => analysisTries[n] = 0

\* Only a thread that is flushing has popped a window.
OnlyFlushersTake == \A t \in Threads : pc[t] # "flush" => taken[t] = {}

\* on_news_impacts is called with one verdict.
OneVerdict == job["funnel"].kind = "impact" => \E n \in News : job["funnel"].ids = {n}

\* What was popped or written belongs to windows that have ended, of which no hit is
\* left in memory: a window is popped whole, and new hits go to the current one.
WindowsApart ==
  /\ \A t \in Threads : \A h \in taken[t] : Ended(h.win)
  /\ \A d \in digests : Ended(d.win)
  /\ \A h \in windows : /\ \A d \in digests : d.win # h.win
                        /\ \A t \in Threads : \A g \in taken[t] : g.win # h.win

Types == TypeOK /\ TriesCounted /\ OneVerdict
Windows == OnlyFlushersTake /\ WindowsApart /\ HitsKept /\ WindowFlushedOnce
IInv == Types /\ Windows /\ AiAlertsLimited

windowVars == <<clock, pc, windows, taken, digests, buffered>>

-----------------------------------------------------------------------------
\* A clock value lies in its window.
LEMMA WindowOfClock ==
  ASSUME NEW a \in Nat, NEW d \in Nat \ {0}
  PROVE  a \div d \in Nat /\ (a \div d) * d <= a /\ a < (a \div d + 1) * d
OBVIOUS

\* A later time is in no earlier window.
LEMMA WindowsGrow ==
  ASSUME NEW a \in Nat, NEW b \in Nat, a <= b, NEW d \in Nat \ {0}
  PROVE  a \div d <= b \div d
<1> DEFINE x == a \div d
           y == b \div d
<1>1. x * d <= a /\ b < (y + 1) * d /\ x \in Nat /\ y \in Nat
  BY WindowOfClock
<1> HIDE DEF x, y
<1> SUFFICES ASSUME y + 1 <= x PROVE FALSE
  BY <1>1 DEF x, y
<1>2. (y + 1) * d <= x * d
  BY <1>1
<1> QED BY <1>1, <1>2

\* The hits of the current window: it has not ended.
LEMMA CurrentWindow ==
  ASSUME TypeOK, NEW ids \in SUBSET News
  PROVE  Hits(ids) \subseteq Hit /\ \A h \in Hits(ids) : ~Ended(h.win)
<1>1. clock \in Nat /\ MaxClock \in Nat /\ clock <= MaxClock /\ DigestMinutes \in Nat \ {0}
  BY AlertsAssumption DEF TypeOK
<1> DEFINE w == clock \div DigestMinutes
<1>2. w \in Nat /\ w <= MaxClock \div DigestMinutes /\ MaxClock \div DigestMinutes \in Nat
      /\ clock < (w + 1) * DigestMinutes
  BY <1>1, WindowOfClock, WindowsGrow
<1>3. ~Ended(w)
  <2>1. (w + 1) * DigestMinutes \in Nat
    BY <1>1, <1>2
  <2> QED BY <1>1, <1>2, <2>1 DEF Ended
<1> HIDE DEF w
<1>4. Hits(ids) = [news : ids, win : {w}]
  BY DEF Hits, w
<1>5. \A h \in Hits(ids) : h.win = w
  BY <1>4
<1>6. Hits(ids) \subseteq Hit
  BY <1>2, <1>4 DEF Hit
<1> QED BY <1>3, <1>5, <1>6

\* What has ended stays ended.
LEMMA EndedStays ==
  ASSUME TypeOK, NEW h \in Hit, Ended(h.win), clock' \in Nat, clock <= clock'
  PROVE  Ended(h.win)'
<1>1. h.win \in Nat /\ DigestMinutes \in Nat \ {0} /\ clock \in Nat
  <2>1. MaxClock \div DigestMinutes \in Nat
    BY AlertsAssumption, WindowOfClock
  <2> QED BY <2>1, AlertsAssumption DEF TypeOK, Hit
<1>2. (h.win + 1) * DigestMinutes \in Nat
  BY <1>1
<1> QED BY <1>1, <1>2 DEF Ended

\* Who is in a union over the threads.
LEMMA UnionFacts ==
  ASSUME NEW f, NEW T
  PROVE  \A x : x \in UNION {f[t] : t \in T} <=> \E t \in T : x \in f[t]
OBVIOUS

-----------------------------------------------------------------------------
(***************************************************************************)
(* The windows, by what a step does to them                                *)
(***************************************************************************)
\* Nothing happens to them.
LEMMA WindowsUntouched == Windows /\ UNCHANGED windowVars => Windows'
BY DEF Windows, windowVars, OnlyFlushersTake, WindowsApart, HitsKept, WindowFlushedOnce, Ended

\* A thread enters and pops the windows that have ended.
LEMMA EnterWindows ==
  ASSUME Types, Windows, NEW t \in Threads, NEW j, pc[t] # "flush", Enter(t, j),
         UNCHANGED <<clock, digests, buffered>>
  PROVE  Windows'
<1> DEFINE due == {h \in windows : Ended(h.win)}
<1>1. /\ taken' = [taken EXCEPT ![t] = due] /\ windows' = windows \ due
      /\ pc' = [pc EXCEPT ![t] = "flush"]
  BY DEF Enter
<1>2. /\ pc \in [Threads -> {"idle", "flush", "run"}] /\ taken \in [Threads -> SUBSET Hit]
  BY DEF Types, TypeOK
<1>3. taken[t] = {}
  BY DEF Windows, OnlyFlushersTake
<1>4. taken'[t] = due /\ pc'[t] = "flush"
      /\ \A s \in Threads : s # t => taken'[s] = taken[s] /\ pc'[s] = pc[s]
  BY <1>1, <1>2
<1>5. OnlyFlushersTake'
  BY <1>4 DEF Windows, OnlyFlushersTake
<1>6. \A w : Ended(w)' <=> Ended(w)
  BY DEF Ended
<1>7. \A h \in due, g \in windows' : h.win # g.win
  BY <1>1
<1>8. WindowsApart'
  BY <1>1, <1>4, <1>6, <1>7 DEF Windows, WindowsApart
<1>9. HitsKept'
  BY <1>1, <1>3, <1>4 DEF Windows, HitsKept
<1>10. WindowFlushedOnce'
  BY <1>4 DEF Windows, WindowsApart, WindowFlushedOnce
<1> QED BY <1>5, <1>8, <1>9, <1>10 DEF Windows

\* Hits are buffered in the current window, if any.
LEMMA BufferedWindows ==
  ASSUME Types, Windows, NEW ids \in SUBSET News, Buffered(ids),
         UNCHANGED <<clock, digests, taken>>, OnlyFlushersTake'
  PROVE  Windows'
<1>1. windows' = windows \cup Hits(ids) /\ buffered' = buffered \cup Hits(ids)
  BY DEF Buffered
<1>2. \A h \in Hits(ids) : ~Ended(h.win)
  BY CurrentWindow DEF Types
<1>3. \A w : Ended(w)' <=> Ended(w)
  BY DEF Ended
<1>4. WindowsApart'
  BY <1>1, <1>2, <1>3 DEF Windows, WindowsApart
<1>5. HitsKept' /\ WindowFlushedOnce'
  BY <1>1 DEF Windows, HitsKept, WindowFlushedOnce
<1> QED BY <1>4, <1>5 DEF Windows

\* A digest is written: none of its window was there before, so none of its hits is dropped.
LEMMA FlushCommitWindows ==
  ASSUME Types, Windows, NEW t \in Threads, FlushCommit(t)
  PROVE  Windows'
<1>1. /\ taken' = [taken EXCEPT ![t] = {}] /\ UNCHANGED <<clock, windows, buffered>>
      /\ digests' = digests \cup {h \in taken[t] : \A d \in digests : d.win # h.win}
      /\ pc' \in {[pc EXCEPT ![t] = "idle"], [pc EXCEPT ![t] = "run"]}
  BY DEF FlushCommit, Leave
<1>2. /\ pc \in [Threads -> {"idle", "flush", "run"}] /\ taken \in [Threads -> SUBSET Hit]
  BY DEF Types, TypeOK
<1>3. digests' = digests \cup taken[t]
  BY <1>1 DEF Windows, WindowFlushedOnce
<1>4. taken'[t] = {} /\ \A s \in Threads : s # t => taken'[s] = taken[s] /\ pc'[s] = pc[s]
  BY <1>1, <1>2
<1>5. OnlyFlushersTake'
  BY <1>4 DEF Windows, OnlyFlushersTake
<1>6. \A w : Ended(w)' <=> Ended(w)
  BY <1>1 DEF Ended
<1>7. WindowsApart'
  BY <1>1, <1>3, <1>4, <1>6 DEF Windows, WindowsApart
<1>8. HitsKept'
  <2> SUFFICES ASSUME NEW h \in buffered
               PROVE  h \in windows \/ h \in digests' \/ \E s \in Threads : h \in taken'[s]
    BY <1>1, UnionFacts DEF HitsKept
  <2>1. h \in windows \/ h \in digests \/ \E s \in Threads : h \in taken[s]
    BY UnionFacts DEF Windows, HitsKept
  <2> QED BY <1>3, <1>4, <2>1
<1>9. WindowFlushedOnce'
  BY <1>3, <1>4 DEF Windows, WindowFlushedOnce
<1> QED BY <1>5, <1>7, <1>8, <1>9 DEF Windows

\* A failed flush puts back what it popped.
LEMMA FlushFailWindows ==
  ASSUME Types, Windows, NEW t \in Threads, FlushFail(t)
  PROVE  Windows'
<1>1. /\ taken' = [taken EXCEPT ![t] = {}] /\ UNCHANGED <<clock, digests, buffered>>
      /\ windows' = windows \cup taken[t]
      /\ pc' \in {[pc EXCEPT ![t] = "idle"], [pc EXCEPT ![t] = "run"]}
  BY DEF FlushFail, Leave, dbVars
<1>2. /\ pc \in [Threads -> {"idle", "flush", "run"}] /\ taken \in [Threads -> SUBSET Hit]
  BY DEF Types, TypeOK
<1>4. taken'[t] = {} /\ \A s \in Threads : s # t => taken'[s] = taken[s] /\ pc'[s] = pc[s]
  BY <1>1, <1>2
<1>5. OnlyFlushersTake'
  BY <1>4 DEF Windows, OnlyFlushersTake
<1>6. \A w : Ended(w)' <=> Ended(w)
  BY <1>1 DEF Ended
<1>7. WindowsApart'
  BY <1>1, <1>4, <1>6 DEF Windows, WindowsApart, WindowFlushedOnce
<1>8. HitsKept'
  BY <1>1, <1>4 DEF Windows, HitsKept
<1>9. WindowFlushedOnce'
  BY <1>1, <1>4 DEF Windows, WindowFlushedOnce
<1> QED BY <1>5, <1>7, <1>8, <1>9 DEF Windows

\* A thread that is done leaves.
LEMMA LeaveWindows ==
  ASSUME Types, Windows, NEW t \in Threads, pc[t] = "run", Leave(t)
  PROVE  (UNCHANGED taken => OnlyFlushersTake')
         /\ (UNCHANGED <<clock, windows, taken, digests, buffered>> => Windows')
<1>1. pc' = [pc EXCEPT ![t] = "idle"] /\ pc \in [Threads -> {"idle", "flush", "run"}]
  BY DEF Leave, Types, TypeOK
<1>2. UNCHANGED taken => OnlyFlushersTake'
  BY <1>1 DEF Windows, OnlyFlushersTake
<1> QED BY <1>2 DEF Windows, WindowsApart, HitsKept, WindowFlushedOnce, Ended

\* No step loses a hit, takes a window twice or adds to one that is being written.
LEMMA NextWindows == Types /\ Windows /\ [Next]_vars => Windows'
<1> SUFFICES ASSUME Types, Windows, [Next]_vars PROVE Windows'
  OBVIOUS
<1> USE DEF windowVars, dbVars, memVars, position
<1>T. "queue" \in Threads /\ "funnel" \in Threads /\ "quote" \in Threads
  BY DEF Threads
<1>1. CASE NewsBatch
  BY <1>1, <1>T, EnterWindows DEF NewsBatch
<1>2. ASSUME NEW t \in Threads, Flusher(t) PROVE Windows'
  BY <1>2, FlushCommitWindows, FlushFailWindows, EnterWindows DEF Flusher, FlushDue
<1>3. CASE Defer
  BY <1>3, <1>T, LeaveWindows DEF Defer, Running
<1>4. CASE DeferFail
  BY <1>4, <1>T, EnterWindows DEF DeferFail, Running
<1>5. CASE Keyword
  <2>1. pc["queue"] = "run" /\ Leave("queue") /\ UNCHANGED <<clock, digests, taken>>
    BY <1>5 DEF Keyword, Running
  <2>2. job["queue"].ids \in SUBSET News
    BY <1>T DEF Types, TypeOK, Job
  <2>3. Buffered(job["queue"].ids) \/ UNCHANGED <<windows, buffered>>
    BY <1>5 DEF Keyword
  <2> QED BY <1>T, <2>1, <2>2, <2>3, LeaveWindows, BufferedWindows
<1>6. CASE KeywordFail
  <2>1. pc["queue"] = "run" /\ Leave("queue") /\ UNCHANGED <<clock, digests, taken>>
    BY <1>6 DEF KeywordFail, Running
  <2>2. job["queue"].ids \in SUBSET News
    BY <1>T DEF Types, TypeOK, Job
  <2>3. PICK ids \in SUBSET News : Buffered(ids)
    BY <1>6, <2>2 DEF KeywordFail
  <2> QED BY <1>T, <2>1, <2>3, LeaveWindows, BufferedWindows
<1>7. CASE Sweep
  <2>1. CASE UNCHANGED <<pc, job, taken, windows>>
    BY <1>7, <2>1, WindowsUntouched DEF Sweep
  <2>2. CASE \E ids : Enter("queue", [kind |-> "keyword", ids |-> ids])
    BY <1>7, <1>T, <2>2, EnterWindows DEF Sweep
  <2> QED BY <1>7, <2>1, <2>2 DEF Sweep
<1>8. ASSUME NEW n \in News, Screen(n) PROVE Windows'
  BY <1>8, WindowsUntouched DEF Screen
<1>9. ASSUME NEW n \in News, Analyze(n) PROVE Windows'
  BY <1>9, WindowsUntouched DEF Analyze
<1>10. ASSUME NEW n \in News, NewsImpacts(n) PROVE Windows'
  BY <1>10, <1>T, EnterWindows DEF NewsImpacts
<1>11. CASE Impact
  <2>1. pc["funnel"] = "run" /\ Leave("funnel") /\ UNCHANGED <<clock, digests, taken>>
    BY <1>11 DEF Impact, Running
  <2>2. PICK n \in News : job["funnel"].ids = {n}
    BY <1>11 DEF Impact, Running, Types, OneVerdict
  <2>3. (CHOOSE i \in News : job["funnel"].ids = {i}) \in News
    BY <2>2
  <2>4. (\E ids \in SUBSET News : Buffered(ids)) \/ UNCHANGED <<windows, buffered>>
    BY <1>11, <2>3 DEF Impact
  <2> QED BY <1>T, <2>1, <2>4, LeaveWindows, BufferedWindows
<1>12. CASE ImpactFail
  <2>1. pc["funnel"] = "run" /\ Leave("funnel") /\ UNCHANGED <<clock, digests, taken>>
    BY <1>12 DEF ImpactFail, Running
  <2>2. job["funnel"].ids \in SUBSET News
    BY <1>T DEF Types, TypeOK, Job
  <2>3. PICK ids \in SUBSET News : Buffered(ids)
    BY <1>12, <2>2 DEF ImpactFail
  <2> QED BY <1>T, <2>1, <2>3, LeaveWindows, BufferedWindows
<1>13. CASE Restart
  <2>1. /\ windows' = {} /\ digests' = digests /\ buffered' = digests /\ clock' = clock
        /\ \A t \in Threads : taken'[t] = {}
    BY <1>13 DEF Restart
  <2>2. OnlyFlushersTake' /\ WindowFlushedOnce'
    BY <2>1 DEF OnlyFlushersTake, WindowFlushedOnce
  <2>4. HitsKept'
    BY <2>1, Zenon DEF HitsKept
  <2>3. WindowsApart'
    BY <2>1 DEF Windows, WindowsApart, Ended
  <2> QED BY <2>2, <2>3, <2>4 DEF Windows
<1>14. CASE Trade
  BY <1>14, WindowsUntouched DEF Trade
<1>15. CASE Tick
  <2>1. clock' \in Nat /\ clock <= clock' /\ UNCHANGED memVars /\ UNCHANGED digests
    BY <1>15, AlertsAssumption DEF Tick, Types, TypeOK
  <2>2. WindowsApart'
    BY <2>1, EndedStays DEF Windows, WindowsApart, Types, TypeOK
  <2> QED BY <2>1, <2>2 DEF Windows, OnlyFlushersTake, HitsKept, WindowFlushedOnce
<1>16. CASE UNCHANGED vars
  BY <1>16, WindowsUntouched DEF vars
<1> QED BY <1>T, <1>1, <1>2, <1>3, <1>4, <1>5, <1>6, <1>7, <1>8, <1>9, <1>10, <1>11, <1>12,
           <1>13, <1>14, <1>15, <1>16 DEF Next, Queue, Funnel, Flusher

-----------------------------------------------------------------------------
(***************************************************************************)
(* The types                                                               *)
(***************************************************************************)
\* A thread that enters or leaves has a place, a job and hits of the right kind.
LEMMA EnterTypes ==
  ASSUME TypeOK, NEW t \in Threads, NEW j \in Job, Enter(t, j)
  PROVE  /\ pc' \in [Threads -> {"idle", "flush", "run"}] /\ job' \in [Threads -> Job]
         /\ taken' \in [Threads -> SUBSET Hit] /\ windows' \subseteq Hit
         /\ \A s \in Threads : s # t => job'[s] = job[s]
         /\ job'[t] = j
BY DEF TypeOK, Enter

\* A thread that leaves keeps the others' jobs.
LEMMA LeaveTypes ==
  ASSUME TypeOK, NEW t \in Threads, Leave(t)
  PROVE  /\ pc' \in [Threads -> {"idle", "flush", "run"}] /\ job' \in [Threads -> Job]
         /\ \A s \in Threads : s # t => job'[s] = job[s]
         /\ job'[t].kind = "none"
BY DEF TypeOK, Leave, NoJob, Job

\* What is buffered are hits.
LEMMA BufferedTypes ==
  ASSUME TypeOK, NEW ids \in SUBSET News, Buffered(ids)
  PROVE  windows' \subseteq Hit /\ buffered' \subseteq Hit
BY CurrentWindow DEF TypeOK, Buffered

\* Faults are counted up to their bound.
LEMMA FaultTypes == TypeOK /\ Fault => faults' \in 0..MaxFaults
BY AlertsAssumption DEF TypeOK, Fault

\* A flush, whether it succeeds or fails, keeps to the types.
LEMMA FlushTypes ==
  ASSUME Types, NEW t \in Threads, FlushCommit(t) \/ FlushFail(t)
  PROVE  Types'
<1> USE DEF Types, dbVars, position
<1>1. /\ pc' \in [Threads -> {"idle", "flush", "run"}] /\ job' \in [Threads -> Job]
      /\ job'["funnel"] = job["funnel"] \/ job'["funnel"].kind = "none"
  <2>1. CASE Leave(t)
    BY <2>1, LeaveTypes DEF Threads
  <2>2. CASE pc' = [pc EXCEPT ![t] = "run"] /\ UNCHANGED job
    BY <2>2 DEF TypeOK
  <2> QED BY <2>1, <2>2 DEF FlushCommit, FlushFail
<1>2. taken' \in [Threads -> SUBSET Hit] /\ windows' \subseteq Hit /\ digests' \subseteq Hit
  BY DEF FlushCommit, FlushFail, TypeOK
<1>3. faults' \in 0..MaxFaults
  BY FaultTypes DEF FlushCommit, FlushFail, TypeOK
<1>4. UNCHANGED <<position, clock, scored, screen, screenTries, analysis, analysisTries,
                  deferredAt, immediate, byAi, calls, buffered, expired>>
  BY DEF FlushCommit, FlushFail
<1>5. TypeOK'
  BY <1>1, <1>2, <1>3, <1>4 DEF TypeOK
<1> QED BY <1>1, <1>4, <1>5 DEF TriesCounted, OneVerdict

\* A thread enters with a job; the rows and the other threads stay as they are.
LEMMA EnterKeepsTypes ==
  ASSUME Types, NEW t \in Threads, NEW j \in Job, Enter(t, j),
         t = "funnel" => \E n \in News : j.ids = {n},
         scored' \subseteq News, faults' \in 0..MaxFaults, calls' \subseteq News,
         expired' \subseteq News, deferredAt' \in [News -> {NoRow} \cup 0..MaxClock],
         UNCHANGED <<position, clock, screen, screenTries, analysis, analysisTries,
                     immediate, byAi, digests, buffered>>
  PROVE  Types'
<1> USE DEF Types, position
<1>1. TypeOK'
  BY EnterTypes DEF TypeOK
<1>2. OneVerdict'
  <2>1. CASE t = "funnel"
    BY <2>1, EnterTypes DEF OneVerdict
  <2>2. CASE t # "funnel"
    <3>1. job'["funnel"] = job["funnel"]
      BY <2>2, EnterTypes DEF Threads
    <3> QED BY <3>1 DEF OneVerdict
  <2> QED BY <2>1, <2>2
<1> QED BY <1>1, <1>2 DEF TriesCounted

\* A thread leaves with rows written, or hits buffered, or nothing.
LEMMA LeaveKeepsTypes ==
  ASSUME Types, NEW t \in Threads, Leave(t),
         faults' \in 0..MaxFaults, immediate' \subseteq News, byAi' \subseteq immediate',
         deferredAt' \in [News -> {NoRow} \cup 0..MaxClock],
         windows' \subseteq Hit, buffered' \subseteq Hit,
         UNCHANGED <<position, clock, scored, screen, screenTries, analysis, analysisTries,
                     digests, taken, calls, expired>>
  PROVE  Types'
<1> USE DEF Types, position
<1>1. TypeOK'
  BY LeaveTypes DEF TypeOK
<1>2. OneVerdict'
  <2>1. job'["funnel"] = job["funnel"] \/ job'["funnel"].kind = "none"
    BY LeaveTypes DEF Threads
  <2> QED BY <2>1 DEF OneVerdict
<1> QED BY <1>1, <1>2 DEF TriesCounted

\* Every step keeps to the types, and to attempts that were made.
LEMMA NextTypes == Types /\ [Next]_vars => Types'
<1> SUFFICES ASSUME Types, [Next]_vars PROVE Types'
  OBVIOUS
<1> USE AlertsAssumption DEF dbVars, memVars, position
<1>T. "queue" \in Threads /\ "funnel" \in Threads /\ "quote" \in Threads
  BY DEF Threads
<1>F. Fault => faults' \in 0..MaxFaults
  BY FaultTypes DEF Types
<1>J. job["queue"].ids \in SUBSET News /\ job["funnel"].ids \in SUBSET News
  BY <1>T DEF Types, TypeOK, Job
<1>1. CASE NewsBatch
  <2>1. PICK ids \in (SUBSET (News \ scored)) \ {{}}, ai \in BOOLEAN :
          /\ scored' = scored \cup ids
          /\ Enter("queue", [kind |-> IF ai THEN "defer" ELSE "keyword", ids |-> ids])
    BY <1>1 DEF NewsBatch
  <2>2. [kind |-> IF ai THEN "defer" ELSE "keyword", ids |-> ids] \in Job
    BY DEF Job
  <2>3. scored' \subseteq News
    BY <2>1 DEF Types, TypeOK
  <2>4. /\ faults' \in 0..MaxFaults /\ calls' \subseteq News /\ expired' \subseteq News
        /\ deferredAt' \in [News -> {NoRow} \cup 0..MaxClock]
    BY <1>1 DEF NewsBatch, Types, TypeOK
  <2> QED BY <1>1, <1>T, <2>1, <2>2, <2>3, <2>4, EnterKeepsTypes DEF NewsBatch
<1>2. ASSUME NEW t \in Threads, Flusher(t) PROVE Types'
  <2>1. CASE FlushDue(t)
    <3>1. [kind |-> "flush", ids |-> {}] \in Job /\ t # "funnel"
      BY <2>1 DEF FlushDue, Job
    <3>2. /\ faults' \in 0..MaxFaults /\ calls' \subseteq News /\ expired' \subseteq News
          /\ scored' \subseteq News /\ deferredAt' \in [News -> {NoRow} \cup 0..MaxClock]
      BY <2>1 DEF FlushDue, Types, TypeOK
    <3> QED BY <2>1, <3>1, <3>2, EnterKeepsTypes DEF FlushDue
  <2> QED BY <1>2, <2>1, FlushTypes DEF Flusher
<1>3. CASE Defer
  <2>1. deferredAt' \in [News -> {NoRow} \cup 0..MaxClock]
    BY <1>3 DEF Defer, Types, TypeOK
  <2>2. /\ faults' \in 0..MaxFaults /\ immediate' \subseteq News /\ byAi' \subseteq immediate'
        /\ windows' \subseteq Hit /\ buffered' \subseteq Hit
    BY <1>3 DEF Defer, Types, TypeOK
  <2> QED BY <1>3, <1>T, <2>1, <2>2, LeaveKeepsTypes DEF Defer
<1>4. CASE DeferFail
  <2>1. [kind |-> "keyword", ids |-> job["queue"].ids] \in Job
    BY <1>J DEF Job
  <2>2. /\ scored' \subseteq News /\ calls' \subseteq News /\ expired' \subseteq News
        /\ deferredAt' \in [News -> {NoRow} \cup 0..MaxClock]
    BY <1>4 DEF DeferFail, Types, TypeOK
  <2> QED BY <1>4, <1>T, <1>F, <2>1, <2>2, EnterKeepsTypes DEF DeferFail
<1>5. CASE Keyword
  <2>1. immediate' \subseteq News /\ byAi' \subseteq immediate'
    BY <1>5, <1>J DEF Keyword, Types, TypeOK
  <2>2. windows' \subseteq Hit /\ buffered' \subseteq Hit
    BY <1>5, <1>J, BufferedTypes DEF Keyword, Types, TypeOK
  <2>3. faults' \in 0..MaxFaults /\ deferredAt' \in [News -> {NoRow} \cup 0..MaxClock]
    BY <1>5 DEF Keyword, Types, TypeOK
  <2> QED BY <1>5, <1>T, <2>1, <2>2, <2>3, LeaveKeepsTypes DEF Keyword
<1>6. CASE KeywordFail
  <2>1. windows' \subseteq Hit /\ buffered' \subseteq Hit
    BY <1>6, <1>J, BufferedTypes DEF KeywordFail, Types
  <2>2. /\ immediate' \subseteq News /\ byAi' \subseteq immediate'
        /\ deferredAt' \in [News -> {NoRow} \cup 0..MaxClock]
    BY <1>6 DEF KeywordFail, Types, TypeOK
  <2> QED BY <1>6, <1>T, <1>F, <2>1, <2>2, LeaveKeepsTypes DEF KeywordFail
<1>7. CASE Sweep
  <2> DEFINE rows == {n \in News : deferredAt[n] # NoRow}
             late == {n \in rows : ~Handled(n) /\ clock - deferredAt[n] >= Timeout}
  <2>1. deferredAt' \in [News -> {NoRow} \cup 0..MaxClock] /\ expired' \subseteq News
    BY <1>7 DEF Sweep, Types, TypeOK
  <2>2. /\ faults' \in 0..MaxFaults /\ calls' \subseteq News /\ scored' \subseteq News
    BY <1>7 DEF Sweep, Types, TypeOK
  <2>3. CASE UNCHANGED <<pc, job, taken, windows>>
    BY <1>7, <2>1, <2>2, <2>3 DEF Sweep, Types, TypeOK, TriesCounted, OneVerdict
  <2>4. CASE Enter("queue", [kind |-> "keyword", ids |-> late])
    <3>1. [kind |-> "keyword", ids |-> late] \in Job
      BY DEF Job
    <3> QED BY <1>7, <1>T, <2>1, <2>2, <2>4, <3>1, EnterKeepsTypes DEF Sweep
  <2> QED BY <1>7, <2>3, <2>4 DEF Sweep
<1>8. ASSUME NEW n \in News, Screen(n) PROVE Types'
  <2>1. /\ screen' \in [News -> {"none", "error", "low", "deep"}] /\ screen'[n] # "none"
        /\ \A m \in News : m # n => screen'[m] = screen[m]
    BY <1>8 DEF Screen, Types, TypeOK
  <2>2. screenTries[n] \in 0..MaxAttempts /\ screenTries[n] < MaxAttempts
    BY <1>8 DEF Screen, Retryable, Types, TypeOK, TriesCounted
  <2>3. /\ screenTries' \in [News -> 0..MaxAttempts]
        /\ \A m \in News : m # n => screenTries'[m] = screenTries[m]
    BY <1>8, <2>2 DEF Screen, Types, TypeOK
  <2>4. TypeOK'
    BY <1>8, <2>1, <2>3 DEF Screen, Types, TypeOK
  <2> QED BY <1>8, <2>1, <2>3, <2>4 DEF Screen, Types, TriesCounted, OneVerdict
<1>9. ASSUME NEW n \in News, Analyze(n) PROVE Types'
  <2>1. /\ analysis' \in [News -> {"none", "error", "ok"}] /\ analysis'[n] # "none"
        /\ \A m \in News : m # n => analysis'[m] = analysis[m]
    BY <1>9 DEF Analyze, Types, TypeOK
  <2>2. analysisTries[n] \in 0..MaxAttempts /\ analysisTries[n] < MaxAttempts
    BY <1>9 DEF Analyze, Retryable, Types, TypeOK, TriesCounted
  <2>3. /\ analysisTries' \in [News -> 0..MaxAttempts]
        /\ \A m \in News : m # n => analysisTries'[m] = analysisTries[m]
    BY <1>9, <2>2 DEF Analyze, Types, TypeOK
  <2>4. calls' \subseteq News
    BY <1>9 DEF Analyze, Types, TypeOK
  <2>5. TypeOK'
    BY <1>9, <2>1, <2>3, <2>4 DEF Analyze, Types, TypeOK
  <2> QED BY <1>9, <2>1, <2>3, <2>5 DEF Analyze, Types, TriesCounted, OneVerdict
<1>10. ASSUME NEW n \in News, NewsImpacts(n) PROVE Types'
  <2>1. [kind |-> "impact", ids |-> {n}] \in Job
    BY DEF Job
  <2>2. /\ scored' \subseteq News /\ calls' \subseteq News /\ expired' \subseteq News
        /\ faults' \in 0..MaxFaults /\ deferredAt' \in [News -> {NoRow} \cup 0..MaxClock]
    BY <1>10 DEF NewsImpacts, Types, TypeOK
  <2> QED BY <1>10, <1>T, <2>1, <2>2, EnterKeepsTypes DEF NewsImpacts
<1>11. CASE Impact
  <2> DEFINE n == CHOOSE i \in News : job["funnel"].ids = {i}
  <2>1. n \in News
    BY <1>11 DEF Impact, Running, Types, OneVerdict
  <2>2. immediate' \subseteq News /\ byAi' \subseteq immediate'
    BY <1>11, <2>1 DEF Impact, Types, TypeOK
  <2>3. windows' \subseteq Hit /\ buffered' \subseteq Hit
    <3>1. CASE Buffered({n})
      BY <2>1, <3>1, BufferedTypes DEF Types
    <3>2. CASE UNCHANGED <<windows, buffered>>
      BY <3>2 DEF Types, TypeOK
    <3> QED BY <1>11, <3>1, <3>2 DEF Impact
  <2>4. faults' \in 0..MaxFaults /\ deferredAt' \in [News -> {NoRow} \cup 0..MaxClock]
    BY <1>11 DEF Impact, Types, TypeOK
  <2> HIDE DEF n
  <2> QED BY <1>11, <1>T, <2>2, <2>3, <2>4, LeaveKeepsTypes DEF Impact
<1>12. CASE ImpactFail
  <2>1. windows' \subseteq Hit /\ buffered' \subseteq Hit
    BY <1>12, <1>J, BufferedTypes DEF ImpactFail, Types
  <2>2. /\ immediate' \subseteq News /\ byAi' \subseteq immediate'
        /\ deferredAt' \in [News -> {NoRow} \cup 0..MaxClock]
    BY <1>12 DEF ImpactFail, Types, TypeOK
  <2> QED BY <1>12, <1>T, <1>F, <2>1, <2>2, LeaveKeepsTypes DEF ImpactFail
<1>13. CASE Restart
  <2>1. NoJob \in Job /\ NoJob.kind = "none"
    BY DEF NoJob, Job
  <2>2. TypeOK'
    BY <1>13, <1>F, <2>1 DEF Restart, Types, TypeOK
  <2>3. OneVerdict'
    BY <1>13, <1>T, <2>1 DEF Restart, OneVerdict
  <2> QED BY <1>13, <2>2, <2>3 DEF Restart, Types, TriesCounted
<1>14. CASE Trade
  <2>1. held' \in BOOLEAN /\ trades' \in 0..MaxTrades
    BY <1>14 DEF Trade, Types, TypeOK
  <2> QED BY <1>14, <2>1 DEF Trade, Types, TypeOK, TriesCounted, OneVerdict
<1>15. CASE Tick
  <2>1. clock' \in 0..MaxClock
    BY <1>15 DEF Tick, Types, TypeOK
  <2> QED BY <1>15, <2>1 DEF Tick, Types, TypeOK, TriesCounted, OneVerdict
<1>16. CASE UNCHANGED vars
  BY <1>16 DEF vars, Types, TypeOK, TriesCounted, OneVerdict
<1> QED BY <1>T, <1>1, <1>2, <1>3, <1>4, <1>5, <1>6, <1>7, <1>8, <1>9, <1>10, <1>11, <1>12,
           <1>13, <1>14, <1>15, <1>16 DEF Next, Queue, Funnel, Flusher

-----------------------------------------------------------------------------
(***************************************************************************)
(* The daily limit                                                         *)
(***************************************************************************)
\* The funnel's alerts are among the day's, so one more while those are below the
\* limit cannot exceed it.
LEMMA NextLimited == Types /\ AiAlertsLimited /\ [Next]_vars => AiAlertsLimited'
<1> SUFFICES ASSUME Types, AiAlertsLimited, [Next]_vars PROVE AiAlertsLimited'
  OBVIOUS
<1>1. CASE Impact
  <2> DEFINE n == CHOOSE i \in News : job["funnel"].ids = {i}
  <2>1. IsFiniteSet(immediate) /\ byAi \in SUBSET immediate
    BY AlertsAssumption, FS_Subset DEF Types, TypeOK
  <2>2. IsFiniteSet(byAi) /\ Cardinality(byAi) <= Cardinality(immediate)
        /\ Cardinality(byAi) \in Nat /\ Cardinality(immediate) \in Nat
    BY <2>1, FS_Subset, FS_CardinalityType
  <2>3. byAi' = byAi \/ (UnderLimit /\ byAi' = byAi \cup {n})
    <3>1. IF held /\ UnderLimit THEN byAi' = IF n \in immediate THEN byAi ELSE byAi \cup {n}
                               ELSE byAi' = byAi
      BY <1>1, Zenon DEF Impact
    <3> HIDE DEF n
    <3> QED BY <3>1
  <2> HIDE DEF n
  <2>4. Cardinality(byAi \cup {n}) <= Cardinality(byAi) + 1 /\ Cardinality(byAi \cup {n}) \in Nat
    <3>1. Cardinality(byAi \cup {n}) = IF n \in byAi THEN Cardinality(byAi) ELSE Cardinality(byAi) + 1
      BY <2>2, FS_AddElement
    <3> QED BY <2>2, <3>1
  <2> QED BY <2>2, <2>3, <2>4, AlertsAssumption DEF AiAlertsLimited, UnderLimit
<1>2. CASE UNCHANGED byAi
  BY <1>2 DEF AiAlertsLimited
<1>3. CASE ~Impact
  BY <1>3, <1>2 DEF Next, Queue, Funnel, Flusher, NewsBatch, FlushCommit, FlushFail, FlushDue, Defer,
     DeferFail, Keyword, KeywordFail, Sweep, Screen, Analyze, NewsImpacts, ImpactFail,
     Restart, Trade, Tick, vars, dbVars
<1> QED BY <1>1, <1>3

-----------------------------------------------------------------------------
\* At first there are no hits.
LEMMA InitIInv == Init => IInv
<1> SUFFICES ASSUME Init PROVE IInv
  OBVIOUS
<1> USE AlertsAssumption DEF Init
<1>1. TypeOK
  BY DEF TypeOK, NoJob, Job
<1>2. TriesCounted /\ OneVerdict
  BY DEF TriesCounted, OneVerdict, NoJob, Threads
<1>3. Windows
  BY DEF Windows, OnlyFlushersTake, WindowsApart, HitsKept, WindowFlushedOnce
<1>4. AiAlertsLimited
  BY FS_EmptySet DEF AiAlertsLimited
<1> QED BY <1>1, <1>2, <1>3, <1>4 DEF IInv, Types

\* No hit is lost, no window written twice and the daily limit exceeded by no
\* interleaving of the three threads, failed transactions, trades and restarts.
THEOREM WindowsTheorem == Spec => []WindowsAreSafe
<1>1. IInv /\ [Next]_vars => IInv'
  BY NextTypes, NextWindows, NextLimited DEF IInv
<1>2. IInv => WindowsAreSafe
  BY DEF IInv, Types, Windows, WindowsAreSafe
<1> QED BY InitIInv, <1>1, <1>2, PTL DEF Spec

-----------------------------------------------------------------------------
(***************************************************************************)
(* AiFunnel, which makes the verdicts NewsAlerts is called with: items,    *)
(* attempts and faults are those of NewsAlerts, all else is its own.       *)
(***************************************************************************)
CONSTANTS BatchSize, ScreenBatches, PerCycle, ReadLimit, Budget, FlushAt, MaxCorrected

VARIABLES
  screenLeft, deep, readings, impacts, corrected, saved, buffer, logged, flushing,
  phase, step, reply, rounds, todo, draft, alerts, spent, cycleFaults

Ai == INSTANCE AiFunnel WITH
  screen <- screenLeft, analysis <- readings, taken <- logged, faults <- cycleFaults,
  DailyLimit <- ReadLimit

\* What is being screened has attempts left, and so has what is or will be read.
AttemptsLeft ==
  /\ phase \in {"idle", "sector", "alert"} => todo = {}
  /\ phase = "screen" => todo \subseteq Ai!Unscreened
  /\ phase = "read" => \A n \in todo : readings[n].failed < MaxAttempts
  /\ \A n \in News : draft[n].status # "none" => readings[n].failed < MaxAttempts

FunnelInv == Ai!TypeOK /\ AttemptsLeft

\* No step takes a row of the user's away, but one of the user.
UserKept ==
  \A n \in News : "user" \in impacts[n] => "user" \in impacts'[n] \/ impacts'[n] = {}

UsageTypes ==
  /\ saved \in 0..spent /\ spent \in 0..Budget
  /\ buffer \in 0..(FlushAt - 1) /\ logged \in 0..FlushAt
  /\ flushing \in {"nobody", "funnel", "flusher"}

LEMMA FlushKeeps ==
  ASSUME Ai!FunnelAssumption, UsageTypes, Ai!Flush
  PROVE  saved' \in 0..spent' /\ spent' \in 0..Budget /\ logged' = 0 /\ flushing' = "nobody"
<1>1. Budget \in Nat /\ FlushAt \in Nat
  BY DEF Ai!FunnelAssumption
<1> QED BY <1>1 DEF UsageTypes, Ai!Flush, Ai!Smaller

\* A step of a call or of the flusher.
LEMMA UsageKeeps ==
  ASSUME Ai!FunnelAssumption, FunnelInv,
         Ai!Reply \/ Ai!Log \/ Ai!FunnelFlush \/ Ai!FlusherTake \/ Ai!FlusherFlush
  PROVE  FunnelInv' /\ UNCHANGED impacts
<1>1. /\ UNCHANGED <<screenLeft, deep, readings, impacts, corrected, phase, rounds, todo, draft,
                     alerts, cycleFaults>>
      /\ step' \in {"pick", "call", "log", "flush", "over"} /\ reply' \in {"bad", "good"}
  BY DEF Ai!Reply, Ai!Log, Ai!FunnelFlush, Ai!FlusherTake, Ai!FlusherFlush,
         Ai!rows, Ai!usage, Ai!funnel, FunnelInv, Ai!TypeOK
<1>2. UsageTypes'
  <2>1. UsageTypes /\ FlushAt \in Nat \ {0}
    BY DEF FunnelInv, Ai!TypeOK, UsageTypes, Ai!FunnelAssumption
  <2>2. CASE Ai!Reply
    BY <2>1, <2>2 DEF Ai!Reply, Ai!usage, UsageTypes
  <2>3. CASE Ai!Log
    BY <2>1, <2>3 DEF Ai!Log, UsageTypes
  <2>4. CASE Ai!FunnelFlush \/ Ai!FlusherFlush
    <3>1. Ai!Flush /\ buffer' = buffer
      BY <2>4 DEF Ai!FunnelFlush, Ai!FlusherFlush
    <3> QED BY <2>1, <3>1, FlushKeeps DEF UsageTypes
  <2>5. CASE Ai!FlusherTake
    BY <2>1, <2>5 DEF Ai!FlusherTake, UsageTypes
  <2> QED BY <2>2, <2>3, <2>4, <2>5
<1> QED BY <1>1, <1>2 DEF FunnelInv, Ai!TypeOK, AttemptsLeft, Ai!Unscreened, UsageTypes

LEMMA ScreenStoreKeeps ==
  ASSUME Ai!FunnelAssumption, FunnelInv, Ai!ScreenStore
  PROVE  FunnelInv' /\ UNCHANGED impacts
<1>1. PICK screened \in SUBSET todo :
        screenLeft' = [n \in News |-> CASE n \in screened -> 0
                                        [] n \in todo \ screened -> screenLeft[n] - 1
                                        [] OTHER -> screenLeft[n]]
        /\ \E worth \in SUBSET screened : deep' = deep \cup worth
  BY DEF Ai!ScreenStore
<1>2. screenLeft' \in [News -> 0..MaxAttempts]
  <2>1. todo \subseteq {n \in News : screenLeft[n] > 0} /\ MaxAttempts \in Nat
    BY DEF Ai!ScreenStore, FunnelInv, AttemptsLeft, Ai!Unscreened, Ai!FunnelAssumption
  <2>2. screenLeft \in [News -> 0..MaxAttempts]
    BY DEF FunnelInv, Ai!TypeOK
  <2>3. \A n \in News : screenLeft'[n] \in 0..MaxAttempts
    BY <1>1, <2>1, <2>2
  <2> QED BY <1>1, <2>3
<1>3. deep' \subseteq News /\ todo' = {}
  BY <1>1 DEF Ai!ScreenStore, FunnelInv, Ai!TypeOK
<1>4. /\ UNCHANGED <<readings, impacts, corrected, saved, buffer, logged, flushing, draft, alerts,
                     spent, cycleFaults>>
      /\ phase' \in {"screen", "quota"} /\ rounds' \in 0..ScreenBatches
      /\ step' = "pick" /\ reply' = "bad"
  BY DEF Ai!ScreenStore, FunnelInv, Ai!TypeOK, Ai!usage, Ai!FunnelAssumption
<1> QED BY <1>2, <1>3, <1>4 DEF FunnelInv, Ai!TypeOK, AttemptsLeft

LEMMA CommitKeeps ==
  ASSUME Ai!FunnelAssumption, FunnelInv, Ai!Commit
  PROVE  FunnelInv' /\ UserKept
<1> DEFINE reading(n) == CASE draft[n].status = "none" -> readings[n]
             [] draft[n].status = "error" -> [readings[n] EXCEPT !.failed = @ + 1,
                                                                 !.today = draft[n].today]
             [] OTHER -> [read |-> TRUE, failed |-> 0, today |-> draft[n].today]
<1>1. /\ readings' = [n \in News |-> reading(n)]
      /\ impacts' = [n \in News |-> IF draft[n].status = "ok" THEN Ai!Replaced(impacts[n])
                                    ELSE impacts[n]]
      /\ alerts' \subseteq News /\ draft' = Ai!NoDraft /\ phase' = "alert" /\ todo' = {}
      /\ UNCHANGED <<screenLeft, deep, corrected, saved, buffer, logged, flushing, step, reply,
                     rounds, spent, cycleFaults>>
  BY DEF Ai!Commit, Ai!usage
<1>2. MaxAttempts \in Nat
  BY DEF Ai!FunnelAssumption
<1>3. \A n \in News : reading(n) \in [read : BOOLEAN, failed : 0..MaxAttempts, today : BOOLEAN]
  <2> TAKE n \in News
  <2>1. /\ readings[n] \in [read : BOOLEAN, failed : 0..MaxAttempts, today : BOOLEAN]
        /\ draft[n].today \in BOOLEAN /\ (draft[n].status # "none" => readings[n].failed < MaxAttempts)
    BY DEF FunnelInv, Ai!TypeOK, AttemptsLeft
  <2>2. CASE draft[n].status = "none"
    BY <2>1, <2>2
  <2>3. CASE draft[n].status = "error"
    <3>1. reading(n) = [readings[n] EXCEPT !.failed = @ + 1, !.today = draft[n].today]
      BY <2>3
    <3>2. readings[n].failed + 1 \in 0..MaxAttempts
      BY <1>2, <2>1, <2>3
    <3> HIDE DEF reading
    <3> QED BY <2>1, <3>1, <3>2
  <2>4. CASE draft[n].status \notin {"none", "error"}
    BY <1>2, <2>1, <2>4
  <2> QED BY <2>2, <2>3, <2>4
<1>4. readings' \in [News -> [read : BOOLEAN, failed : 0..MaxAttempts, today : BOOLEAN]]
  <2> HIDE DEF reading
  <2> QED BY <1>1, <1>3
<1>5. impacts' \in [News -> SUBSET {"ai", "user"}] /\ UserKept
  BY <1>1 DEF FunnelInv, Ai!TypeOK, Ai!Replaced, UserKept
<1>6. /\ draft' \in [News -> [status : {"none", "reading", "error", "checked", "kept", "ok"},
                              today : BOOLEAN]]
      /\ \A n \in News : draft'[n].status = "none"
  BY <1>1 DEF Ai!NoDraft
<1> QED BY <1>1, <1>4, <1>5, <1>6 DEF FunnelInv, Ai!TypeOK, AttemptsLeft

\* The other steps of the funnel.
LEMMA CycleKeeps ==
  ASSUME Ai!FunnelAssumption, FunnelInv,
         Ai!Begin \/ Ai!SectorOver \/ Ai!ScreenBatch \/ Ai!Choose \/ Ai!End
  PROVE  FunnelInv' /\ UNCHANGED impacts
<1>1. UNCHANGED <<screenLeft, deep, readings, impacts, corrected, saved, buffer, logged, flushing,
                  draft, alerts, spent, cycleFaults>>
  BY DEF Ai!Begin, Ai!SectorOver, Ai!ScreenBatch, Ai!Choose, Ai!End,
         Ai!rows, Ai!usage
<1>2. /\ phase' \in {"idle", "sector", "screen", "quota", "read", "alert"}
      /\ step' \in {"pick", "call", "log", "flush", "over"} /\ reply' \in {"bad", "good"}
      /\ rounds' \in 0..ScreenBatches
  BY DEF Ai!Begin, Ai!SectorOver, Ai!ScreenBatch, Ai!Choose, Ai!End,
         FunnelInv, Ai!TypeOK, Ai!FunnelAssumption
<1>3. /\ todo' \subseteq News
      /\ phase' \in {"idle", "sector", "alert"} => todo' = {}
      /\ phase' = "screen" => todo' \subseteq Ai!Unscreened
      /\ phase' = "read" => \A n \in todo' : readings[n].failed < MaxAttempts
  <2>1. CASE Ai!Begin \/ Ai!SectorOver \/ Ai!End
    BY <2>1 DEF Ai!Begin, Ai!SectorOver, Ai!End, FunnelInv, Ai!TypeOK, AttemptsLeft
  <2>2. CASE Ai!ScreenBatch
    BY <2>2 DEF Ai!ScreenBatch, Ai!Limited, Ai!Unscreened, FunnelInv, Ai!TypeOK,
                AttemptsLeft
  <2>3. CASE Ai!Choose
    BY <2>3 DEF Ai!Choose, Ai!Limited, Ai!Wanted, FunnelInv, Ai!TypeOK
  <2> QED BY <2>1, <2>2, <2>3
<1>4. Ai!Unscreened' = Ai!Unscreened
  BY <1>1 DEF Ai!Unscreened
<1> QED BY <1>1, <1>2, <1>3, <1>4 DEF FunnelInv, Ai!TypeOK, AttemptsLeft

\* A reading changes its row in the draft.
LEMMA ReadingKeeps ==
  ASSUME Ai!FunnelAssumption, FunnelInv, NEW n \in News,
         Ai!Read(n) \/ Ai!ReadFailed(n) \/ Ai!Check(n) \/ Ai!Replace(n)
           \/ Ai!Alert(n)
  PROVE  FunnelInv' /\ UNCHANGED impacts
<1>1. UNCHANGED <<screenLeft, deep, readings, impacts, corrected, saved, buffer, logged, flushing,
                  phase, rounds, spent, cycleFaults>>
  BY DEF Ai!Read, Ai!ReadFailed, Ai!Check, Ai!Replace, Ai!Alert,
         Ai!rows, Ai!usage
<1>2. /\ step' \in {"pick", "call", "log", "flush", "over"} /\ reply' \in {"bad", "good"}
      /\ todo' \subseteq todo /\ alerts' \subseteq alerts
  BY DEF Ai!Read, Ai!ReadFailed, Ai!Check, Ai!Replace, Ai!Alert,
         FunnelInv, Ai!TypeOK
<1>3. /\ draft' \in [News -> [status : {"none", "reading", "error", "checked", "kept", "ok"},
                              today : BOOLEAN]]
      /\ \A o \in News : draft'[o].status # "none" => readings[o].failed < MaxAttempts
  <2>1. /\ draft \in [News -> [status : {"none", "reading", "error", "checked", "kept", "ok"},
                               today : BOOLEAN]]
        /\ \A o \in News : draft[o].status # "none" => readings[o].failed < MaxAttempts
    BY DEF FunnelInv, Ai!TypeOK, AttemptsLeft
  <2>2. CASE Ai!Read(n)
    <3>1. readings[n].failed < MaxAttempts
      BY <2>2 DEF Ai!Read, FunnelInv, AttemptsLeft
    <3> QED BY <2>1, <2>2, <3>1 DEF Ai!Read
  <2>3. CASE Ai!ReadFailed(n)
    BY <2>1, <2>3 DEF Ai!ReadFailed
  <2>4. CASE Ai!Check(n)
    BY <2>1, <2>4 DEF Ai!Check
  <2>5. CASE Ai!Replace(n)
    BY <2>1, <2>5 DEF Ai!Replace
  <2>6. CASE Ai!Alert(n)
    BY <2>1, <2>6 DEF Ai!Alert
  <2> QED BY <2>2, <2>3, <2>4, <2>5, <2>6
<1> QED BY <1>1, <1>2, <1>3 DEF FunnelInv, Ai!TypeOK, AttemptsLeft, Ai!Unscreened

\* The user, midnight and faults.
LEMMA OutsideKeeps ==
  ASSUME Ai!FunnelAssumption, FunnelInv,
         (\E n \in News : Ai!Correct(n)) \/ Ai!NewDay \/ Ai!CycleFails \/ Ai!Restart
  PROVE  FunnelInv' /\ UserKept
<1>1. ASSUME NEW n \in News, Ai!Correct(n) PROVE FunnelInv' /\ UserKept
  <2>1. /\ UNCHANGED <<screenLeft, deep, readings, saved, buffer, logged, flushing, phase, step,
                       reply, rounds, todo, draft, alerts, spent, cycleFaults>>
        /\ corrected' \subseteq News
    BY <1>1 DEF Ai!Correct, Ai!usage, Ai!funnel, FunnelInv, Ai!TypeOK
  <2>2. impacts' \in [News -> SUBSET {"ai", "user"}] /\ UserKept
    BY <1>1 DEF Ai!Correct, FunnelInv, Ai!TypeOK, UserKept
  <2> QED BY <2>1, <2>2 DEF FunnelInv, Ai!TypeOK, AttemptsLeft, Ai!Unscreened
<1>2. CASE Ai!NewDay
  <2>1. UNCHANGED <<screenLeft, deep, impacts, corrected, saved, buffer, logged, flushing, phase,
                    step, reply, rounds, todo, alerts, spent, cycleFaults>>
    BY <1>2 DEF Ai!NewDay, Ai!usage
  <2>2. /\ readings' = [n \in News |-> [readings[n] EXCEPT !.today = FALSE]]
        /\ draft' = [n \in News |-> [draft[n] EXCEPT !.today = FALSE]]
    BY <1>2 DEF Ai!NewDay
  <2>3. \A n \in News :
          /\ readings[n] \in [read : BOOLEAN, failed : 0..MaxAttempts, today : BOOLEAN]
          /\ draft[n] \in [status : {"none", "reading", "error", "checked", "kept", "ok"},
                           today : BOOLEAN]
    BY DEF FunnelInv, Ai!TypeOK
  <2>4. \A n \in News :
          /\ readings'[n] \in [read : BOOLEAN, failed : 0..MaxAttempts, today : BOOLEAN]
          /\ readings'[n].failed = readings[n].failed
          /\ draft'[n] \in [status : {"none", "reading", "error", "checked", "kept", "ok"},
                            today : BOOLEAN]
          /\ draft'[n].status = draft[n].status
    BY <2>2, <2>3
  <2>5. /\ readings' \in [News -> [read : BOOLEAN, failed : 0..MaxAttempts, today : BOOLEAN]]
        /\ draft' \in [News -> [status : {"none", "reading", "error", "checked", "kept", "ok"},
                                today : BOOLEAN]]
    BY <2>2, <2>4
  <2>6. UserKept
    BY <2>1 DEF UserKept
  <2> QED BY <2>1, <2>4, <2>5, <2>6 DEF FunnelInv, Ai!TypeOK, AttemptsLeft, Ai!Unscreened
<1>3. CASE Ai!CycleFails \/ Ai!Restart
  <2>1. /\ UNCHANGED <<screenLeft, deep, readings, impacts, corrected, saved, spent>>
        /\ phase' = "idle" /\ step' = "pick" /\ todo' = {} /\ draft' = Ai!NoDraft
        /\ alerts' = {} /\ reply' = "bad" /\ rounds' = 0
    BY <1>3 DEF Ai!CycleFails, Ai!Restart, Ai!Abandon, Ai!rows
  <2>2. buffer' \in 0..(FlushAt - 1) /\ logged' \in 0..FlushAt
        /\ flushing' \in {"nobody", "funnel", "flusher"}
    BY <1>3 DEF Ai!CycleFails, Ai!Restart, FunnelInv, Ai!TypeOK, Ai!FunnelAssumption
  <2>3. cycleFaults' \in 0..MaxFaults /\ rounds' \in 0..ScreenBatches
    BY <1>3, <2>1 DEF Ai!CycleFails, Ai!Restart, Ai!Fault, FunnelInv, Ai!TypeOK,
                      Ai!FunnelAssumption
  <2>4. /\ draft' \in [News -> [status : {"none", "reading", "error", "checked", "kept", "ok"},
                                today : BOOLEAN]]
        /\ \A n \in News : draft'[n].status = "none"
    BY <2>1 DEF Ai!NoDraft
  <2>5. UserKept
    BY <2>1 DEF UserKept
  <2> QED BY <2>1, <2>2, <2>3, <2>4, <2>5 DEF FunnelInv, Ai!TypeOK, AttemptsLeft
<1> QED BY <1>1, <1>2, <1>3

LEMMA FunnelNextKeeps ==
  ASSUME Ai!FunnelAssumption, FunnelInv, [Ai!Next]_(Ai!vars)
  PROVE  FunnelInv' /\ UserKept
<1>1. CASE UNCHANGED Ai!vars
  <2>1. UNCHANGED <<screenLeft, deep, readings, impacts, corrected, saved, buffer, logged, flushing,
                    phase, step, reply, rounds, todo, draft, alerts, spent, cycleFaults>>
    BY <1>1 DEF Ai!vars, Ai!rows, Ai!usage, Ai!funnel
  <2> QED BY <2>1 DEF FunnelInv, Ai!TypeOK, AttemptsLeft, Ai!Unscreened, UserKept
<1>2. UNCHANGED impacts => UserKept
  BY DEF UserKept
<1>3. CASE Ai!FunnelStep
  BY <1>2, <1>3, UsageKeeps, ScreenStoreKeeps, CommitKeeps, CycleKeeps, ReadingKeeps
     DEF Ai!FunnelStep
<1>4. CASE Ai!FlusherTake \/ Ai!FlusherFlush
  BY <1>2, <1>4, UsageKeeps
<1>5. CASE (\E n \in News : Ai!Correct(n)) \/ Ai!NewDay \/ Ai!CycleFails \/ Ai!Restart
  BY <1>5, OutsideKeeps
<1> QED BY <1>1, <1>3, <1>4, <1>5 DEF Ai!Next

\* Only the user takes the user's impacts away: a reading that asked before the correction
\* was made replaces the rows of the AI and no others (_persist, replace_impacts_by_user).
THEOREM FunnelTheorem == Ai!FunnelAssumption /\ Ai!Spec => Ai!UserRowsStay
<1> SUFFICES ASSUME Ai!FunnelAssumption PROVE Ai!Spec => Ai!UserRowsStay
  OBVIOUS
<1>1. Ai!Init => FunnelInv
  <2>1. MaxAttempts \in Nat /\ FlushAt \in Nat \ {0}
        /\ ReadLimit \in Nat /\ Budget \in Nat /\ ScreenBatches \in Nat /\ MaxFaults \in Nat
    BY DEF Ai!FunnelAssumption
  <2> QED BY <2>1 DEF Ai!Init, Ai!NoDraft, FunnelInv, Ai!TypeOK, AttemptsLeft
<1>2. FunnelInv /\ [Ai!Next]_(Ai!vars) => FunnelInv' /\ UserKept
  BY FunnelNextKeeps
<1>3. FunnelInv' /\ UserKept => [ /\ Ai!TypeOK'
                                  /\ \A n \in News : "user" \in impacts[n] =>
                                       "user" \in impacts'[n] \/ impacts'[n] = {} ]_(Ai!vars)
  BY DEF FunnelInv, UserKept
<1> QED BY <1>1, <1>2, <1>3, PTL DEF Ai!Spec, Ai!UserRowsStay
=============================================================================
