-------------------------- MODULE ToolBatchProofs --------------------------
(***************************************************************************)
(* Theorems about ToolBatch, for every number of turns, calls, chunks,     *)
(* decisions and crashes.  They follow the calls of a turn through the     *)
(* places they are split into: what the saved context holds as done and as *)
(* remaining, and what an invocation has executed and has ahead of it.     *)
(***************************************************************************)
EXTENDS ToolBatch, WellFoundedInduction, FiniteSetTheorems, TLAPS

-----------------------------------------------------------------------------
(***************************************************************************)
(* The records of the module.                                              *)
(***************************************************************************)
ResultOf     == [call : Call, by : {"run", "denial", "recoverer"}]
SavedContext == [saved : BOOLEAN, done : Seq(ResultOf), rest : Seq(Call)]

IsRun(r) ==
    /\ r \in [calls : Seq(Call), prior : Seq(ResultOf), results : Seq(ResultOf), at : Nat,
              resumed : BOOLEAN, count : {r.count}, leaf : {r.leaf}]
    /\ r.at <= Len(r.calls)

\* An unsaved context is empty.
ContextTyped ==
    /\ pendingCtx \in SavedContext
    /\ ~pendingCtx.saved => pendingCtx.done = <<>> /\ pendingCtx.rest = <<>>
RunsTyped  == runs = [s \in Slots |-> runs[s]] /\ \A s \in Slots : Active(s) => IsRun(runs[s])
BooksTyped ==
    /\ executed \in [Dispatch -> Nat] /\ pauses \in [Dispatch -> Nat]
    /\ turn \in Nat /\ crashes \in Nat /\ wakeUps \in Nat
Typed == ContextTyped /\ RunsTyped /\ BooksTyped

\* A set of naturals has a least element; arithmetic of chunks.
LEMMA LeastNatural ==
    ASSUME NEW T, T \subseteq Nat, T # {}
    PROVE  \E x \in T : \A y \in T : x <= y
<1>1. IsWellFoundedOn(OpToRel(<, Nat), Nat)
  BY NatLessThanWellFounded
<1>2. PICK x \in T : \A y \in T : ~(<<y, x>> \in OpToRel(<, Nat))
  BY <1>1, WFMin
<1>3. \A y \in T : ~(y < x)
  BY <1>2 DEF OpToRel
<1> QED
  BY <1>3

LEMMA WindowType ==
    ASSUME NEW r, IsRun(r)
    PROVE  Window(r) \in Nat /\ r.at + Window(r) <= Len(r.calls)
<1>1. r.at \in Nat /\ Len(r.calls) \in Nat /\ r.at <= Len(r.calls) /\ Chunk \in Nat \ {0}
  BY BatchBounds DEF IsRun
<1> DEFINE next == ((r.at \div Chunk) + 1) * Chunk
<1>2. next \in Nat /\ next > r.at
  BY <1>1
<1>3. Window(r) = IF next < Len(r.calls) THEN next - r.at ELSE Len(r.calls) - r.at
  BY DEF Window
<1> HIDE DEF next
<1> QED
  BY <1>1, <1>2, <1>3

\* The batch stays within the calls, and is read-only: there is a first call that
\* ends it, or the window does.
LEMMA BatchLenType ==
    ASSUME NEW r, IsRun(r)
    PROVE  BatchLen(r) \in 0..Window(r)
<1> DEFINE Ends(n) == n = Window(r) \/ ~ReadOnly(r.calls[r.at + n + 1])
           T == {n \in Nat : Ends(n)}
<1>1. Window(r) \in T
  BY WindowType
<1>2. PICK n \in T : \A m \in T : n <= m
  BY <1>1, LeastNatural
<1>3. n \in 0..Window(r)
  BY <1>1, <1>2, WindowType
<1>4. \A k \in 1..n : ReadOnly(r.calls[r.at + k])
  <2> SUFFICES ASSUME NEW k \in 1..n
               PROVE  ReadOnly(r.calls[r.at + k])
    OBVIOUS
  <2>1. k - 1 \in Nat /\ k - 1 < n /\ r.at \in Nat
    BY <1>3, WindowType DEF IsRun
  <2>2. k - 1 \notin T
    BY <1>2, <2>1
  <2>3. ReadOnly(r.calls[r.at + (k - 1) + 1])
    BY <2>1, <2>2
  <2>4. r.at + (k - 1) + 1 = r.at + k
    BY <2>1
  <2> QED
    BY <2>3, <2>4
<1>5. n < Window(r) => ~ReadOnly(r.calls[r.at + n + 1])
  BY <1>2, WindowType
<1> HIDE DEF T, Ends
<1> QED
  BY <1>3, <1>4, <1>5 DEF BatchLen

\* A run that is started from a context and calls.
LEMMA NewRunType ==
    ASSUME NEW context \in SavedContext, NEW calls \in Seq(Call), NEW n, NEW leaf
    PROVE  LET r == NewRun(context, calls, n, leaf)
           IN  /\ IsRun(r) /\ r.at = 0 /\ r.results = <<>> /\ r.resumed = context.saved
               /\ r.prior = context.done
               /\ r.calls = IF context.saved THEN context.rest ELSE calls
<1> DEFINE todo == IF context.saved THEN context.rest ELSE calls
           r == [calls |-> todo, prior |-> context.done, results |-> <<>>, at |-> 0,
                 resumed |-> context.saved, count |-> n, leaf |-> leaf]
<1>1. NewRun(context, calls, n, leaf) = r
  BY DEF NewRun
<1>2. todo \in Seq(Call) /\ context.done \in Seq(ResultOf) /\ context.saved \in BOOLEAN
  BY DEF SavedContext
<1>3. <<>> \in Seq(ResultOf) /\ 0 \in 0..Len(todo)
  BY <1>2
<1>4. /\ r.calls = todo /\ r.prior = context.done /\ r.results = <<>> /\ r.at = 0
      /\ r.resumed = context.saved /\ r.count = n /\ r.leaf = leaf
  OBVIOUS
<1>5. r \in [calls : Seq(Call), prior : Seq(ResultOf), results : Seq(ResultOf), at : Nat,
             resumed : BOOLEAN, count : {n}, leaf : {leaf}]
  BY <1>2, <1>3
<1> HIDE DEF todo, r
<1>6. IsRun(r)
  BY <1>2, <1>3, <1>4, <1>5 DEF IsRun
<1> USE DEF todo
<1> QED
  BY <1>1, <1>4, <1>6

\* A run that advances, with results for calls it has passed.
GoesTo(q, r, at, results) == q = [r EXCEPT !.at = at, !.results = results]

LEMMA AdvanceType ==
    ASSUME NEW r, IsRun(r), NEW at \in 0..Len(r.calls), NEW results \in Seq(ResultOf),
           NEW q, GoesTo(q, r, at, results)
    PROVE  /\ IsRun(q) /\ q.at = at /\ q.results = results /\ q.calls = r.calls
           /\ q.prior = r.prior /\ q.resumed = r.resumed
<1>1. at \in Nat /\ at <= Len(r.calls)
  BY DEF IsRun
<1>2. /\ q.at = at /\ q.results = results /\ q.calls = r.calls
      /\ q.prior = r.prior /\ q.resumed = r.resumed /\ q.count = r.count /\ q.leaf = r.leaf
  BY DEF IsRun, GoesTo
<1>3. q \in [calls : Seq(Call), prior : Seq(ResultOf), results : Seq(ResultOf), at : Nat,
             resumed : BOOLEAN, count : {r.count}, leaf : {r.leaf}]
  BY <1>1 DEF IsRun, GoesTo
<1> QED
  BY <1>1, <1>2, <1>3 DEF IsRun

\* What a run saves: the collected results, and the calls ahead of it.
LEMMA ContextType ==
    ASSUME NEW r, IsRun(r)
    PROVE  /\ Context(r) \in SavedContext /\ Context(r).saved
           /\ Context(r).done = r.prior \o r.results
           /\ Context(r).rest \in Seq(Call) /\ Len(Context(r).rest) = Len(r.calls) - r.at
           /\ \A k \in 1..Len(Context(r).rest) : r.at + k \in 1..Len(r.calls) /\ Context(r).rest[k] = r.calls[r.at + k]
<1>1. r.prior \o r.results \in Seq(ResultOf)
  BY DEF IsRun
<1>2. /\ r.calls \in Seq(Call) /\ Len(r.calls) \in Nat /\ r.at \in Nat /\ r.at <= Len(r.calls)
  BY DEF IsRun
<1>3. /\ Rest(r) \in Seq(Call) /\ Len(Rest(r)) = Len(r.calls) - r.at
      /\ \A k \in 1..Len(Rest(r)) : r.at + k \in 1..Len(r.calls) /\ Rest(r)[k] = r.calls[r.at + k]
  <2> DEFINE m == r.at + 1
             n == Len(r.calls)
  <2>1. m \in 1..(n + 1) /\ n \in 0..n
    BY <1>2
  <2>2. SubSeq(r.calls, m, n) \in Seq(Call) /\ Len(SubSeq(r.calls, m, n)) = n - m + 1
    BY <1>2, <2>1
  <2>3. \A k \in 1..(n - m + 1) : SubSeq(r.calls, m, n)[k] = r.calls[m + k - 1]
    BY <1>2, <2>1, <2>2
  <2>4. \A k \in 1..(n - r.at) : r.at + k \in 1..n /\ m + k - 1 = r.at + k
    BY <1>2
  <2>5. n - m + 1 = n - r.at
    BY <1>2
  <2> QED
    BY <2>2, <2>3, <2>4, <2>5 DEF Rest
<1> QED
  BY <1>1, <1>3 DEF Context, Collected, SavedContext
-----------------------------------------------------------------------------
(***************************************************************************)
(* The steps of a run.                                                     *)
(***************************************************************************)
\* A run advances over some calls, executes some of these, which need no
\* approval, and adds results for these; a skipped checkpoint executes none.
Advances(s) ==
    /\ Active(s) /\ UNCHANGED <<entity, allowed, turn, pauses, failure, bounds>>
    /\ \E at \in runs[s].at..Len(runs[s].calls), results \in Seq(ResultOf), did \in SUBSET Dispatch :
        /\ runs' = [runs EXCEPT ![s] = [runs[s] EXCEPT !.at = at, !.results = results]]
        /\ Executes(did)
        /\ \A x \in did : ~Denied(x) /\ \E k \in runs[s].at + 1..at : runs[s].calls[k] = x[1]
        /\ Len(results) + runs[s].at <= Len(runs[s].results) + at
        /\ \A j \in 1..Len(results) :
            \/ \E i \in 1..Len(runs[s].results) : results[j] = runs[s].results[i]
            \/ \E k \in runs[s].at + 1..at : results[j].call = runs[s].calls[k]

FromBoth(s, p, q) ==
    \A j \in 1..Len(s) : (j \in 1..Len(p) /\ s[j] = p[j]) \/ \E k \in 1..Len(q) : s[j] = q[k]
LEMMA AppendedSequence ==
    ASSUME NEW S, NEW p \in Seq(S), NEW q \in Seq(S)
    PROVE  p \o q \in Seq(S) /\ Len(p \o q) = Len(p) + Len(q) /\ FromBoth(p \o q, p, q)
<1>1. /\ p \o q \in Seq(S) /\ Len(p \o q) = Len(p) + Len(q) /\ Len(p) \in Nat /\ Len(q) \in Nat
      /\ \A j \in 1..(Len(p) + Len(q)) : (p \o q)[j] = IF j <= Len(p) THEN p[j] ELSE q[j - Len(p)]
  OBVIOUS
<1>2. ASSUME NEW j \in 1..(Len(p) + Len(q))
      PROVE  \/ j \in 1..Len(p) /\ (p \o q)[j] = p[j]
             \/ \E k \in 1..Len(q) : (p \o q)[j] = q[k]
  <2> DEFINE m == Len(p)
             n == Len(q)
             pq == p \o q
  <2>1. m \in Nat /\ n \in Nat /\ j \in 1..(m + n) /\ pq[j] = IF j <= m THEN p[j] ELSE q[j - m]
    BY <1>1
  <2> HIDE DEF m, n, pq
  <2>2. (j \in 1..m /\ pq[j] = p[j]) \/ (j - m \in 1..n /\ pq[j] = q[j - m])
    BY <2>1
  <2> USE DEF m, n, pq
  <2> QED
    BY <2>2
<1> QED
  BY <1>1, <1>2 DEF FromBoth

\* What a part of a sequence holds.
LEMMA PartOfSequence ==
    ASSUME NEW S, NEW q \in Seq(S), NEW m \in Nat, NEW n \in Nat, m + n <= Len(q)
    PROVE  /\ SubSeq(q, m + 1, m + n) \in Seq(S) /\ Len(SubSeq(q, m + 1, m + n)) = n
           /\ \A k \in 1..n : m + k \in 1..Len(q) /\ SubSeq(q, m + 1, m + n)[k] = q[m + k]
<1> DEFINE i == m + 1
           j == m + n
<1>1. i \in 1..(Len(q) + 1) /\ j \in (i - 1)..Len(q)
  OBVIOUS
<1>2. SubSeq(q, i, j) \in Seq(S) /\ Len(SubSeq(q, i, j)) = j - i + 1
  BY <1>1
<1>3. \A k \in 1..(j - i + 1) : SubSeq(q, i, j)[k] = q[i + k - 1]
  BY <1>1, <1>2
<1>4. j - i + 1 = n /\ \A k \in 1..n : m + k \in 1..Len(q) /\ i + k - 1 = m + k
  OBVIOUS
<1> QED
  BY <1>2, <1>3, <1>4

LEMMA ListedSequence ==
    ASSUME NEW S, NEW n \in Nat, NEW f \in [1..n -> S]
    PROVE  f \in Seq(S) /\ Len(f) = n
  OBVIOUS

\* A batch: the calls after those the run has passed, and a result for each.
BatchOf(r)    == SubSeq(r.calls, r.at + 1, r.at + BatchLen(r))
NewResults(r) ==
    [k \in 1..BatchLen(r) |-> Result(BatchOf(r)[k], IF Denied(First(BatchOf(r)[k])) THEN "denial" ELSE "run")]

LEMMA BatchOfRun ==
    ASSUME NEW r, IsRun(r)
    PROVE  /\ BatchLen(r) \in Nat /\ r.at + BatchLen(r) \in r.at..Len(r.calls)
           /\ NewResults(r) \in Seq(ResultOf) /\ Len(NewResults(r)) = BatchLen(r)
           /\ \A k \in 1..BatchLen(r) :
                /\ r.at + k \in r.at + 1..r.at + BatchLen(r) /\ BatchOf(r)[k] = r.calls[r.at + k]
                /\ BatchOf(r)[k] \in Call /\ NewResults(r)[k].call = BatchOf(r)[k]
<1> DEFINE n == BatchLen(r)
           batch == BatchOf(r)
           new == NewResults(r)
<1>1. /\ r.calls \in Seq(Call) /\ r.at \in Nat /\ Len(r.calls) \in Nat
      /\ n \in Nat /\ r.at + n <= Len(r.calls) /\ r.at + n \in r.at..Len(r.calls)
  BY BatchLenType, WindowType DEF IsRun
<1>2. batch = SubSeq(r.calls, r.at + 1, r.at + n)
  BY DEF BatchOf
<1>3. new = [k \in 1..n |-> Result(batch[k], IF Denied(First(batch[k])) THEN "denial" ELSE "run")]
  BY DEF NewResults
<1> HIDE DEF n, batch, new
<1>4. /\ batch \in Seq(Call) /\ Len(batch) = n
      /\ \A i \in 1..n : r.at + i \in 1..Len(r.calls) /\ batch[i] = r.calls[r.at + i]
  <2> DEFINE q == r.calls
             m == r.at
  <2>1. q \in Seq(Call) /\ m \in Nat /\ n \in Nat /\ m + n <= Len(q)
    BY <1>1
  <2> HIDE DEF q, m
  <2>2. /\ SubSeq(q, m + 1, m + n) \in Seq(Call) /\ Len(SubSeq(q, m + 1, m + n)) = n
        /\ \A i \in 1..n : m + i \in 1..Len(q) /\ SubSeq(q, m + 1, m + n)[i] = q[m + i]
    BY <2>1, PartOfSequence, Zenon
  <2> QED
    BY <1>2, <2>2 DEF q, m
<1>5. \A k \in 1..n : batch[k] = r.calls[r.at + k] /\ batch[k] \in Call
  BY <1>4
<1>6. \A k \in 1..n : r.at + k \in r.at + 1..r.at + n
  BY <1>1
<1>7. \A k \in 1..n : new[k] \in ResultOf /\ new[k].call = batch[k]
  BY <1>3, <1>5 DEF Result, ResultOf
<1>8. new \in [1..n -> ResultOf]
  BY <1>3, <1>7
<1>9. new \in Seq(ResultOf) /\ Len(new) = n
  BY <1>1, <1>8, ListedSequence
<1> QED
  BY <1>1, <1>5, <1>6, <1>7, <1>9 DEF n, batch, new

\* What a batch does.
ReadsOf(r)  == {First(BatchOf(r)[k]) : k \in 1..BatchLen(r)}
DeniedOf(r) == {x \in ReadsOf(r) : Denied(x)}
LEMMA BatchEffect ==
    ASSUME NEW s \in Slots, RunBatch(s)
    PROVE  /\ Active(s) /\ UNCHANGED <<entity, notifying, allowed, turn, pauses, failure, bounds>>
           /\ runs' = [runs EXCEPT ![s] = [runs[s] EXCEPT !.at = runs[s].at + BatchLen(runs[s]),
                                                         !.results = runs[s].results \o NewResults(runs[s])]]
           /\ Executes(ReadsOf(runs[s]) \ DeniedOf(runs[s]))
           /\ \E order \in Orders(DeniedOf(runs[s])) : decisions' = decisions \o Opened(order)
  BY Zenon DEF RunBatch, BatchOf, NewResults, ReadsOf, DeniedOf

\* The dispatches of a call.
LEMMA FirstOfCall ==
    ASSUME NEW c \in Call
    PROVE  First(c) \in Dispatch /\ First(c)[1] = c
  BY DEF First, Dispatch, Length

LEMMA OwnDispatches ==
    ASSUME NEW c \in Call
    PROVE  Dispatches(c) \subseteq Dispatch /\ \A x \in Dispatches(c) : x[1] = c
  BY DEF Dispatches, Dispatch, Length

LEMMA BatchAdvances ==
    ASSUME Typed, NEW s \in Slots, RunBatch(s)
    PROVE  Advances(s)
<1> DEFINE r == runs[s]
           n == BatchLen(r)
           batch == BatchOf(r)
           new == NewResults(r)
           denied == DeniedOf(r)
           reads == ReadsOf(r)
           did == reads \ denied
<1>1. Active(s) /\ IsRun(r)
  BY BatchEffect DEF Typed, RunsTyped
<1>2. /\ r.results \in Seq(ResultOf) /\ r.at \in Nat /\ n \in Nat /\ r.at + n \in r.at..Len(r.calls)
  BY <1>1, BatchOfRun DEF IsRun
<1>3. /\ runs' = [runs EXCEPT ![s] = [r EXCEPT !.at = r.at + n, !.results = r.results \o new]]
      /\ Executes(did) /\ UNCHANGED <<entity, allowed, turn, pauses, failure, bounds>>
  BY BatchEffect
<1>4. /\ new \in Seq(ResultOf) /\ Len(new) = n
      /\ \A k \in 1..n :
            /\ r.at + k \in r.at + 1..r.at + n /\ batch[k] = r.calls[r.at + k]
            /\ batch[k] \in Call /\ new[k].call = batch[k]
  BY <1>1, BatchOfRun
<1>5. reads = {First(batch[k]) : k \in 1..n} /\ denied = {x \in reads : Denied(x)}
  BY DEF DeniedOf, ReadsOf
<1> HIDE DEF n, new, batch, denied, reads
<1>6. \A x \in did : ~Denied(x) /\ \E k \in r.at + 1..r.at + n : r.calls[k] = x[1]
  BY <1>4, <1>5, FirstOfCall
<1>7. did \in SUBSET Dispatch
  BY <1>4, <1>5, FirstOfCall
<1> HIDE DEF did
<1>8. /\ r.results \o new \in Seq(ResultOf) /\ Len(r.results \o new) = Len(r.results) + n
      /\ \A j \in 1..Len(r.results \o new) :
            \/ \E i \in 1..Len(r.results) : (r.results \o new)[j] = r.results[i]
            \/ \E k \in r.at + 1..r.at + n : (r.results \o new)[j].call = r.calls[k]
  <2>1. /\ r.results \o new \in Seq(ResultOf) /\ Len(r.results \o new) = Len(r.results) + n
        /\ \A j \in 1..Len(r.results \o new) :
            \/ j \in 1..Len(r.results) /\ (r.results \o new)[j] = r.results[j]
            \/ \E k \in 1..n : (r.results \o new)[j] = new[k]
    <3> DEFINE q == r.results
    <3>1. q \in Seq(ResultOf)
      BY <1>2
    <3> HIDE DEF q
    <3>2. new \in Seq(ResultOf) /\ Len(new) = n
      BY <1>4
    <3>3. q \o new \in Seq(ResultOf) /\ Len(q \o new) = Len(q) + Len(new)
      BY <3>1, <3>2
    <3>4. FromBoth(q \o new, q, new)
      BY <3>1, <3>2, AppendedSequence
    <3> QED
      BY <3>2, <3>3, <3>4 DEF q, FromBoth
  <2>2. \A k \in 1..n : r.at + k \in r.at + 1..r.at + n /\ new[k].call = r.calls[r.at + k]
    BY <1>4
  <2> HIDE DEF r
  <2> DEFINE all == r.results \o new
             calls == r.calls
             from == r.at
  <2>3. ASSUME NEW j \in 1..Len(all)
        PROVE  \/ \E i \in 1..Len(r.results) : all[j] = r.results[i]
               \/ \E k \in from + 1..from + n : all[j].call = calls[k]
    <3>1. (j \in 1..Len(r.results) /\ all[j] = r.results[j]) \/ \E k \in 1..n : all[j] = new[k]
      BY <2>1, <2>3
    <3> HIDE DEF all, calls, from
    <3>2. \A k \in 1..n : from + k \in from + 1..from + n /\ new[k].call = calls[from + k]
      BY <2>2 DEF calls, from
    <3>3. ASSUME NEW k \in 1..n, all[j] = new[k]
          PROVE  \E i \in from + 1..from + n : all[j].call = calls[i]
      BY <3>2, <3>3
    <3> QED
      BY <3>1, <3>3
  <2> QED
    BY <2>1, <2>3
<1> HIDE DEF r
<1> DEFINE at == r.at + n
           results == r.results \o new
<1>9. at \in r.at..Len(r.calls)
  BY <1>2
<1>10. /\ runs' = [runs EXCEPT ![s] = [r EXCEPT !.at = at, !.results = results]]
       /\ \A x \in did : ~Denied(x) /\ \E k \in r.at + 1..at : r.calls[k] = x[1]
       /\ \A j \in 1..Len(results) :
            \/ \E i \in 1..Len(r.results) : results[j] = r.results[i]
            \/ \E k \in r.at + 1..at : results[j].call = r.calls[k]
  BY <1>3, <1>6, <1>8
<1>11. results \in Seq(ResultOf) /\ Len(results) + r.at <= Len(r.results) + at
  <2>1. Len(r.results) \in Nat /\ Len(results) = Len(r.results) + n
    BY <1>2, <1>8
  <2> QED
    BY <1>2, <1>8, <2>1
<1> HIDE DEF at, results
<1> USE DEF r
<1> QED
  BY <1>1, <1>3, <1>7, <1>9, <1>10, <1>11, ZenonT(30) DEF Advances

LEMMA CallAdvances ==
    ASSUME Typed, NEW s \in Slots, RunCall(s)
    PROVE  Advances(s)
<1> DEFINE r == runs[s]
           c == NextCall(r)
           new == Result(c, "run")
<1>1. Active(s) /\ IsRun(r) /\ (\A x \in Dispatches(c) : ~Denied(x)) /\ r.at # Len(r.calls)
  BY DEF Typed, RunsTyped, RunCall, Finished
<1>2. /\ r.calls \in Seq(Call) /\ r.results \in Seq(ResultOf) /\ r.at \in Nat /\ Len(r.calls) \in Nat
      /\ r.at + 1 \in r.at..Len(r.calls) /\ r.at + 1 \in 1..Len(r.calls)
  BY <1>1 DEF IsRun
<1>3. c = r.calls[r.at + 1] /\ c \in Call
  BY <1>2 DEF NextCall
<1>4. /\ runs' = [runs EXCEPT ![s] = [r EXCEPT !.at = r.at + 1, !.results = Append(r.results, new)]]
      /\ Executes(Dispatches(c)) /\ UNCHANGED <<entity, allowed, turn, pauses, failure, bounds>>
  BY DEF RunCall, people
<1>5. new \in ResultOf /\ new.call = c
  BY <1>3 DEF Result, ResultOf
<1> HIDE DEF c, new
<1>6. /\ Append(r.results, new) \in Seq(ResultOf)
      /\ Len(Append(r.results, new)) = Len(r.results) + 1 /\ Len(r.results) \in Nat
      /\ \A j \in 1..Len(Append(r.results, new)) :
            \/ \E i \in 1..Len(r.results) : Append(r.results, new)[j] = r.results[i]
            \/ Append(r.results, new)[j].call = r.calls[r.at + 1]
  <2> DEFINE q == r.results
  <2>1. q \in Seq(ResultOf) /\ new \in ResultOf
    BY <1>2, <1>5
  <2> HIDE DEF q
  <2>2. /\ Append(q, new) \in Seq(ResultOf) /\ Len(Append(q, new)) = Len(q) + 1 /\ Len(q) \in Nat
        /\ \A j \in 1..Len(q) : Append(q, new)[j] = q[j]
        /\ Append(q, new)[Len(q) + 1] = new
    BY <2>1
  <2>3. \A j \in 1..Len(Append(q, new)) : j \in 1..Len(q) \/ j = Len(q) + 1
    BY <2>2
  <2>4. new.call = r.calls[r.at + 1]
    BY <1>3, <1>5
  <2> QED
    BY <2>2, <2>3, <2>4 DEF q
<1>7. r.at + 1 \in r.at + 1..r.at + 1
  BY <1>2
<1> HIDE DEF r
<1> DEFINE at == r.at + 1
           results == Append(r.results, new)
<1>8. /\ runs' = [runs EXCEPT ![s] = [r EXCEPT !.at = at, !.results = results]]
      /\ \A x \in Dispatches(c) : ~Denied(x) /\ \E k \in r.at + 1..at : r.calls[k] = x[1]
      /\ \A j \in 1..Len(results) :
            \/ \E i \in 1..Len(r.results) : results[j] = r.results[i]
            \/ \E k \in r.at + 1..at : results[j].call = r.calls[k]
  BY <1>1, <1>3, <1>4, <1>6, <1>7, OwnDispatches
<1>9. /\ results \in Seq(ResultOf) /\ at \in r.at..Len(r.calls) /\ Dispatches(c) \in SUBSET Dispatch
      /\ Len(results) + r.at <= Len(r.results) + at
  BY <1>2, <1>3, <1>6, OwnDispatches
<1> HIDE DEF at, results
<1> USE DEF r
<1> QED
  BY <1>1, <1>4, <1>8, <1>9, ZenonT(30) DEF Advances

LEMMA SkipAdvances ==
    ASSUME Typed, NEW s \in Slots, SkipCheckpoint(s)
    PROVE  Advances(s)
<1> DEFINE r == runs[s]
           at == r.at + 1
<1>1. Active(s) /\ IsRun(r) /\ r.at # Len(r.calls)
  BY DEF Typed, RunsTyped, SkipCheckpoint, Boundary, Finished
<1>2. /\ r.results \in Seq(ResultOf) /\ at \in r.at..Len(r.calls)
      /\ Len(r.results) + r.at <= Len(r.results) + at
  BY <1>1 DEF IsRun
<1>3. [r EXCEPT !.at = at, !.results = r.results] = [r EXCEPT !.at = at]
  BY <1>1 DEF IsRun
<1>4. runs' = [runs EXCEPT ![s] = [r EXCEPT !.at = at]]
  BY DEF SkipCheckpoint
<1>5. UNCHANGED <<entity, allowed, turn, pauses, failure, bounds, executed>>
  BY DEF SkipCheckpoint, people, history
<1>6. Executes({})
  BY <1>5 DEF Executes, OneMore, Typed, BooksTyped
<1>7. \A j \in 1..Len(r.results) : \E i \in 1..Len(r.results) : r.results[j] = r.results[i]
  OBVIOUS
<1>8. runs' = [runs EXCEPT ![s] = [r EXCEPT !.at = at, !.results = r.results]]
  BY <1>3, <1>4
<1> HIDE DEF at
<1> QED
  BY <1>1, <1>2, <1>5, <1>6, <1>7, <1>8 DEF Advances
-----------------------------------------------------------------------------
(***************************************************************************)
(* The steps of the session, by what they do to the saved context and to   *)
(* the invocations.                                                        *)
(***************************************************************************)
Resting      == status \in {"Thinking", "WaitingForApproval", "Recovering"}
Distinct(q)  == \A j, k \in 1..Len(q) : q[j] = q[k] => j = k
AllOf(q, t)  == \A k \in 1..Len(q) : q[k][1] = t
Ahead(r, c)  == \E k \in r.at + 1..Len(r.calls) : r.calls[k] = c

\* A snippet has met a denial: some of its dispatches took effect, none of them
\* denied, and that is counted.
Cuts(s) ==
    /\ Active(s)
    /\ \E c \in Call, did \in SUBSET Dispatch :
        /\ Ahead(runs[s], c) /\ Executes(did)
        /\ \A x \in did : ~Denied(x) /\ x[1] = c
        /\ pauses' = OneMore(pauses, did)

\* A run that has just been started from a context.
Fresh(r, x, calls) ==
    /\ IsRun(r) /\ r.at = 0 /\ r.results = <<>>
    /\ r.resumed = x.saved /\ r.prior = x.done
    /\ r.calls = IF x.saved THEN x.rest ELSE calls

\* A session at rest starts a run, for new calls or for what it has saved.
StartsRun(s) ==
    /\ Resting /\ status' = "Executing" /\ runs' = [runs EXCEPT ![s] = runs'[s]]
    /\ \E calls \in Seq(Call) :
        /\ Fresh(runs'[s], pendingCtx, calls)
        /\ \/ calls = <<>> /\ turn' = turn
           \/ turn' = turn + 1 /\ Distinct(calls) /\ AllOf(calls, turn')
        /\ Len(calls) <= CallLimit
    /\ UNCHANGED <<pendingCtx, executed, pauses, bounds>> /\ allowed \subseteq allowed'

\* A run saves what it has, and ends or begins anew from that.
Checkpoints(s) ==
    /\ Active(s) /\ status = "Executing" /\ status' = "Executing"
    /\ pendingCtx' = Context(runs[s])
    /\ runs' = [runs EXCEPT ![s] = runs'[s]] /\ Fresh(runs'[s], pendingCtx', <<>>)
    /\ UNCHANGED <<allowed, turn, executed, pauses, bounds>>
Pauses(s) ==
    /\ Active(s) /\ status = "Executing" /\ status' = "WaitingForApproval"
    /\ pendingCtx' = Context(runs[s]) /\ Free(s)
    /\ Cuts(s) /\ UNCHANGED <<allowed, turn, bounds>>

WakesUp(s) ==
    /\ runs' = [runs EXCEPT ![s] = runs'[s]] /\ Fresh(runs'[s], pendingCtx, <<>>)
    /\ wakeUps' = wakeUps + 1
    /\ UNCHANGED <<pendingCtx, allowed, turn, executed, pauses, crashes>>

\* All others: runs end, the saved context stays or is dropped, and the session
\* comes to rest by a crash or by the end of its run only.
ComesToRest ==
    \/ Resting
    \/ crashes' = crashes + 1 /\ \A s \in Slots : runs'[s] = Idle
    \/ /\ status = "Executing"
       /\ \E s \in Slots : Active(s) /\ runs'[s] = Idle /\ (pendingCtx' = NoContext \/ ~runs[s].resumed)
Settles ==
    /\ runs' = [s \in Slots |-> runs'[s]] /\ \A s \in Slots : runs'[s] \in {Idle, runs[s]}
    /\ pendingCtx' \in {pendingCtx, NoContext}
    /\ status' = "Executing" => status = "Executing" /\ pendingCtx' = pendingCtx
    /\ Resting' => ComesToRest
    /\ crashes' \in {crashes, crashes + 1}
    /\ UNCHANGED <<executed, pauses>> \/ \E s \in Slots : Cuts(s)
    /\ UNCHANGED <<turn, wakeUps>> /\ allowed \subseteq allowed'

LEMMA NewRunIsFresh ==
    ASSUME NEW context \in SavedContext, NEW calls \in Seq(Call), NEW n, NEW leaf
    PROVE  Fresh(NewRun(context, calls, n, leaf), context, calls)
  BY NewRunType DEF Fresh

\* The calls of a turn are of that turn, and differ.
LEMMA CallsOfTurn ==
    ASSUME NEW t \in 1..TurnLimit, NEW calls \in CallsOf(t)
    PROVE  calls \in Seq(Call) /\ Distinct(calls) /\ AllOf(calls, t) /\ Len(calls) <= CallLimit
<1>1. PICK n \in 1..CallLimit, kind \in [1..CallLimit -> Kinds] : calls = [k \in 1..n |-> <<t, k, kind[k]>>]
  BY DEF CallsOf
<1>2. n \in Nat /\ n <= CallLimit /\ \A k \in 1..n : k \in 1..CallLimit /\ kind[k] \in Kinds
  BY <1>1, BatchBounds
<1>3. calls \in [1..n -> Call]
  BY <1>1, <1>2 DEF Call
<1>4. calls \in Seq(Call) /\ Len(calls) = n
  BY <1>2, <1>3, ListedSequence
<1>5. \A k \in 1..n : calls[k] = <<t, k, kind[k]>>
  BY <1>1
<1> QED
  BY <1>2, <1>4, <1>5 DEF Distinct, AllOf

\* A run that takes a free slot.
LEMMA SlotTaken ==
    ASSUME RunsTyped, NEW s \in Slots, NEW r, runs' = [runs EXCEPT ![s] = r]
    PROVE  runs'[s] = r /\ runs' = [runs EXCEPT ![s] = runs'[s]]
<1>1. s \in DOMAIN runs
  BY DEF RunsTyped
<1> QED
  BY <1>1

\* A slot that is freed; the others keep their runs.
LEMMA SlotFreed ==
    ASSUME RunsTyped, NEW s \in Slots, Free(s)
    PROVE  /\ runs' = [t \in Slots |-> runs'[t]] /\ runs'[s] = Idle
           /\ \A t \in Slots : runs'[t] \in {Idle, runs[t]}
<1>1. DOMAIN runs = Slots /\ runs' = [runs EXCEPT ![s] = Idle]
  BY DEF RunsTyped, Free
<1> QED
  BY <1>1

LEMMA SlotsKept ==
    ASSUME RunsTyped, UNCHANGED runs
    PROVE  runs' = [t \in Slots |-> runs'[t]] /\ \A t \in Slots : runs'[t] \in {Idle, runs[t]}
  BY DEF RunsTyped
-----------------------------------------------------------------------------
Moves(s) == Advances(s) \/ StartsRun(s) \/ Checkpoints(s) \/ Pauses(s) \/ WakesUp(s)

LEMMA AskKind ==
    ASSUME Typed, ProcessToolCalls
    PROVE  \E s \in Slots : StartsRun(s)
<1>1. turn \in Nat /\ turn < TurnLimit /\ TurnLimit \in Nat /\ pendingCtx \in SavedContext /\ RunsTyped
  BY BatchBounds DEF Typed, BooksTyped, ContextTyped, ProcessToolCalls
<1>2. PICK calls \in CallsOf(turn + 1), s \in Slots :
        runs' = [runs EXCEPT ![s] = NewRun(pendingCtx, calls, checkpoints, tree')]
  BY DEF ProcessToolCalls
<1>3. turn + 1 \in 1..TurnLimit
  BY <1>1
<1>4. calls \in Seq(Call) /\ Distinct(calls) /\ AllOf(calls, turn + 1) /\ Len(calls) <= CallLimit
  BY <1>3, CallsOfTurn
<1> DEFINE r == NewRun(pendingCtx, calls, checkpoints, tree')
<1>5. Fresh(r, pendingCtx, calls)
  BY <1>1, <1>4, NewRunIsFresh
<1> HIDE DEF r
<1>6. runs'[s] = r /\ runs' = [runs EXCEPT ![s] = runs'[s]]
  BY <1>1, <1>2, SlotTaken DEF r
<1>7. /\ Resting /\ status' = "Executing" /\ turn' = turn + 1
      /\ UNCHANGED <<pendingCtx, executed, pauses, bounds>> /\ allowed \subseteq allowed'
  BY DEF ProcessToolCalls, Resting, people
<1>8. Fresh(runs'[s], pendingCtx, calls) /\ turn' = turn + 1 /\ Distinct(calls) /\ AllOf(calls, turn')
  BY <1>4, <1>5, <1>6, <1>7
<1> QED
  BY <1>4, <1>6, <1>7, <1>8 DEF StartsRun

\* A resting session that resumes its saved context.
LEMMA ResumeKind ==
    ASSUME Typed, Resting, status' = "Executing", NEW s \in Slots, NEW t,
           runs' = [runs EXCEPT ![s] = NewRun(pendingCtx, <<>>, checkpoints, t)],
           UNCHANGED <<pendingCtx, turn, executed, pauses, bounds>>, allowed \subseteq allowed'
    PROVE  StartsRun(s)
<1>1. pendingCtx \in SavedContext /\ RunsTyped /\ <<>> \in Seq(Call) /\ Len(<<>>) <= CallLimit
  BY BatchBounds DEF Typed, ContextTyped
<1> DEFINE r == NewRun(pendingCtx, <<>>, checkpoints, t)
<1>2. Fresh(r, pendingCtx, <<>>)
  BY <1>1, NewRunIsFresh
<1> HIDE DEF r
<1>3. runs'[s] = r /\ runs' = [runs EXCEPT ![s] = runs'[s]]
  BY <1>1, SlotTaken DEF r
<1>4. Fresh(runs'[s], pendingCtx, <<>>)
  BY <1>2, <1>3
<1> QED
  BY <1>1, <1>3, <1>4 DEF StartsRun

LEMMA CheckpointKind ==
    ASSUME Typed, NEW s \in Slots, CheckpointToolBatch(s)
    PROVE  Checkpoints(s)
<1>1. Active(s) /\ status = "Executing" /\ pendingCtx' = Context(runs[s]) /\ status' = "Executing"
  BY DEF CheckpointToolBatch, Checkpointing
<1>2. UNCHANGED <<allowed, turn, executed, pauses, bounds>>
  BY DEF CheckpointToolBatch, Checkpointing, people, history
<1>3. RunsTyped /\ IsRun(runs[s]) /\ <<>> \in Seq(Call)
  BY <1>1 DEF Typed, RunsTyped
<1>4. pendingCtx' \in SavedContext
  BY <1>1, <1>3, ContextType
<1> DEFINE r == NewRun(pendingCtx', <<>>, checkpoints', tree')
<1>5. runs' = [runs EXCEPT ![s] = r]
  BY DEF CheckpointToolBatch, Reenter
<1>6. Fresh(r, pendingCtx', <<>>)
  BY <1>3, <1>4, NewRunIsFresh
<1> HIDE DEF r
<1>7. runs'[s] = r /\ runs' = [runs EXCEPT ![s] = runs'[s]]
  BY <1>3, <1>5, SlotTaken
<1>8. Fresh(runs'[s], pendingCtx', <<>>)
  BY <1>6, <1>7
<1> QED
  BY <1>1, <1>2, <1>7, <1>8 DEF Checkpoints

LEMMA WakeKind ==
    ASSUME Typed, NEW s \in Slots, ResumeTools(s)
    PROVE  WakesUp(s)
<1>1. pendingCtx \in SavedContext /\ RunsTyped /\ <<>> \in Seq(Call)
  BY DEF Typed, ContextTyped
<1> DEFINE r == NewRun(pendingCtx, <<>>, checkpoints, tree)
<1>2. Fresh(r, pendingCtx, <<>>)
  BY <1>1, NewRunIsFresh
<1>3. /\ runs' = [runs EXCEPT ![s] = r] /\ wakeUps' = wakeUps + 1
      /\ UNCHANGED <<pendingCtx, allowed, turn, executed, pauses, crashes>>
  BY DEF ResumeTools, entity, people, history
<1> HIDE DEF r
<1>4. runs'[s] = r /\ runs' = [runs EXCEPT ![s] = runs'[s]]
  BY <1>1, <1>3, SlotTaken
<1>5. Fresh(runs'[s], pendingCtx, <<>>)
  BY <1>2, <1>4
<1> QED
  BY <1>3, <1>4, <1>5 DEF WakesUp

\* A step that frees a slot or none, and neither rests nor executes afterwards
\* unless it did before.
LEMMA QuietKind ==
    ASSUME Typed, NEW s \in Slots, Free(s) \/ UNCHANGED runs,
           pendingCtx' \in {pendingCtx, NoContext},
           status' = "Executing" => status = "Executing" /\ pendingCtx' = pendingCtx,
           Resting' => ComesToRest,
           UNCHANGED <<turn, executed, pauses, bounds>>, allowed \subseteq allowed'
    PROVE  Settles
<1>1. RunsTyped
  BY DEF Typed
<1>2. runs' = [t \in Slots |-> runs'[t]] /\ \A t \in Slots : runs'[t] \in {Idle, runs[t]}
  BY <1>1, SlotFreed, SlotsKept
<1> QED
  BY <1>2 DEF Settles, bounds

LEMMA PauseCuts ==
    ASSUME Typed, NEW s \in Slots, Pausing(s)
    PROVE  Cuts(s) /\ NextCall(runs[s]) \in Call
<1> DEFINE r == runs[s]
           c == NextCall(r)
<1>1. Active(s) /\ IsRun(r) /\ r.at # Len(r.calls) /\ Snippet(s)
  BY DEF Pausing, Typed, RunsTyped, Finished
<1>2. r.at + 1 \in r.at + 1..Len(r.calls) /\ c = r.calls[r.at + 1] /\ c \in Call
  BY <1>1 DEF IsRun, NextCall
<1>3. Ahead(r, c)
  BY <1>2 DEF Ahead
<1> HIDE DEF c
<1>4. PICK n \in 1..Length(c) :
            LET reached == {<<c, i>> : i \in 1..n}
                denied  == {x \in reached : Denied(x)}
            IN  Executes(reached \ denied) /\ pauses' = OneMore(pauses, reached \ denied)
  BY <1>1 DEF Snippet, c
<1> DEFINE reached == {<<c, i>> : i \in 1..n}
           did == reached \ {x \in reached : Denied(x)}
<1>5. reached \subseteq Dispatches(c)
  BY DEF Dispatches, Length
<1>6. did \in SUBSET Dispatch /\ \A x \in did : ~Denied(x) /\ x[1] = c
  BY <1>2, <1>5, OwnDispatches
<1>7. Executes(did) /\ pauses' = OneMore(pauses, did)
  BY <1>4
<1> HIDE DEF did
<1> QED
  BY <1>1, <1>2, <1>3, <1>6, <1>7 DEF Cuts, c

LEMMA PauseKind ==
    ASSUME Typed, NEW s \in Slots, PauseForApproval(s)
    PROVE  Settles \/ Pauses(s)
<1>1. Active(s) /\ Free(s) /\ Cuts(s) /\ UNCHANGED <<allowed, turn, bounds>>
  BY PauseCuts DEF PauseForApproval, Pausing
<1>2. CASE status = "Executing"
  BY <1>1, <1>2 DEF PauseForApproval, Pausing, Pauses
<1>3. CASE status # "Executing"
  <2>1. UNCHANGED <<status, pendingCtx>>
    BY <1>3 DEF PauseForApproval, Pausing
  <2>2. Resting' => Resting
    BY <2>1 DEF Resting
  <2>3. runs' = [t \in Slots |-> runs'[t]] /\ \A t \in Slots : runs'[t] \in {Idle, runs[t]}
    BY <1>1, SlotFreed DEF Typed
  <2> QED
    BY <1>1, <1>3, <2>1, <2>2, <2>3 DEF ComesToRest, Settles, bounds
<1> QED
  BY <1>2, <1>3

\* The end of a run, with its results.
LEMMA EndKind ==
    ASSUME Typed, NEW s \in Slots, HandleToolResults(s) \/ RecordResult(s)
    PROVE  Settles
<1>1. Active(s) /\ Free(s) /\ status = "Executing" /\ UNCHANGED <<allowed, turn, executed, pauses, bounds>>
  BY DEF HandleToolResults, RecordResult, Ending, people, history
<1>2. /\ status' \in {"Thinking", "Completed"}
      /\ pendingCtx' = NoContext \/ (~runs[s].resumed /\ pendingCtx' = pendingCtx)
  BY DEF HandleToolResults, RecordResult
<1>3. runs'[s] = Idle
  BY <1>1, SlotFreed DEF Typed
<1>4. ComesToRest
  BY <1>1, <1>2, <1>3 DEF ComesToRest
<1> QED
  BY <1>1, <1>2, <1>4, QuietKind

LEMMA StepKinds ==
    ASSUME Typed, [Next]_vars
    PROVE  Settles \/ \E s \in Slots : Moves(s)
<1>s. 1 \in Slots
  BY BatchBounds DEF Slots
<1>1. CASE UNCHANGED vars
  <2>1. UNCHANGED <<runs, pendingCtx, status, turn, executed, pauses, bounds, allowed>>
    BY <1>1 DEF vars, entity, people, history
  <2>2. Resting' => Resting
    BY <2>1 DEF Resting
  <2> QED
    BY <1>s, <2>1, <2>2, QuietKind DEF ComesToRest
<1>2. CASE ProcessToolCalls
  BY <1>2, AskKind DEF Moves
<1>3. ASSUME NEW s \in Slots, RunStep(s) \/ ResumeTools(s)
      PROVE  Settles \/ Moves(s)
  <2>1. CASE RunBatch(s)
    BY <2>1, BatchAdvances DEF Moves
  <2>2. CASE RunCall(s)
    BY <2>2, CallAdvances DEF Moves
  <2>3. CASE SkipCheckpoint(s)
    BY <2>3, SkipAdvances DEF Moves
  <2>4. CASE CheckpointToolBatch(s)
    BY <2>4, CheckpointKind DEF Moves
  <2>5. CASE RunawayGuard(s)
    <3>1. /\ Free(s) /\ status' = "Failed"
          /\ UNCHANGED <<pendingCtx, turn, executed, pauses, bounds, allowed>>
      BY <2>5 DEF RunawayGuard, people
    <3> QED
      BY <3>1, QuietKind DEF Resting
  <2>6. CASE PauseForApproval(s)
    BY <2>6, PauseKind DEF Moves
  <2>7. CASE HandleToolResults(s) \/ RecordResult(s)
    BY <2>7, EndKind
  <2>8. CASE CallbackRejected(s)
    <3>1. Free(s) /\ UNCHANGED <<status, pendingCtx, turn, executed, pauses, bounds, allowed>>
      BY <2>8 DEF CallbackRejected, entity, people, history
    <3>2. Resting' => Resting
      BY <3>1 DEF Resting
    <3> QED
      BY <3>1, <3>2, QuietKind DEF ComesToRest
  <2>9. CASE InvocationFails(s)
    <3>1. /\ Free(s) /\ status' = "Failed"
          /\ UNCHANGED <<pendingCtx, turn, executed, pauses, bounds, allowed>>
      BY <2>9 DEF InvocationFails, FailsWith, people
    <3> QED
      BY <3>1, QuietKind DEF Resting
  <2>10. CASE ResumeTools(s)
    BY <2>10, WakeKind DEF Moves
  <2> QED
    BY <1>3, <2>1, <2>2, <2>3, <2>4, <2>5, <2>6, <2>7, <2>8, <2>9, <2>10 DEF RunStep
<1>4. CASE RegisterCallback
  <2>1. UNCHANGED <<status, runs, pendingCtx, turn, executed, pauses, bounds, allowed>>
    BY <1>4 DEF RegisterCallback, entity, history
  <2>2. Resting' => Resting
    BY <2>1 DEF Resting
  <2> QED
    BY <1>s, <2>1, <2>2, QuietKind DEF ComesToRest
<1>5. ASSUME NEW d \in 1..Len(decisions), Approve(d)
      PROVE  Settles \/ \E s \in Slots : Moves(s)
  <2>1. UNCHANGED <<pendingCtx, turn, executed, pauses, bounds>> /\ allowed \subseteq allowed'
    BY <1>5 DEF Approve, history
  <2>2. CASE status = "WaitingForApproval"
    <3>1. PICK s \in Slots : runs' = [runs EXCEPT ![s] = NewRun(pendingCtx, <<>>, checkpoints, tree)]
      BY <1>5, <2>2 DEF Approve
    <3>2. Resting /\ status' = "Executing"
      BY <1>5, <2>2 DEF Approve, Resting
    <3>3. StartsRun(s)
      BY <2>1, <3>1, <3>2, ResumeKind
    <3> QED
      BY <3>3 DEF Moves
  <2>3. CASE status # "WaitingForApproval"
    <3>1. UNCHANGED <<status, runs>>
      BY <1>5, <2>3 DEF Approve
    <3>2. Resting' => Resting
      BY <3>1 DEF Resting
    <3> QED
      BY <1>s, <2>1, <3>1, <3>2, QuietKind DEF ComesToRest
  <2> QED
    BY <2>2, <2>3
<1>6. ASSUME NEW d \in 1..Len(decisions), Deny(d)
      PROVE  Settles
  <2>1. /\ UNCHANGED <<runs, pendingCtx, turn, executed, pauses, bounds, allowed>>
        /\ status' = status \/ status' = "Failed"
    BY <1>6 DEF Deny
  <2>2. Resting' => Resting
    BY <2>1 DEF Resting
  <2> QED
    BY <1>s, <2>1, <2>2, QuietKind DEF ComesToRest
<1>7. CASE ResumeWithPlanApproval
  <2>1. /\ status = "WaitingForApproval" /\ status' = "Thinking"
        /\ UNCHANGED <<runs, pendingCtx, turn, executed, pauses, bounds, allowed>>
    BY <1>7 DEF ResumeWithPlanApproval, people, history
  <2>2. Resting
    BY <2>1 DEF Resting
  <2> QED
    BY <1>s, <2>1, <2>2, QuietKind DEF ComesToRest
<1>8. CASE EndedFromOutside
  <2>1. /\ status' = "Failed"
        /\ UNCHANGED <<runs, pendingCtx, turn, executed, pauses, bounds, allowed>>
    BY <1>8 DEF EndedFromOutside, FailsWith, people
  <2> QED
    BY <1>s, <2>1, QuietKind DEF Resting
<1>9. CASE CrashAndSweep
  <2>1. /\ runs' = [s \in Slots |-> Idle] /\ crashes' = crashes + 1
        /\ status' \in {"Recovering", "Failed"}
        /\ UNCHANGED <<pendingCtx, turn, executed, pauses, wakeUps, allowed>>
    BY <1>9 DEF CrashAndSweep
  <2>2. \A s \in Slots : runs'[s] = Idle
    BY <2>1
  <2> QED
    BY <2>1, <2>2 DEF Settles, ComesToRest
<1>10. CASE RecoverSession
  <2>1. UNCHANGED <<pendingCtx, turn, executed, pauses, bounds, allowed>> /\ Resting
    BY <1>10 DEF RecoverSession, people, history, Resting
  <2>2. CASE pendingCtx.rest # <<>>
    <3>1. PICK s \in Slots : runs' = [runs EXCEPT ![s] = NewRun(pendingCtx, <<>>, checkpoints, tree')]
      BY <1>10, <2>2 DEF RecoverSession
    <3>2. status' = "Executing"
      BY <1>10, <2>2 DEF RecoverSession
    <3>3. StartsRun(s)
      BY <2>1, <3>1, <3>2, ResumeKind
    <3> QED
      BY <3>3 DEF Moves
  <2>3. CASE pendingCtx.rest = <<>>
    <3>1. status' = "Thinking" /\ UNCHANGED runs
      BY <1>10, <2>3 DEF RecoverSession
    <3> QED
      BY <1>s, <2>1, <3>1, QuietKind DEF ComesToRest
  <2> QED
    BY <2>2, <2>3
<1> QED
  BY <1>1, <1>2, <1>3, <1>4, <1>5, <1>6, <1>7, <1>8, <1>9, <1>10 DEF Next

-----------------------------------------------------------------------------
(***************************************************************************)
(* Types, and approvals.                                                   *)
(***************************************************************************)
LEMMA OtherSlots ==
    ASSUME RunsTyped, NEW s \in Slots, runs' = [runs EXCEPT ![s] = runs'[s]]
    PROVE  /\ runs' = [t \in Slots |-> runs'[t]]
           /\ \A t \in Slots : t # s => runs'[t] = runs[t]
<1>1. DOMAIN runs = Slots
  BY DEF RunsTyped
<1> QED
  BY <1>1

\* The types of a step in which one slot gets a typed run, or is freed.
LEMMA SlotTypes ==
    ASSUME RunsTyped, NEW s \in Slots, runs' = [runs EXCEPT ![s] = runs'[s]],
           IsRun(runs'[s]) \/ runs'[s] = Idle
    PROVE  RunsTyped'
  BY OtherSlots DEF RunsTyped, Active

\* A run that has advanced, and the calls it has executed.
LEMMA AdvancedRun ==
    ASSUME Typed, NEW s \in Slots, Advances(s)
    PROVE  /\ runs' = [runs EXCEPT ![s] = runs'[s]] /\ IsRun(runs[s]) /\ IsRun(runs'[s])
           /\ runs'[s].at \in runs[s].at..Len(runs[s].calls)
           /\ runs'[s].calls = runs[s].calls /\ runs'[s].prior = runs[s].prior
           /\ runs'[s].resumed = runs[s].resumed
           /\ \E did \in SUBSET Dispatch :
                /\ Executes(did)
                /\ \A x \in did : ~Denied(x) /\ \E k \in runs[s].at + 1..runs'[s].at : runs[s].calls[k] = x[1]
           /\ Len(runs'[s].results) + runs[s].at <= Len(runs[s].results) + runs'[s].at
           /\ \A j \in 1..Len(runs'[s].results) :
                \/ \E i \in 1..Len(runs[s].results) : runs'[s].results[j] = runs[s].results[i]
                \/ \E k \in runs[s].at + 1..runs'[s].at : runs'[s].results[j].call = runs[s].calls[k]
<1> DEFINE r == runs[s]
<1>1. RunsTyped /\ IsRun(r)
  BY DEF Advances, Typed, RunsTyped
<1>2. PICK at \in r.at..Len(r.calls), results \in Seq(ResultOf), did \in SUBSET Dispatch :
        /\ runs' = [runs EXCEPT ![s] = [r EXCEPT !.at = at, !.results = results]]
        /\ Executes(did)
        /\ \A x \in did : ~Denied(x) /\ \E k \in r.at + 1..at : r.calls[k] = x[1]
        /\ Len(results) + r.at <= Len(r.results) + at
        /\ \A j \in 1..Len(results) :
            \/ \E i \in 1..Len(r.results) : results[j] = r.results[i]
            \/ \E k \in r.at + 1..at : results[j].call = r.calls[k]
  BY DEF Advances
<1>3. at \in 0..Len(r.calls) /\ results \in Seq(ResultOf)
  BY <1>1, <1>2 DEF IsRun
<1> HIDE DEF r
<1> DEFINE q == [r EXCEPT !.at = at, !.results = results]
<1>4. GoesTo(q, r, at, results) /\ runs' = [runs EXCEPT ![s] = q]
  BY <1>2 DEF GoesTo
<1> HIDE DEF q
<1>5. /\ IsRun(q) /\ q.at = at /\ q.results = results /\ q.calls = r.calls
      /\ q.prior = r.prior /\ q.resumed = r.resumed
  <2>1. IsRun(r)
    BY <1>1
  <2>2. at \in 0..Len(r.calls)
    BY <1>3
  <2>3. results \in Seq(ResultOf)
    BY <1>3
  <2>4. GoesTo(q, r, at, results)
    BY <1>4
  <2>5. IsRun(q)
    BY <2>1, <2>2, <2>3, <2>4, AdvanceType
  <2>6. q.at = at
    BY <2>1, <2>2, <2>3, <2>4, AdvanceType
  <2>7. q.results = results
    BY <2>1, <2>2, <2>3, <2>4, AdvanceType
  <2>8. q.calls = r.calls
    BY <2>1, <2>2, <2>3, <2>4, AdvanceType
  <2>9. q.prior = r.prior
    BY <2>1, <2>2, <2>3, <2>4, AdvanceType
  <2>10. q.resumed = r.resumed
    BY <2>1, <2>2, <2>3, <2>4, AdvanceType
  <2> QED
    BY <2>5, <2>6, <2>7, <2>8, <2>9, <2>10
<1>6. runs'[s] = q /\ runs' = [runs EXCEPT ![s] = runs'[s]]
  BY <1>1, <1>4, SlotTaken
<1>7. /\ q.at \in r.at..Len(r.calls) /\ Len(q.results) + r.at <= Len(r.results) + q.at
      /\ \A x \in did : ~Denied(x) /\ \E k \in r.at + 1..q.at : r.calls[k] = x[1]
      /\ \A j \in 1..Len(q.results) :
            \/ \E i \in 1..Len(r.results) : q.results[j] = r.results[i]
            \/ \E k \in r.at + 1..q.at : q.results[j].call = r.calls[k]
  BY <1>2, <1>5
<1>8. \E cs \in SUBSET Dispatch :
        Executes(cs) /\ \A x \in cs : ~Denied(x) /\ \E k \in r.at + 1..q.at : r.calls[k] = x[1]
  BY <1>2, <1>7
<1> QED
  BY <1>1, <1>5, <1>6, <1>7, <1>8 DEF r

\* What a snippet that met a denial leaves: each dispatch took effect once more at
\* most, and that is counted, and it was ahead of the run and not denied.
Covered == \A x \in Dispatch : executed'[x] + pauses[x] <= executed[x] + pauses'[x]
LEMMA CutsEffect ==
    ASSUME Typed, NEW s \in Slots, Cuts(s)
    PROVE  /\ executed' \in [Dispatch -> Nat] /\ pauses' \in [Dispatch -> Nat] /\ Covered
           /\ \A x \in Dispatch : executed'[x] # executed[x] => ~Denied(x) /\ Ahead(runs[s], x[1])
<1>1. PICK c \in Call, did \in SUBSET Dispatch :
        /\ Ahead(runs[s], c) /\ Executes(did)
        /\ \A x \in did : ~Denied(x) /\ x[1] = c
        /\ pauses' = OneMore(pauses, did)
  BY DEF Cuts
<1>2. executed \in [Dispatch -> Nat] /\ pauses \in [Dispatch -> Nat]
  BY DEF Typed, BooksTyped
<1>3. executed' \in [Dispatch -> Nat] /\ pauses' \in [Dispatch -> Nat]
  BY <1>1, <1>2 DEF Executes, OneMore
<1>4. ASSUME NEW x \in Dispatch
      PROVE  /\ executed'[x] + pauses[x] <= executed[x] + pauses'[x]
             /\ executed'[x] # executed[x] => ~Denied(x) /\ Ahead(runs[s], x[1])
  <2>1. executed[x] \in Nat /\ pauses[x] \in Nat
    BY <1>2
  <2>2. executed'[x] = IF x \in did THEN executed[x] + 1 ELSE executed[x]
    BY <1>1 DEF Executes, OneMore
  <2>3. pauses'[x] = IF x \in did THEN pauses[x] + 1 ELSE pauses[x]
    BY <1>1 DEF OneMore
  <2>4. x \in did => x[1] = c /\ ~Denied(x) /\ Ahead(runs[s], x[1])
    BY <1>1
  <2> QED
    BY <2>1, <2>2, <2>3, <2>4
<1> QED
  BY <1>3, <1>4 DEF Covered

LEMMA TypedStep ==
    ASSUME Typed, Settles \/ \E s \in Slots : Moves(s)
    PROVE  Typed'
<1> USE DEF Typed
<1>1. CASE Settles
  <2>1. NoContext \in SavedContext /\ NoContext.done = <<>> /\ NoContext.rest = <<>>
    BY DEF NoContext, SavedContext
  <2>2. ContextTyped'
    BY <1>1, <2>1 DEF Settles, ContextTyped
  <2>3. RunsTyped'
    BY <1>1 DEF Settles, RunsTyped, Active
  <2>4. BooksTyped'
    BY <1>1, CutsEffect DEF Settles, BooksTyped
  <2> QED
    BY <2>2, <2>3, <2>4
<1>2. ASSUME NEW s \in Slots, Advances(s)
      PROVE  Typed'
  <2>1. ContextTyped' /\ UNCHANGED <<turn, crashes, wakeUps, pauses>>
    BY <1>2 DEF Advances, ContextTyped, entity, bounds
  <2>2. RunsTyped'
    BY <1>2, AdvancedRun, SlotTypes
  <2>3. PICK did : Executes(did)
    BY <1>2 DEF Advances
  <2>4. executed' \in [Dispatch -> Nat]
    BY <2>3 DEF Executes, OneMore, BooksTyped
  <2> QED
    BY <2>1, <2>2, <2>4 DEF BooksTyped
<1>3. ASSUME NEW s \in Slots, StartsRun(s) \/ WakesUp(s)
      PROVE  Typed'
  <2>1. /\ ContextTyped' /\ runs' = [runs EXCEPT ![s] = runs'[s]]
        /\ IsRun(runs'[s])
    BY <1>3 DEF StartsRun, WakesUp, ContextTyped, Fresh
  <2>2. RunsTyped'
    BY <2>1, SlotTypes
  <2>3. BooksTyped'
    BY <1>3 DEF StartsRun, WakesUp, BooksTyped, bounds
  <2> QED
    BY <2>1, <2>2, <2>3
<1>4. ASSUME NEW s \in Slots, Checkpoints(s) \/ Pauses(s)
      PROVE  Typed'
  <2>1. IsRun(runs[s]) /\ pendingCtx' = Context(runs[s])
    BY <1>4 DEF Checkpoints, Pauses, RunsTyped
  <2>2. ContextTyped'
    BY <2>1, ContextType DEF ContextTyped
  <2>3. CASE Checkpoints(s)
    <3>1. runs' = [runs EXCEPT ![s] = runs'[s]] /\ IsRun(runs'[s])
      BY <2>3 DEF Checkpoints, Fresh
    <3> QED
      BY <2>2, <2>3, <3>1, SlotTypes DEF Checkpoints, BooksTyped, bounds
  <2>4. CASE Pauses(s)
    <3>1. runs' = [runs EXCEPT ![s] = runs'[s]] /\ runs'[s] = Idle
      BY <2>4, SlotTaken DEF Pauses, Free
    <3> QED
      BY <2>2, <2>4, <3>1, SlotTypes, CutsEffect DEF Pauses, BooksTyped, bounds
  <2> QED
    BY <1>4, <2>3, <2>4
<1> QED
  BY <1>1, <1>2, <1>3, <1>4 DEF Moves

LEMMA InitTyped ==
    ASSUME Init
    PROVE  Typed
<1>1. ContextTyped
  BY DEF Init, ContextTyped, NoContext, SavedContext
<1>2. RunsTyped
  BY DEF Init, RunsTyped, Active
<1>3. BooksTyped
  BY DEF Init, BooksTyped
<1> QED
  BY <1>1, <1>2, <1>3 DEF Typed

\* What a step does to the executions: a dispatch takes effect only where a run has
\* its call ahead of it and no approval is missing.
LEMMA ExecutedStep ==
    ASSUME Typed, Settles \/ \E s \in Slots : Moves(s), NEW x \in Dispatch, executed'[x] # executed[x]
    PROVE  ~Denied(x) /\ \E s \in Slots : Active(s) /\ Ahead(runs[s], x[1])
<1>1. ASSUME NEW s \in Slots, Cuts(s)
      PROVE  ~Denied(x) /\ Active(s) /\ Ahead(runs[s], x[1])
  BY <1>1, CutsEffect DEF Cuts
<1>2. ASSUME NEW s \in Slots, Advances(s)
      PROVE  ~Denied(x) /\ Active(s) /\ Ahead(runs[s], x[1])
  <2>1. PICK did \in SUBSET Dispatch :
          /\ Executes(did)
          /\ \A y \in did : ~Denied(y) /\ \E k \in runs[s].at + 1..runs'[s].at : runs[s].calls[k] = y[1]
    BY <1>2, AdvancedRun
  <2>2. x \in did
    BY <2>1 DEF Executes, OneMore
  <2>3. PICK k \in runs[s].at + 1..runs'[s].at : runs[s].calls[k] = x[1]
    BY <2>1, <2>2
  <2>4. runs[s].at \in Nat /\ Len(runs[s].calls) \in Nat /\ runs'[s].at \in runs[s].at..Len(runs[s].calls)
    BY <1>2, AdvancedRun DEF IsRun
  <2>5. k \in runs[s].at + 1..Len(runs[s].calls)
    BY <2>3, <2>4
  <2> QED
    BY <1>2, <2>1, <2>2, <2>3, <2>5 DEF Ahead, Advances
<1>3. Settles => \E s \in Slots : Cuts(s)
  BY DEF Settles
<1>4. \A s \in Slots : Moves(s) => Advances(s) \/ Cuts(s)
  BY DEF Moves, StartsRun, Checkpoints, Pauses, WakesUp
<1> QED
  BY <1>1, <1>2, <1>3, <1>4

LEMMA AllowedGrows ==
    ASSUME Settles \/ \E s \in Slots : Moves(s)
    PROVE  allowed \subseteq allowed'
  BY Zenon DEF Settles, Moves, Advances, StartsRun, Checkpoints, Pauses, WakesUp

\* No guarded dispatch takes effect before a person has approved it: a denial inside
\* a batch answers the call, and a denial in a snippet pauses the session, though the
\* rest of the snippet has run.
THEOREM OnlyApproved == Spec => []NothingUnapproved
<1> DEFINE Inv == Typed /\ NothingUnapproved
<1>1. Init => Inv
  BY InitTyped DEF Init, NothingUnapproved
<1>2. Inv /\ [Next]_vars => Inv'
  <2> SUFFICES ASSUME Typed, NothingUnapproved, [Next]_vars
               PROVE  Typed' /\ NothingUnapproved'
    OBVIOUS
  <2>1. Settles \/ \E s \in Slots : Moves(s)
    BY StepKinds
  <2>2. Typed'
    BY <2>1, TypedStep
  <2>3. allowed \subseteq allowed'
    BY <2>1, AllowedGrows
  <2>4. ASSUME NEW x \in Dispatch, Guarded(x), executed'[x] > 0
        PROVE  x \in allowed'
    <3>1. CASE executed'[x] = executed[x]
      BY <2>3, <2>4, <3>1 DEF NothingUnapproved
    <3>2. CASE executed'[x] # executed[x]
      BY <2>1, <2>3, <2>4, <3>2, ExecutedStep DEF Denied
    <3> QED
      BY <3>1, <3>2
  <2> QED
    BY <2>2, <2>4 DEF NothingUnapproved
<1> QED
  BY <1>1, <1>2, PTL DEF Spec
-----------------------------------------------------------------------------
(***************************************************************************)
(* The split of a turn.  While no message has started a second run_tools,  *)
(* one run is active at most, and none while the session rests.  A call is *)
(* ahead of the run, or among the remaining calls of a resting session, or *)
(* has its result; it is in one of these places only, and what is done is  *)
(* apart from what remains.                                                *)
(***************************************************************************)
Holds(q, c)   == \E k \in 1..Len(q) : q[k] = c
Answers(q, c) == \E k \in 1..Len(q) : q[k].call = c
UpTo(q, t)    == \A k \in 1..Len(q) : q[k][1] <= t

ContextSplit(x, t) ==
    /\ Distinct(x.rest) /\ UpTo(x.rest, t)
    /\ \A k \in 1..Len(x.rest) : ~Answers(x.done, x.rest[k])
RunSplit(r, x, t) ==
    /\ Distinct(r.calls) /\ UpTo(r.calls, t)
    /\ \A j \in 1..Len(r.results) : \E k \in 1..r.at : r.results[j].call = r.calls[k]
    /\ \A k \in 1..Len(r.calls) : ~Answers(r.prior, r.calls[k]) /\ ~Answers(x.done, r.calls[k])

OneRun ==
    /\ \A s, t \in Slots : Active(s) /\ Active(t) => s = t
    /\ Resting => \A s \in Slots : ~Active(s)
Split ==
    /\ ContextSplit(pendingCtx, turn)
    /\ \A s \in Slots : Active(s) => /\ RunSplit(runs[s], pendingCtx, turn)
                                     /\ status = "Executing" => runs[s].resumed = pendingCtx.saved

\* A call still to be run: its dispatches took effect once per crash at most, and
\* where its snippet paused.
Owed(c) ==
    \/ turn < c[1]
    \/ Resting /\ Holds(pendingCtx.rest, c)
    \/ \E s \in Slots : Active(s) /\ Ahead(runs[s], c)
Counted ==
    \A x \in Dispatch : /\ executed[x] <= 1 + crashes + pauses[x]
                        /\ Owed(x[1]) => executed[x] <= crashes + pauses[x]

Apart == OneRun /\ Split /\ Counted
Undisturbed == wakeUps = 0 => Apart

\* What the pauses cover stays counted.
LEMMA CoveredKeeps ==
    ASSUME Typed, Apart, executed' \in [Dispatch -> Nat], pauses' \in [Dispatch -> Nat], Covered, crashes' = crashes,
           \A c \in Call : Owed(c)' => Owed(c)
    PROVE  Counted'
<1> SUFFICES ASSUME NEW x \in Dispatch
             PROVE  /\ executed'[x] <= 1 + crashes + pauses'[x]
                    /\ Owed(x[1])' => executed'[x] <= crashes + pauses'[x]
  BY DEF Counted
<1>1. x[1] \in Call
  BY DEF Dispatch
<1>2. /\ executed[x] \in Nat /\ pauses[x] \in Nat /\ crashes \in Nat
      /\ executed'[x] \in Nat /\ pauses'[x] \in Nat
  BY <1>1 DEF Typed, BooksTyped
<1>3. executed'[x] + pauses[x] <= executed[x] + pauses'[x]
  BY DEF Covered
<1>4. /\ executed[x] <= 1 + crashes + pauses[x]
      /\ Owed(x[1]) => executed[x] <= crashes + pauses[x]
  BY DEF Apart, Counted
<1>5. Owed(x[1])' => Owed(x[1])
  BY <1>1
<1> QED
  BY <1>2, <1>3, <1>4, <1>5

LEMMA FreshSplit ==
    ASSUME NEW x \in SavedContext, NEW t, ContextSplit(x, t), ~x.saved => x.done = <<>>,
           NEW r, NEW calls, Fresh(r, x, calls), ~x.saved => Distinct(calls) /\ UpTo(calls, t)
    PROVE  /\ RunSplit(r, x, t)
           /\ \A c : Ahead(r, c) => Holds(IF x.saved THEN x.rest ELSE calls, c)
<1>1. /\ r.at = 0 /\ r.results = <<>> /\ r.prior = x.done
      /\ r.calls = IF x.saved THEN x.rest ELSE calls
  BY DEF Fresh
<1>2. Distinct(r.calls) /\ UpTo(r.calls, t)
  BY <1>1 DEF ContextSplit
<1>3. \A k \in 1..Len(r.calls) : ~Answers(x.done, r.calls[k])
  BY <1>1 DEF ContextSplit, Answers
<1>4. \A c : Ahead(r, c) => Holds(r.calls, c)
  BY <1>1 DEF Ahead, Holds
<1> QED
  BY <1>1, <1>2, <1>3, <1>4 DEF RunSplit

LEMMA ContextSplits ==
    ASSUME NEW r, IsRun(r), NEW x, NEW t, RunSplit(r, x, t)
    PROVE  /\ ContextSplit(Context(r), t)
           /\ \A c : Holds(Context(r).rest, c) => Ahead(r, c)
<1> DEFINE q == Context(r).rest
           done == Context(r).done
<1>1. /\ done = r.prior \o r.results /\ q \in Seq(Call) /\ Len(q) = Len(r.calls) - r.at
      /\ \A k \in 1..Len(q) : r.at + k \in 1..Len(r.calls) /\ q[k] = r.calls[r.at + k]
  BY ContextType
<1>2. /\ r.at \in Nat /\ Len(r.calls) \in Nat /\ Len(q) \in Nat /\ r.at <= Len(r.calls)
      /\ r.prior \in Seq(ResultOf) /\ r.results \in Seq(ResultOf)
  BY <1>1 DEF IsRun
<1>3. \A j \in 1..Len(done) :
         \/ j \in 1..Len(r.prior) /\ done[j] = r.prior[j]
         \/ \E k \in 1..Len(r.results) : done[j] = r.results[k]
  <2> DEFINE p == r.prior
             u == r.results
  <2>1. done = p \o u /\ p \in Seq(ResultOf) /\ u \in Seq(ResultOf)
    BY <1>1, <1>2
  <2> HIDE DEF p, u
  <2>2. \A j \in 1..Len(p \o u) :
           \/ j \in 1..Len(p) /\ (p \o u)[j] = p[j]
           \/ \E k \in 1..Len(u) : (p \o u)[j] = u[k]
    BY <2>1, AppendedSequence
  <2> HIDE DEF done
  <2> QED
    BY <2>1, <2>2 DEF p, u
<1> HIDE DEF q, done
<1>4. Distinct(q)
  <2> SUFFICES ASSUME NEW j \in 1..Len(q), NEW k \in 1..Len(q), q[j] = q[k]
               PROVE  j = k
    BY DEF Distinct
  <2>1. r.at + j = r.at + k
    BY <1>1 DEF RunSplit, Distinct
  <2> QED
    BY <1>2, <2>1
<1>5. UpTo(q, t)
  BY <1>1 DEF RunSplit, UpTo
<1>6. ASSUME NEW k \in 1..Len(q)
      PROVE  ~Answers(done, q[k])
  <2> SUFFICES ASSUME NEW j \in 1..Len(done), done[j].call = q[k]
               PROVE  FALSE
    BY DEF Answers
  <2>1. r.at + k \in 1..Len(r.calls) /\ q[k] = r.calls[r.at + k]
    BY <1>1
  <2>2. CASE j \in 1..Len(r.prior) /\ done[j] = r.prior[j]
    BY <2>1, <2>2 DEF RunSplit, Answers
  <2>3. CASE \E i \in 1..Len(r.results) : done[j] = r.results[i]
    <3>1. PICK i \in 1..r.at : r.calls[i] = r.calls[r.at + k]
      BY <2>1, <2>3 DEF RunSplit
    <3>2. i \in 1..Len(r.calls) /\ i # r.at + k
      BY <1>2, <3>1
    <3> QED
      BY <2>1, <3>1, <3>2 DEF RunSplit, Distinct
  <2> QED
    BY <1>3, <2>2, <2>3
<1>7. ASSUME NEW c, Holds(q, c)
      PROVE  Ahead(r, c)
  <2>1. PICK k \in 1..Len(q) : r.calls[r.at + k] = c
    BY <1>1, <1>7 DEF Holds
  <2>2. r.at + k \in r.at + 1..Len(r.calls)
    BY <1>1, <1>2, <2>1
  <2> QED
    BY <2>1, <2>2 DEF Ahead
<1> USE DEF q, done
<1> QED
  BY <1>4, <1>5, <1>6, <1>7 DEF ContextSplit

LEMMA AdvanceApart ==
    ASSUME Typed, Apart, NEW s \in Slots, Advances(s)
    PROVE  Apart'
<1> DEFINE r == runs[s]
           q == runs'[s]
<1>1. /\ Active(s) /\ ~Resting /\ UNCHANGED <<status, pendingCtx, turn, crashes, pauses>>
      /\ \A t \in Slots : Active(t) => t = s
  BY DEF Advances, Apart, OneRun, entity, bounds
<1>2. /\ runs' = [runs EXCEPT ![s] = q] /\ IsRun(r) /\ q.at \in r.at..Len(r.calls)
      /\ q.calls = r.calls /\ q.prior = r.prior /\ q.resumed = r.resumed
      /\ \A j \in 1..Len(q.results) :
            \/ \E i \in 1..Len(r.results) : q.results[j] = r.results[i]
            \/ \E k \in r.at + 1..q.at : q.results[j].call = r.calls[k]
  BY AdvancedRun
<1>3. PICK did \in SUBSET Dispatch :
        /\ Executes(did)
        /\ \A x \in did : \E k \in r.at + 1..q.at : r.calls[k] = x[1]
  BY AdvancedRun
<1>4. r.at \in Nat /\ q.at \in Nat /\ r.at <= q.at /\ q.at <= Len(r.calls) /\ Len(r.calls) \in Nat
  BY <1>2 DEF IsRun
<1>5. RunSplit(r, pendingCtx, turn) /\ (status = "Executing" => r.resumed = pendingCtx.saved)
  BY <1>1 DEF Apart, Split
<1>6. \A t \in Slots : t # s => runs'[t] = runs[t]
  BY <1>2, OtherSlots DEF Typed
<1>7. \A t \in Slots : Active(t)' => t = s
  BY <1>1, <1>6 DEF Active
<1>8. ~Resting'
  BY <1>1 DEF Resting
<1>9. OneRun'
  BY <1>7, <1>8 DEF OneRun
<1> HIDE DEF r, q
<1>10. RunSplit(q, pendingCtx, turn)
  <2>1. \A j \in 1..Len(q.results) : \E k \in 1..q.at : q.results[j].call = q.calls[k]
    <3> SUFFICES ASSUME NEW j \in 1..Len(q.results)
                 PROVE  \E k \in 1..q.at : q.results[j].call = r.calls[k]
      BY <1>2
    <3>1. CASE \E i \in 1..Len(r.results) : q.results[j] = r.results[i]
      <4>1. PICK k \in 1..r.at : q.results[j].call = r.calls[k]
        BY <1>5, <3>1 DEF RunSplit
      <4>2. k \in 1..q.at
        BY <1>4
      <4> QED
        BY <4>1, <4>2
    <3>2. CASE \E k \in r.at + 1..q.at : q.results[j].call = r.calls[k]
      <4>1. PICK k \in r.at + 1..q.at : q.results[j].call = r.calls[k]
        BY <3>2
      <4>2. k \in 1..q.at
        BY <1>4
      <4> QED
        BY <4>1, <4>2
    <3> QED
      BY <1>2, <3>1, <3>2
  <2> QED
    BY <1>2, <1>5, <2>1 DEF RunSplit
<1>11. Split'
  BY <1>1, <1>2, <1>5, <1>7, <1>10 DEF Apart, Split, q, r
<1>12. ASSUME NEW x \in Dispatch
       PROVE  /\ executed'[x] <= 1 + crashes' + pauses'[x]
              /\ Owed(x[1])' => executed'[x] <= crashes' + pauses'[x]
  <2> DEFINE c == x[1]
  <2>0. c \in Call
    BY DEF Dispatch
  <2>1. executed[x] \in Nat /\ pauses[x] \in Nat /\ crashes \in Nat /\ turn \in Nat
    BY <2>0 DEF Typed, BooksTyped
  <2>2. executed[x] <= 1 + crashes + pauses[x] /\ (Owed(c) => executed[x] <= crashes + pauses[x])
    BY DEF Apart, Counted
  <2> HIDE DEF c
  <2>3. Ahead(q, c) => Ahead(r, c)
    BY <1>2, <1>4 DEF Ahead
  <2>4. Owed(c)' => turn < c[1] \/ Ahead(q, c)
    BY <1>1, <1>7, <1>8 DEF Owed, q
  <2>5. turn < c[1] \/ Ahead(r, c) => Owed(c)
    BY <1>1 DEF Owed, r
  <2>6. CASE x \notin did
    BY <1>1, <1>3, <2>2, <2>3, <2>4, <2>5, <2>6 DEF Executes, OneMore, c
  <2>7. CASE x \in did
    <3>1. PICK k \in r.at + 1..q.at : r.calls[k] = c
      BY <1>3, <2>7 DEF c
    <3>2. k \in r.at + 1..Len(r.calls) /\ k \in 1..Len(r.calls) /\ k <= q.at /\ k \in Nat
      BY <1>4
    <3>3. Ahead(r, c)
      BY <3>1, <3>2 DEF Ahead
    <3>4. c[1] <= turn
      BY <1>5, <3>1, <3>2 DEF RunSplit, UpTo
    <3>5. ~Ahead(q, c)
      <4> SUFFICES ASSUME NEW i \in q.at + 1..Len(r.calls), r.calls[i] = c
                   PROVE  FALSE
        BY <1>2 DEF Ahead
      <4>1. i \in 1..Len(r.calls) /\ i # k
        BY <1>4, <3>2
      <4> QED
        BY <1>5, <3>1, <3>2, <4>1 DEF RunSplit, Distinct
    <3>6. c[1] \in Nat
      BY <2>0 DEF Call
    <3>7. ~Owed(c)'
      BY <2>1, <2>4, <3>4, <3>5, <3>6
    <3>8. executed'[x] = executed[x] + 1
      BY <1>3, <2>7 DEF Executes, OneMore
    <3> QED
      BY <1>1, <2>1, <2>2, <2>5, <3>3, <3>7, <3>8 DEF c
  <2> QED
    BY <2>6, <2>7
<1> QED
  BY <1>9, <1>11, <1>12 DEF Apart, Counted

LEMMA StartApart ==
    ASSUME Typed, Apart, NEW s \in Slots, StartsRun(s)
    PROVE  Apart'
<1> DEFINE q == runs'[s]
<1>1. /\ Resting /\ status' = "Executing" /\ runs' = [runs EXCEPT ![s] = q]
      /\ UNCHANGED <<pendingCtx, executed, pauses, crashes>>
  BY DEF StartsRun, bounds
<1>2. PICK calls \in Seq(Call) :
        /\ Fresh(q, pendingCtx, calls)
        /\ \/ calls = <<>> /\ turn' = turn
           \/ turn' = turn + 1 /\ Distinct(calls) /\ AllOf(calls, turn')
  BY DEF StartsRun
<1>3. turn \in Nat /\ pendingCtx \in SavedContext /\ (~pendingCtx.saved => pendingCtx.done = <<>>)
  BY DEF Typed, BooksTyped, ContextTyped
<1>4. \A t \in Slots : Active(t)' => t = s
  BY <1>1, OtherSlots DEF Typed, Apart, OneRun, Active
<1>5. ~Resting'
  BY <1>1 DEF Resting
<1>6. ContextSplit(pendingCtx, turn')
  <2>1. turn' \in Nat /\ turn <= turn'
    BY <1>2, <1>3
  <2>2. ContextSplit(pendingCtx, turn) /\ pendingCtx.rest \in Seq(Call)
    BY <1>3 DEF Apart, Split, SavedContext
  <2>3. \A k \in 1..Len(pendingCtx.rest) : pendingCtx.rest[k][1] \in Nat
    BY <2>2 DEF Call
  <2> QED
    BY <1>3, <2>1, <2>2, <2>3 DEF ContextSplit, UpTo
<1>7. Distinct(calls) /\ UpTo(calls, turn')
  <2>1. CASE calls = <<>>
    BY <2>1 DEF Distinct, UpTo
  <2>2. CASE turn' = turn + 1 /\ Distinct(calls) /\ AllOf(calls, turn')
    BY <1>3, <2>2 DEF UpTo, AllOf
  <2> QED
    BY <1>2, <2>1, <2>2
<1>8. /\ RunSplit(q, pendingCtx, turn')
      /\ \A c : Ahead(q, c) => Holds(IF pendingCtx.saved THEN pendingCtx.rest ELSE calls, c)
  BY <1>2, <1>3, <1>6, <1>7, FreshSplit
<1>9. q.resumed = pendingCtx.saved
  BY <1>2 DEF Fresh
<1>10. OneRun'
  BY <1>4, <1>5 DEF OneRun
<1>11. Split'
  BY <1>1, <1>4, <1>6, <1>8, <1>9 DEF Split
<1>12. ASSUME NEW c \in Call, Owed(c)'
       PROVE  Owed(c)
  <2>1. c[1] \in Nat /\ (turn' = turn \/ turn' = turn + 1)
    BY <1>2 DEF Call
  <2>2. CASE turn' < c[1]
    BY <1>3, <2>1, <2>2 DEF Owed
  <2>3. CASE Ahead(q, c)
    <3>1. CASE pendingCtx.saved
      BY <1>1, <1>8, <2>3, <3>1 DEF Owed
    <3>2. CASE ~pendingCtx.saved
      <4>1. PICK k \in 1..Len(calls) : calls[k] = c
        BY <1>8, <2>3, <3>2 DEF Holds
      <4>2. calls # <<>>
        BY <4>1
      <4>3. c[1] = turn + 1
        BY <1>2, <4>1, <4>2 DEF AllOf
      <4> QED
        BY <1>3, <4>3 DEF Owed
    <3> QED
      BY <3>1, <3>2
  <2> QED
    BY <1>4, <1>5, <1>12, <2>2, <2>3 DEF Owed
<1>13. Counted'
  BY <1>1, <1>12 DEF Apart, Counted, Dispatch
<1> QED
  BY <1>10, <1>11, <1>13 DEF Apart

LEMMA SaveApart ==
    ASSUME Typed, Apart, NEW s \in Slots, Checkpoints(s) \/ Pauses(s)
    PROVE  Apart'
<1> DEFINE r == runs[s]
           q == runs'[s]
           x == Context(r)
<1>1. /\ Active(s) /\ status = "Executing" /\ pendingCtx' = x
      /\ UNCHANGED <<turn, crashes>>
  BY DEF Checkpoints, Pauses, bounds
<1>2. IsRun(r) /\ x \in SavedContext /\ x.saved
  BY <1>1, ContextType DEF Typed, RunsTyped
<1>3. RunSplit(r, pendingCtx, turn)
  BY <1>1 DEF Apart, Split
<1>4. ContextSplit(x, turn) /\ \A c : Holds(x.rest, c) => Ahead(r, c)
  BY <1>2, <1>3, ContextSplits
<1>5. /\ runs' = [runs EXCEPT ![s] = q]
      /\ \/ status' = "Executing" /\ Fresh(q, x, <<>>)
         \/ status' = "WaitingForApproval" /\ q = Idle
  <2>1. CASE Checkpoints(s)
    BY <1>1, <2>1 DEF Checkpoints
  <2>2. CASE Pauses(s)
    BY <2>2, SlotTaken DEF Pauses, Free, Typed
  <2> QED
    BY <2>1, <2>2
<1>6. \A t \in Slots : Active(t)' => t = s
  BY <1>1, <1>5, OtherSlots DEF Typed, Apart, OneRun, Active
<1>7. ~Active(s)' => \A t \in Slots : ~Active(t)'
  BY <1>6
<1>8. OneRun'
  BY <1>5, <1>6 DEF OneRun, Resting, Active
<1>9. Fresh(q, x, <<>>) => /\ RunSplit(q, x, turn) /\ q.resumed = x.saved
                           /\ \A c : Ahead(q, c) => Holds(x.rest, c)
  <2> SUFFICES ASSUME Fresh(q, x, <<>>)
               PROVE  /\ RunSplit(q, x, turn) /\ q.resumed = x.saved
                      /\ \A c : Ahead(q, c) => Holds(x.rest, c)
    OBVIOUS
  <2>1. q.resumed = x.saved
    BY DEF Fresh
  <2> HIDE DEF x, q
  <2>2. /\ RunSplit(q, x, turn)
        /\ \A c : Ahead(q, c) => Holds(IF x.saved THEN x.rest ELSE <<>>, c)
    BY <1>2, <1>4, FreshSplit
  <2> QED
    BY <1>2, <2>1, <2>2
<1>10. Split'
  BY <1>1, <1>4, <1>5, <1>6, <1>9 DEF Split, Active
<1>11. ASSUME NEW c \in Call, Owed(c)'
       PROVE  Owed(c)
  <2>1. turn < c[1] \/ Holds(x.rest, c) \/ (Active(s)' /\ Ahead(q, c))
    BY <1>1, <1>6, <1>11 DEF Owed
  <2>2. Active(s)' /\ Ahead(q, c) => Holds(x.rest, c)
    BY <1>5, <1>9 DEF Active
  <2> QED
    BY <1>1, <1>4, <2>1, <2>2 DEF Owed
<1>12. Counted'
  <2>1. UNCHANGED <<executed, pauses>> \/ Cuts(s)
    BY DEF Checkpoints, Pauses
  <2>2. CASE UNCHANGED <<executed, pauses>>
    BY <1>1, <1>11, <2>2 DEF Apart, Counted, Dispatch
  <2>3. CASE Cuts(s)
    BY <1>1, <1>11, <2>3, CutsEffect, CoveredKeeps
  <2> QED
    BY <2>1, <2>2, <2>3
<1> QED
  BY <1>8, <1>10, <1>12 DEF Apart

LEMMA SettleApart ==
    ASSUME Typed, Apart, Settles
    PROVE  Apart'
<1>1. /\ \A t \in Slots : runs'[t] \in {Idle, runs[t]}
      /\ pendingCtx' \in {pendingCtx, NoContext}
      /\ UNCHANGED turn /\ crashes' \in {crashes, crashes + 1}
      /\ status' = "Executing" => status = "Executing" /\ pendingCtx' = pendingCtx
      /\ Resting' => ComesToRest
  BY DEF Settles
<1>2. \A t \in Slots : Active(t)' => Active(t) /\ runs'[t] = runs[t]
  BY <1>1 DEF Active
<1>3. Resting' => \A t \in Slots : ~Active(t)'
  <2> SUFFICES ASSUME Resting', NEW t \in Slots, Active(t)'
               PROVE  FALSE
    OBVIOUS
  <2>1. Active(t) /\ runs'[t] = runs[t] /\ runs'[t] # Idle
    BY <1>2 DEF Active
  <2>2. CASE Resting
    BY <2>1, <2>2 DEF Apart, OneRun
  <2>3. CASE \A s \in Slots : runs'[s] = Idle
    BY <2>1, <2>3
  <2>4. CASE \E s \in Slots : Active(s) /\ runs'[s] = Idle
    BY <2>1, <2>4 DEF Apart, OneRun
  <2> QED
    BY <1>1, <2>2, <2>3, <2>4 DEF ComesToRest
<1>4. OneRun'
  BY <1>2, <1>3 DEF Apart, OneRun
<1>5. NoContext.done = <<>> /\ NoContext.rest = <<>>
  BY DEF NoContext
<1>6. ContextSplit(NoContext, turn)
  BY <1>5 DEF ContextSplit, Distinct, UpTo
<1>7. ASSUME NEW t \in Slots, Active(t)'
      PROVE  /\ RunSplit(runs'[t], pendingCtx', turn')
             /\ status' = "Executing" => runs'[t].resumed = pendingCtx'.saved
  <2>1. RunSplit(runs[t], pendingCtx, turn) /\ (status = "Executing" => runs[t].resumed = pendingCtx.saved)
    BY <1>2, <1>7 DEF Apart, Split
  <2>2. RunSplit(runs[t], NoContext, turn)
    BY <1>5, <2>1 DEF RunSplit, Answers
  <2> QED
    BY <1>1, <1>2, <1>7, <2>1, <2>2
<1>8. Split'
  BY <1>1, <1>6, <1>7 DEF Apart, Split
<1>9. executed' \in [Dispatch -> Nat] /\ pauses' \in [Dispatch -> Nat] /\ Covered
  <2>1. CASE UNCHANGED <<executed, pauses>>
    BY <2>1 DEF Typed, BooksTyped, Covered, Dispatch
  <2>2. CASE \E s \in Slots : Cuts(s)
    BY <2>2, CutsEffect
  <2> QED
    BY <2>1, <2>2 DEF Settles
<1>10. CASE crashes' = crashes + 1
  <2>1. ASSUME NEW x \in Dispatch
        PROVE  executed'[x] <= crashes' + pauses'[x] /\ executed'[x] <= 1 + crashes' + pauses'[x]
    <3>1. x[1] \in Call
      BY DEF Dispatch
    <3>2. /\ executed[x] \in Nat /\ pauses[x] \in Nat /\ crashes \in Nat
          /\ executed'[x] \in Nat /\ pauses'[x] \in Nat
      BY <1>9, <3>1 DEF Typed, BooksTyped
    <3>3. executed[x] <= 1 + crashes + pauses[x]
      BY DEF Apart, Counted
    <3>4. executed'[x] + pauses[x] <= executed[x] + pauses'[x]
      BY <1>9 DEF Covered
    <3> QED
      BY <1>10, <3>2, <3>3, <3>4
  <2> QED
    BY <1>4, <1>8, <2>1 DEF Apart, Counted
<1>11. CASE crashes' = crashes
  <2>1. ASSUME NEW c \in Call, Owed(c)'
        PROVE  Owed(c)
    <3>1. CASE turn' < c[1]
      BY <1>1, <3>1 DEF Owed
    <3>2. CASE \E t \in Slots : Active(t)' /\ Ahead(runs'[t], c)
      BY <1>2, <3>2 DEF Owed
    <3>3. CASE Resting' /\ Holds(pendingCtx'.rest, c)
      <4>1. pendingCtx' = pendingCtx /\ pendingCtx.rest # <<>>
        BY <1>1, <1>5, <3>3 DEF Holds
      <4>2. CASE Resting
        BY <3>3, <4>1, <4>2 DEF Owed
      <4>3. ASSUME NEW s \in Slots, status = "Executing", Active(s), ~runs[s].resumed
            PROVE  FALSE
        BY <4>1, <4>3 DEF Apart, Split, Typed, ContextTyped
      <4>4. pendingCtx' # NoContext
        BY <1>5, <4>1
      <4>5. crashes' # crashes + 1
        BY <1>11 DEF Typed, BooksTyped
      <4> QED
        BY <1>1, <3>3, <4>2, <4>3, <4>4, <4>5 DEF ComesToRest
    <3> QED
      BY <2>1, <3>1, <3>2, <3>3 DEF Owed
  <2> QED
    BY <1>4, <1>8, <1>9, <1>11, <2>1, CoveredKeeps DEF Apart
<1> QED
  BY <1>1, <1>10, <1>11

LEMMA UndisturbedStep ==
    ASSUME Typed, Undisturbed, Settles \/ \E s \in Slots : Moves(s)
    PROVE  Undisturbed'
<1> SUFFICES ASSUME wakeUps' = 0
             PROVE  Apart'
  BY DEF Undisturbed
<1>1. wakeUps \in Nat
  BY DEF Typed, BooksTyped
<1>2. CASE Settles
  BY <1>2, SettleApart DEF Settles, Undisturbed
<1>3. ASSUME NEW s \in Slots, Moves(s)
      PROVE  Apart'
  <2>1. ~WakesUp(s) /\ wakeUps = 0
    <3>1. WakesUp(s) => wakeUps' = wakeUps + 1
      BY DEF WakesUp
    <3>2. Advances(s) \/ StartsRun(s) \/ Checkpoints(s) \/ Pauses(s) => wakeUps' = wakeUps
      BY Zenon DEF Advances, StartsRun, Checkpoints, Pauses, bounds
    <3> QED
      BY <1>1, <1>3, <3>1, <3>2 DEF Moves
  <2> QED
    BY <1>3, <2>1, AdvanceApart, StartApart, SaveApart DEF Moves, Undisturbed
<1> QED
  BY <1>2, <1>3

LEMMA InitUndisturbed ==
    ASSUME Init
    PROVE  Undisturbed
<1>1. /\ turn = 0 /\ crashes = 0 /\ executed = [x \in Dispatch |-> 0]
      /\ pauses = [x \in Dispatch |-> 0] /\ \A s \in Slots : ~Active(s)
      /\ pendingCtx.done = <<>> /\ pendingCtx.rest = <<>>
  BY DEF Init, NoContext, Active
<1>2. ContextSplit(pendingCtx, turn)
  BY <1>1 DEF ContextSplit, Distinct, UpTo
<1>3. Counted
  <2>1. \A x \in Dispatch : executed[x] = 0 /\ pauses[x] = 0
    BY <1>1 DEF Dispatch
  <2> QED
    BY <1>1, <2>1 DEF Counted
<1> QED
  BY <1>1, <1>2, <1>3 DEF Undisturbed, Apart, OneRun, Split

\* Nothing is repeated without a cause: while no message has started a second
\* run_tools, a call is in one place of the split turn only, and a dispatch of it takes
\* effect again only after a crash, or where its own snippet was stopped by a denial.
THEOREM OnlyForCause == Spec => []RepeatedForCause
<1> DEFINE Inv == Typed /\ Undisturbed
<1>1. Init => Inv
  BY InitTyped, InitUndisturbed
<1>2. Inv /\ [Next]_vars => Inv'
  BY StepKinds, TypedStep, UndisturbedStep
<1>3. Inv => RepeatedForCause
  BY DEF Undisturbed, Apart, Counted, RepeatedForCause
<1> QED
  BY <1>1, <1>2, <1>3, PTL DEF Spec

\* A saved result stands: no step executes a call that is among the results of
\* the saved context.
THEOREM SavedStands == Spec => SavedResultsStand
<1> DEFINE Inv == Typed /\ Undisturbed
           Stands == \A x \in Dispatch :
                        wakeUps = 0 /\ (\E k \in 1..Len(pendingCtx.done) : pendingCtx.done[k].call = x[1])
                          => executed'[x] = executed[x]
<1>1. Init => Inv
  BY InitTyped, InitUndisturbed
<1>2. Inv /\ [Next]_vars => Inv'
  BY StepKinds, TypedStep, UndisturbedStep
<1>3. Inv /\ [Next]_vars => [Stands]_vars
  <2> SUFFICES ASSUME Inv, [Next]_vars, NEW x \in Dispatch, wakeUps = 0,
                      Answers(pendingCtx.done, x[1]), executed'[x] # executed[x]
               PROVE  FALSE
    BY DEF Answers
  <2>1. Settles \/ \E s \in Slots : Moves(s)
    BY StepKinds
  <2>2. PICK s \in Slots : Active(s) /\ Ahead(runs[s], x[1])
    BY <2>1, ExecutedStep
  <2>3. IsRun(runs[s]) /\ RunSplit(runs[s], pendingCtx, turn)
    BY <2>2 DEF Typed, RunsTyped, Undisturbed, Apart, Split
  <2>4. PICK k \in runs[s].at + 1..Len(runs[s].calls) : runs[s].calls[k] = x[1]
    BY <2>2 DEF Ahead
  <2>5. k \in 1..Len(runs[s].calls)
    BY <2>3, <2>4 DEF IsRun
  <2> QED
    BY <2>3, <2>4, <2>5 DEF RunSplit
<1> QED
  BY <1>1, <1>2, <1>3, PTL DEF Spec, SavedResultsStand
-----------------------------------------------------------------------------
(***************************************************************************)
(* Type correctness.  A turn has CallLimit calls at most, however often it *)
(* is saved and taken up again; the conversation, and the leaf a run will  *)
(* write under, consist of entries; a decision that is waited for, or is   *)
(* announced, has been requested.                                          *)
(***************************************************************************)
Fits(r) == Len(r.results) <= r.at /\ Len(r.prior) + Len(r.calls) <= CallLimit
Bounded == ContextOK(pendingCtx) /\ \A s \in Slots : Active(s) => Fits(runs[s])

EntryKinds   == {"assistant", "results", "user"}
IsTree(t)    == /\ t \in Seq({t[k] : k \in 1..Len(t)})
                /\ \A k \in 1..Len(t) : t[k].kind \in EntryKinds
TreesTyped   == IsTree(tree) /\ \A s \in Slots : Active(s) => IsTree(runs[s].leaf)

Decision     == [of : Dispatch, state : {"open", "registered", "approved", "denied"}]
PeopleTyped ==
    /\ decisions \in Seq(Decision) /\ allowed \subseteq Dispatch
    /\ pendingDecision \in 0..Len(decisions) /\ notifying \in 0..Len(decisions)
ScalarsTyped ==
    /\ status \in Statuses /\ turn \in 0..TurnLimit /\ checkpoints \in Nat
    /\ failure \in {"none", "runaway", "denied", "restart", "error", "outside"}
    /\ crashes \in 0..CrashLimit /\ wakeUps \in 0..WakeUpLimit
AllTyped == Typed /\ Bounded /\ TreesTyped /\ PeopleTyped /\ ScalarsTyped

\* A run that starts from a context fits when the context does.
LEMMA FreshFits ==
    ASSUME NEW r, NEW x \in SavedContext, NEW calls \in Seq(Call), Fresh(r, x, calls), ContextOK(x),
           Len(calls) <= CallLimit, ~x.saved => x.done = <<>>
    PROVE  Fits(r)
<1>1. Len(r.results) <= r.at
  <2>1. r.results = <<>> /\ r.at = 0
    BY DEF Fresh
  <2>2. Len(r.results) = 0
    BY <2>1
  <2> QED
    BY <2>1, <2>2
<1>2. Len(x.done) + Len(x.rest) <= CallLimit
  BY DEF ContextOK
<1>5. Len(calls) \in Nat /\ Len(<<>>) = 0
  OBVIOUS
<1>3. CASE x.saved
  <2>1. r.prior = x.done /\ r.calls = x.rest
    BY <1>3 DEF Fresh
  <2>2. Len(r.prior) + Len(r.calls) <= CallLimit
    BY <1>2, <2>1
  <2> QED
    BY <1>1, <2>2 DEF Fits
<1>4. CASE ~x.saved
  <2>1. Len(r.prior) = 0 /\ r.calls = calls
    BY <1>4, <1>5 DEF Fresh
  <2>2. Len(r.prior) + Len(r.calls) <= CallLimit
    BY <1>5, <2>1, BatchBounds
  <2> QED
    BY <1>1, <2>2 DEF Fits
<1> QED
  BY <1>3, <1>4

LEMMA BoundedStep ==
    ASSUME Typed, Bounded, Settles \/ \E s \in Slots : Moves(s)
    PROVE  Bounded'
<1>c. pendingCtx \in SavedContext /\ (~pendingCtx.saved => pendingCtx.done = <<>>)
  BY DEF Typed, ContextTyped
<1>e. <<>> \in Seq(Call) /\ Len(<<>>) <= CallLimit /\ CallLimit \in Nat
  BY BatchBounds
<1>1. CASE Settles
  <2>1. ContextOK(NoContext)
    BY <1>e DEF ContextOK, NoContext
  <2>2. ContextOK(pendingCtx)'
    BY <1>1, <2>1 DEF Settles, Bounded, ContextOK
  <2> QED
    BY <1>1, <2>2 DEF Settles, Bounded, Active
<1>2. ASSUME NEW s \in Slots, Advances(s)
      PROVE  Bounded'
  <2> DEFINE r == runs[s]
             q == runs'[s]
  <2>1. /\ runs' = [runs EXCEPT ![s] = q] /\ IsRun(r) /\ IsRun(q) /\ q.at \in r.at..Len(r.calls)
        /\ q.calls = r.calls /\ q.prior = r.prior
        /\ Len(q.results) + r.at <= Len(r.results) + q.at
    BY <1>2, AdvancedRun
  <2>2. Fits(r) /\ pendingCtx' = pendingCtx
    BY <1>2 DEF Advances, Bounded, entity
  <2>3. \A t \in Slots : t # s => runs'[t] = runs[t]
    BY <2>1, OtherSlots DEF Typed
  <2> HIDE DEF r, q
  <2>4. Fits(q)
    <3>1. /\ Len(q.results) \in Nat /\ Len(r.results) \in Nat /\ q.at \in Nat /\ r.at \in Nat
      BY <2>1 DEF IsRun
    <3>2. Len(r.results) <= r.at /\ Len(r.prior) + Len(r.calls) <= CallLimit
      BY <2>2 DEF Fits
    <3>3. Len(q.results) <= q.at
      BY <2>1, <3>1, <3>2
    <3>4. Len(q.prior) + Len(q.calls) <= CallLimit
      BY <2>1, <3>2
    <3> QED
      BY <3>3, <3>4 DEF Fits
  <2> QED
    BY <2>2, <2>3, <2>4 DEF Bounded, Active, ContextOK, q
<1>3. ASSUME NEW s \in Slots, StartsRun(s) \/ WakesUp(s)
      PROVE  Bounded'
  <2>1. /\ runs' = [runs EXCEPT ![s] = runs'[s]] /\ pendingCtx' = pendingCtx
        /\ \E calls \in Seq(Call) : Fresh(runs'[s], pendingCtx, calls) /\ Len(calls) <= CallLimit
    BY <1>3, <1>e DEF StartsRun, WakesUp
  <2>2. Fits(runs'[s])
    BY <1>c, <2>1, FreshFits DEF Bounded
  <2>3. \A t \in Slots : t # s => runs'[t] = runs[t]
    BY <2>1, OtherSlots DEF Typed
  <2> QED
    BY <2>1, <2>2, <2>3 DEF Bounded, Active, ContextOK
<1>4. ASSUME NEW s \in Slots, Checkpoints(s) \/ Pauses(s)
      PROVE  Bounded'
  <2> DEFINE r == runs[s]
             x == Context(r)
  <2>1. IsRun(r) /\ Fits(r) /\ pendingCtx' = x
    BY <1>4 DEF Checkpoints, Pauses, Typed, RunsTyped, Bounded
  <2>2. x \in SavedContext /\ x.saved /\ x.done = r.prior \o r.results /\ Len(x.rest) = Len(r.calls) - r.at
    BY <2>1, ContextType
  <2> HIDE DEF r, x
  <2>3. ContextOK(x)
    <3>1. /\ r.prior \in Seq(ResultOf) /\ r.results \in Seq(ResultOf) /\ r.at \in Nat
          /\ Len(r.prior) \in Nat /\ Len(r.results) \in Nat /\ Len(r.calls) \in Nat
      BY <2>1 DEF IsRun
    <3>2. Len(x.done) = Len(r.prior) + Len(r.results)
      BY <2>2, <3>1
    <3>3. Len(r.results) <= r.at /\ Len(r.prior) + Len(r.calls) <= CallLimit
      BY <2>1 DEF Fits
    <3>4. Len(x.done) + Len(x.rest) <= CallLimit
      <4> DEFINE done == Len(x.done)
                 rest == Len(x.rest)
                 p == Len(r.prior)
                 q == Len(r.results)
                 c == Len(r.calls)
                 a == r.at
      <4>1. /\ p \in Nat /\ q \in Nat /\ c \in Nat /\ a \in Nat
            /\ done = p + q /\ rest = c - a /\ q <= a /\ p + c <= CallLimit
        BY <2>2, <3>1, <3>2, <3>3
      <4> HIDE DEF done, rest, p, q, c, a
      <4>2. done + rest <= CallLimit
        BY <1>e, <4>1
      <4> QED
        BY <4>2 DEF done, rest
    <3> QED
      BY <2>2, <3>4 DEF ContextOK
  <2>4. runs' = [runs EXCEPT ![s] = runs'[s]] /\ (runs'[s] = Idle \/ Fresh(runs'[s], x, <<>>))
    BY <1>4, <2>1, SlotTaken DEF Checkpoints, Pauses, Free, Typed
  <2>5. runs'[s] = Idle \/ Fits(runs'[s])
    BY <1>e, <2>2, <2>3, <2>4, FreshFits
  <2>6. \A t \in Slots : t # s => runs'[t] = runs[t]
    BY <2>4, OtherSlots DEF Typed
  <2> QED
    BY <2>1, <2>3, <2>5, <2>6 DEF Bounded, Active, ContextOK
<1> QED
  BY <1>1, <1>2, <1>3, <1>4 DEF Moves

\* The entries of a conversation.
LEMMA TreeAppends ==
    ASSUME NEW t, IsTree(t), NEW e, e.kind \in EntryKinds
    PROVE  IsTree(Append(t, e))
<1> DEFINE S == {t[k] : k \in 1..Len(t)}
           T == S \cup {e}
           u == Append(t, e)
           n == Len(t)
<1>1. t \in Seq(S) /\ n \in Nat /\ \A k \in 1..n : t[k].kind \in EntryKinds
  BY DEF IsTree
<1> HIDE DEF S
<1>2. u \in Seq(T) /\ Len(u) = n + 1 /\ (\A k \in 1..n : u[k] = t[k]) /\ u[n + 1] = e
  <2>1. t \in Seq(T)
    BY <1>1
  <2> QED
    BY <2>1
<1> HIDE DEF T, u, n
<1>3. \A k \in 1..(n + 1) : k \in 1..n \/ k = n + 1
  BY <1>1
<1>4. \A k \in 1..Len(u) : u[k].kind \in EntryKinds
  BY <1>1, <1>2, <1>3
<1> DEFINE V == {u[k] : k \in 1..Len(u)}
<1>5. u \in Seq(V)
  <2>1. Len(u) \in Nat /\ u = [k \in 1..Len(u) |-> u[k]]
    BY <1>1, <1>2
  <2>2. u \in [1..Len(u) -> V]
    BY <2>1
  <2> HIDE DEF V
  <2> QED
    BY <2>1, <2>2, ListedSequence
<1> QED
  BY <1>4, <1>5 DEF IsTree, u

\* A run writes under a leaf the conversation has, or has had.
LeavesFrom ==
    \A s \in Slots : Active(s)' =>
        \/ runs'[s].leaf \in {tree, tree'}
        \/ Active(s) /\ runs'[s].leaf = runs[s].leaf

LEMMA TakenLeaf ==
    ASSUME RunsTyped, NEW s \in Slots, NEW context, NEW calls, NEW n, NEW leaf \in {tree, tree'},
           runs' = [runs EXCEPT ![s] = NewRun(context, calls, n, leaf)]
    PROVE  LeavesFrom
<1> DEFINE r == NewRun(context, calls, n, leaf)
<1>1. r.leaf = leaf
  BY DEF NewRun
<1> HIDE DEF r
<1>2. runs'[s] = r /\ runs' = [runs EXCEPT ![s] = runs'[s]]
  BY SlotTaken DEF r
<1>3. \A t \in Slots : t # s => runs'[t] = runs[t]
  BY <1>2, OtherSlots
<1> QED
  BY <1>1, <1>2, <1>3 DEF LeavesFrom, Active

LEMMA FreedLeaf ==
    ASSUME RunsTyped, NEW s \in Slots, Free(s)
    PROVE  LeavesFrom
  BY SlotFreed DEF LeavesFrom, Active

LEMMA KeptLeaf ==
    ASSUME UNCHANGED runs
    PROVE  LeavesFrom
  BY DEF LeavesFrom, Active

LEMMA AdvancedLeaf ==
    ASSUME Typed, NEW s \in Slots, Advances(s)
    PROVE  LeavesFrom
<1>1. RunsTyped /\ Active(s) /\ IsRun(runs[s])
  BY DEF Typed, RunsTyped, Advances
<1>2. PICK at, results : runs' = [runs EXCEPT ![s] = [runs[s] EXCEPT !.at = at, !.results = results]]
  BY DEF Advances
<1>3. runs'[s].leaf = runs[s].leaf
  BY <1>1, <1>2 DEF RunsTyped, IsRun
<1>4. \A t \in Slots : t # s => runs'[t] = runs[t]
  BY <1>1, <1>2
<1> QED
  BY <1>1, <1>3, <1>4 DEF LeavesFrom, Active

LEMMA TreesStep ==
    ASSUME Typed, TreesTyped, [Next]_vars
    PROVE  TreesTyped'
<1>t. RunsTyped
  BY DEF Typed
<1> SUFFICES IsTree(tree)' /\ LeavesFrom
  BY DEF TreesTyped, LeavesFrom
<1>k. UNCHANGED tree => IsTree(tree)'
  BY DEF TreesTyped
<1>1. CASE UNCHANGED vars
  BY <1>1, <1>k, KeptLeaf DEF vars, entity
<1>2. CASE ProcessToolCalls
  <2>1. PICK calls \in CallsOf(turn + 1), s \in Slots :
            /\ tree' = Append(tree, Asked(calls))
            /\ runs' = [runs EXCEPT ![s] = NewRun(pendingCtx, calls, checkpoints, tree')]
    BY <1>2 DEF ProcessToolCalls
  <2>2. Asked(calls).kind \in EntryKinds
    BY DEF Asked, EntryKinds
  <2>3. IsTree(Append(tree, Asked(calls)))
    BY <2>2, TreeAppends DEF TreesTyped
  <2>4. LeavesFrom
    BY <1>t, <2>1, TakenLeaf
  <2> QED
    BY <2>1, <2>3, <2>4
<1>3. ASSUME NEW s \in Slots, RunStep(s) \/ ResumeTools(s)
      PROVE  IsTree(tree)' /\ LeavesFrom
  <2>1. CASE RunBatch(s) \/ RunCall(s) \/ SkipCheckpoint(s)
    <3>1. Advances(s)
      BY <2>1, BatchAdvances, CallAdvances, SkipAdvances
    <3>2. UNCHANGED tree
      BY <3>1 DEF Advances, entity
    <3> QED
      BY <1>k, <3>1, <3>2, AdvancedLeaf
  <2>2. CASE CheckpointToolBatch(s)
    <3>1. /\ Active(s) /\ tree' = runs[s].leaf
          /\ runs' = [runs EXCEPT ![s] = NewRun(pendingCtx', <<>>, checkpoints', tree')]
      BY <2>2 DEF CheckpointToolBatch, Checkpointing, Reenter
    <3>2. LeavesFrom
      BY <1>t, <3>1, TakenLeaf
    <3> QED
      BY <3>1, <3>2 DEF TreesTyped
  <2>3. CASE RunawayGuard(s) \/ PauseForApproval(s) \/ CallbackRejected(s) \/ InvocationFails(s)
    <3>1. Free(s) /\ UNCHANGED tree
      BY <2>3 DEF RunawayGuard, PauseForApproval, Pausing, CallbackRejected, InvocationFails, FailsWith, entity
    <3> QED
      BY <1>k, <1>t, <3>1, FreedLeaf
  <2>4. CASE HandleToolResults(s) \/ RecordResult(s)
    <3> DEFINE e == Answered(Collected(runs[s]))
    <3>1. Active(s) /\ Free(s) /\ (tree' = Append(runs[s].leaf, e) \/ tree' = tree)
      BY <2>4 DEF HandleToolResults, RecordResult, Ending
    <3>2. e.kind \in EntryKinds
      BY DEF Answered, EntryKinds
    <3> HIDE DEF e
    <3>3. IsTree(Append(runs[s].leaf, e))
      BY <3>1, <3>2, TreeAppends DEF TreesTyped
    <3> QED
      BY <1>k, <1>t, <3>1, <3>3, FreedLeaf
  <2>5. CASE ResumeTools(s)
    <3>1. /\ UNCHANGED tree
          /\ runs' = [runs EXCEPT ![s] = NewRun(pendingCtx, <<>>, checkpoints, tree)]
      BY <2>5 DEF ResumeTools, entity
    <3> QED
      BY <1>k, <1>t, <3>1, TakenLeaf
  <2> QED
    BY <1>3, <2>1, <2>2, <2>3, <2>4, <2>5 DEF RunStep
<1>4. CASE RegisterCallback \/ ResumeWithPlanApproval \/ EndedFromOutside
  <2>1. UNCHANGED <<tree, runs>>
    BY <1>4 DEF RegisterCallback, ResumeWithPlanApproval, EndedFromOutside, FailsWith, entity
  <2> QED
    BY <1>k, <2>1, KeptLeaf
<1>5. ASSUME NEW d \in 1..Len(decisions), Approve(d) \/ Deny(d)
      PROVE  IsTree(tree)' /\ LeavesFrom
  <2>1. /\ UNCHANGED tree
        /\ \/ UNCHANGED runs
           \/ \E s \in Slots : runs' = [runs EXCEPT ![s] = NewRun(pendingCtx, <<>>, checkpoints, tree)]
    BY <1>5 DEF Approve, Deny
  <2> QED
    BY <1>k, <1>t, <2>1, KeptLeaf, TakenLeaf
<1>6. CASE CrashAndSweep
  <2>1. UNCHANGED tree /\ \A s \in Slots : runs'[s] = Idle
    BY <1>6 DEF CrashAndSweep
  <2> QED
    BY <1>k, <2>1 DEF LeavesFrom, Active
<1>7. CASE RecoverSession
  <2> DEFINE leaf == tree[Len(tree)]
             answers == Answered(Results(leaf.content, "recoverer"))
             repair == IF leaf.kind = "assistant" THEN Append(tree, answers) ELSE tree
  <2>1. answers.kind \in EntryKinds /\ SteeringNote.kind \in EntryKinds
    BY DEF Answered, SteeringNote, EntryKinds
  <2>2. tree' = Append(repair, SteeringNote)
    BY <1>7 DEF RecoverSession, Repaired
  <2> HIDE DEF leaf, answers
  <2>3. IsTree(repair)
    BY <2>1, TreeAppends DEF TreesTyped
  <2> HIDE DEF repair
  <2>4. IsTree(tree')
    BY <2>1, <2>2, <2>3, TreeAppends
  <2>5. \/ UNCHANGED runs
        \/ \E s \in Slots : runs' = [runs EXCEPT ![s] = NewRun(pendingCtx, <<>>, checkpoints, tree')]
    BY <1>7 DEF RecoverSession
  <2> QED
    BY <1>t, <2>4, <2>5, KeptLeaf, TakenLeaf
<1> QED
  BY <1>1, <1>2, <1>3, <1>4, <1>5, <1>6, <1>7 DEF Next

\* A decision changes its state.
LEMMA DecisionMoves ==
    ASSUME PeopleTyped, NEW k \in 1..Len(decisions), NEW st \in {"registered", "approved", "denied"},
           decisions' = [decisions EXCEPT ![k].state = st]
    PROVE  /\ decisions' \in Seq(Decision) /\ Len(decisions') = Len(decisions)
           /\ decisions'[k].state = st /\ decisions'[k].of = decisions[k].of /\ decisions[k].of \in Dispatch
           /\ \A j \in 1..Len(decisions) : j # k => decisions'[j] = decisions[j]
<1>1. /\ decisions \in Seq(Decision) /\ DOMAIN decisions = 1..Len(decisions) /\ Len(decisions) \in Nat
      /\ decisions[k] \in Decision
  BY DEF PeopleTyped
<1> DEFINE e == [decisions[k] EXCEPT !.state = st]
<1>2. e \in Decision /\ e.state = st /\ e.of = decisions[k].of /\ decisions[k].of \in Dispatch
  BY <1>1 DEF Decision
<1>3. decisions' = [decisions EXCEPT ![k] = e]
  OBVIOUS
<1> HIDE DEF e
<1>4. /\ decisions'[k] = e /\ \A j \in 1..Len(decisions) : j # k => decisions'[j] = decisions[j]
  BY <1>1, <1>3
<1>5. decisions' \in Seq(Decision) /\ Len(decisions') = Len(decisions)
  BY <1>1, <1>2, <1>3
<1> QED
  BY <1>2, <1>4, <1>5

\* The decisions on some denied dispatches, in the order they are opened.
Grown == /\ decisions' \in Seq(Decision) /\ Len(decisions) \in Nat /\ Len(decisions) <= Len(decisions')
         /\ \A j \in 1..Len(decisions) : decisions'[j] = decisions[j]
         /\ \A j \in 1..Len(decisions') : j \notin 1..Len(decisions) => decisions'[j].state = "open"
LEMMA OpenedDecisions ==
    ASSUME PeopleTyped, NEW denied \in SUBSET Dispatch, IsFiniteSet(denied), NEW order \in Orders(denied),
           decisions' = decisions \o Opened(order)
    PROVE  Grown /\ Len(decisions') = Len(decisions) + Cardinality(denied)
<1>6. Cardinality(denied) \in Nat
  BY FS_CardinalityType
<1> DEFINE m == Cardinality(denied)
           opened == Opened(order)
<1>7. order \in [1..m -> denied]
  BY DEF Orders, Bijection, Surjection
<1>8. order \in Seq(denied) /\ Len(order) = m
  BY <1>6, <1>7, ListedSequence
<1> HIDE DEF m
<1>9. opened = [k \in 1..m |-> [of |-> order[k], state |-> "open"]]
  BY <1>8 DEF Opened
<1>10. \A k \in 1..m : order[k] \in Dispatch
  BY <1>7
<1>11. opened \in [1..m -> Decision] /\ \A k \in 1..m : opened[k].state = "open"
  BY <1>9, <1>10 DEF Decision
<1>12. m \in Nat
  BY <1>6 DEF m
<1>13. opened \in Seq(Decision) /\ Len(opened) = m
  BY <1>11, <1>12, ListedSequence
<1> HIDE DEF opened
<1>14. decisions' = decisions \o opened /\ decisions \in Seq(Decision)
  BY DEF opened, PeopleTyped
<1>15. /\ Len(decisions) \in Nat /\ decisions' \in Seq(Decision) /\ Len(decisions') = Len(decisions) + m
       /\ \A j \in 1..Len(decisions) : decisions'[j] = decisions[j]
  <2> DEFINE p == decisions
  <2>1. p \in Seq(Decision)
    BY <1>14
  <2> HIDE DEF p
  <2>2. /\ p \o opened \in Seq(Decision) /\ Len(p \o opened) = Len(p) + m /\ Len(p) \in Nat
        /\ \A j \in 1..Len(p) : (p \o opened)[j] = p[j]
    BY <1>12, <1>13, <2>1
  <2> QED
    BY <1>14, <2>2 DEF p
<1>16. ASSUME NEW j \in 1..Len(decisions'), j \notin 1..Len(decisions)
       PROVE  decisions'[j].state = "open"
  <2>2. FromBoth(decisions \o opened, decisions, opened)
    BY <1>13, <1>14, AppendedSequence
  <2>1. \E k \in 1..m : decisions'[j] = opened[k]
    BY <1>13, <1>14, <1>16, <2>2 DEF FromBoth
  <2> QED
    BY <1>11, <2>1
<1> QED
  BY <1>12, <1>15, <1>16 DEF Grown, m

LEMMA ListedSet ==
    ASSUME NEW n \in Nat, NEW T, NEW f \in Surjection(1..n, T), NEW D \in SUBSET T
    PROVE  IsFiniteSet(D)
<1>1. IsFiniteSet(1..n)
  BY FS_Interval
<1>2. IsFiniteSet(T)
  BY <1>1, FS_Surjection
<1> QED
  BY <1>2, FS_Subset

LEMMA BatchDecisions ==
    ASSUME Typed, PeopleTyped, NEW s \in Slots, RunBatch(s)
    PROVE  Grown
<1> DEFINE r == runs[s]
           n == BatchLen(r)
           batch == BatchOf(r)
           reads == ReadsOf(r)
           denied == DeniedOf(r)
<1>1. IsRun(r)
  BY BatchEffect DEF Typed, RunsTyped
<1>2. n \in Nat /\ \A k \in 1..n : batch[k] \in Call
  BY <1>1, BatchOfRun
<1>3. PICK order \in Orders(denied) : decisions' = decisions \o Opened(order)
  BY BatchEffect
<1>4. reads = {First(batch[k]) : k \in 1..n} /\ denied \in SUBSET reads
  BY DEF DeniedOf, ReadsOf
<1> HIDE DEF n, batch, reads, denied
<1>5. reads \subseteq Dispatch
  BY <1>2, <1>4, FirstOfCall
<1> DEFINE f == [k \in 1..n |-> First(batch[k])]
<1>6. f \in Surjection(1..n, reads)
  BY <1>4 DEF Surjection
<1> HIDE DEF f
<1>7. IsFiniteSet(denied)
  BY <1>2, <1>4, <1>6, ListedSet
<1> QED
  BY <1>3, <1>4, <1>5, <1>7, OpenedDecisions

\* A snippet opens a decision for each of its denials, one at least.
LEMMA SnippetDecisions ==
    ASSUME Typed, PeopleTyped, NEW s \in Slots, Pausing(s)
    PROVE  Grown /\ Len(decisions') > Len(decisions)
<1> DEFINE c == NextCall(runs[s])
<1>1. c \in Call /\ Snippet(s)
  BY PauseCuts DEF Pausing
<1> HIDE DEF c
<1>2. PICK n \in 1..Length(c) :
            LET reached == {<<c, i>> : i \in 1..n}
                denied  == {x \in reached : Denied(x)}
            IN  denied # {} /\ \E order \in Orders(denied) : decisions' = decisions \o Opened(order)
  BY <1>1 DEF Snippet, c
<1> DEFINE reached == {<<c, i>> : i \in 1..n}
           denied == {x \in reached : Denied(x)}
           f == [i \in 1..n |-> <<c, i>>]
<1>3. PICK order \in Orders(denied) : decisions' = decisions \o Opened(order)
  BY <1>2
<1>4. n \in Nat /\ reached \subseteq Dispatches(c) /\ denied \in SUBSET reached /\ denied # {}
  BY <1>2 DEF Dispatches, Length
<1>5. f \in Surjection(1..n, reached)
  BY DEF Surjection
<1> HIDE DEF reached, f
<1>6. IsFiniteSet(denied)
  BY <1>4, <1>5, ListedSet
<1>7. denied \in SUBSET Dispatch
  BY <1>1, <1>4, OwnDispatches
<1>8. Cardinality(denied) \in Nat /\ Cardinality(denied) # 0
  BY <1>4, <1>6, FS_CardinalityType, FS_EmptySet
<1> HIDE DEF denied
<1>9. Grown /\ Len(decisions') = Len(decisions) + Cardinality(denied)
  BY <1>3, <1>6, <1>7, OpenedDecisions
<1> QED
  BY <1>8, <1>9 DEF Grown

LEMMA PeopleStep ==
    ASSUME Typed, PeopleTyped, [Next]_vars
    PROVE  PeopleTyped'
<1>l. Len(decisions) \in Nat
  BY DEF PeopleTyped
<1>k. UNCHANGED <<decisions, allowed>> /\ pendingDecision' \in {0, pendingDecision} /\ notifying' \in {0, notifying}
        => PeopleTyped'
  BY <1>l DEF PeopleTyped
<1>1. CASE UNCHANGED vars
  BY <1>1, <1>k DEF vars, entity, people
<1>2. CASE ProcessToolCalls \/ ResumeWithPlanApproval \/ EndedFromOutside \/ CrashAndSweep \/ RecoverSession
  BY <1>2, <1>k DEF ProcessToolCalls, ResumeWithPlanApproval, EndedFromOutside, FailsWith, CrashAndSweep,
                    RecoverSession, people
<1>3. ASSUME NEW s \in Slots, RunStep(s) \/ ResumeTools(s)
      PROVE  PeopleTyped'
  <2>1. CASE RunBatch(s)
    <3>1. decisions' \in Seq(Decision) /\ Len(decisions') \in Nat /\ Len(decisions) <= Len(decisions')
      BY <2>1, BatchDecisions DEF Grown
    <3>2. UNCHANGED <<allowed, pendingDecision, notifying>>
      BY <2>1, BatchEffect DEF entity
    <3> QED
      BY <1>l, <3>1, <3>2 DEF PeopleTyped
  <2>2. CASE PauseForApproval(s)
    <3>3. decisions' \in Seq(Decision) /\ Len(decisions') \in Nat /\ Len(decisions) <= Len(decisions')
      BY <2>2, SnippetDecisions DEF PauseForApproval, Grown
    <3>4. /\ allowed' = allowed /\ pendingDecision' \in {pendingDecision, Len(decisions')}
          /\ notifying' \in {notifying, Len(decisions')}
      BY <2>2 DEF PauseForApproval, Pausing
    <3> QED
      BY <1>l, <3>3, <3>4 DEF PeopleTyped
  <2>3. CASE HandleToolResults(s) \/ RecordResult(s)
    BY <2>3, <1>k DEF HandleToolResults, RecordResult, Ending, people
  <2>4. CASE RunCall(s) \/ SkipCheckpoint(s) \/ CheckpointToolBatch(s) \/ RunawayGuard(s)
             \/ CallbackRejected(s) \/ InvocationFails(s) \/ ResumeTools(s)
    BY <2>4, <1>k DEF RunCall, SkipCheckpoint, CheckpointToolBatch, Checkpointing, RunawayGuard,
                      CallbackRejected, InvocationFails, FailsWith, ResumeTools, people, entity
  <2> QED
    BY <1>3, <2>1, <2>2, <2>3, <2>4 DEF RunStep
<1>4. CASE RegisterCallback
  <2>1. notifying \in 1..Len(decisions) /\ decisions' = [decisions EXCEPT ![notifying].state = "registered"]
    BY <1>4, <1>l DEF RegisterCallback, PeopleTyped
  <2>2. decisions' \in Seq(Decision) /\ Len(decisions') = Len(decisions)
    BY <2>1, DecisionMoves
  <2> QED
    BY <1>4, <1>l, <2>2 DEF RegisterCallback, PeopleTyped, entity
<1>5. ASSUME NEW d \in 1..Len(decisions), Approve(d) \/ Deny(d)
      PROVE  PeopleTyped'
  <2>1. PICK st \in {"approved", "denied"} : decisions' = [decisions EXCEPT ![d].state = st]
    BY <1>5 DEF Approve, Deny
  <2>2. decisions' \in Seq(Decision) /\ Len(decisions') = Len(decisions) /\ decisions[d].of \in Dispatch
    BY <2>1, DecisionMoves
  <2>3. UNCHANGED <<pendingDecision, notifying>> /\ allowed' \subseteq allowed \cup {decisions[d].of}
    BY <1>5 DEF Approve, Deny
  <2> QED
    BY <1>l, <2>2, <2>3 DEF PeopleTyped
<1> QED
  BY <1>1, <1>2, <1>3, <1>4, <1>5 DEF Next

LEMMA ScalarsStep ==
    ASSUME Typed, ScalarsTyped, [Next]_vars
    PROVE  ScalarsTyped'
<1>b. TurnLimit \in Nat /\ CrashLimit \in Nat /\ WakeUpLimit \in Nat
  BY BatchBounds
<1> USE DEF ScalarsTyped, Statuses, Ended
<1>1. CASE UNCHANGED vars
  BY <1>1 DEF vars, entity, history, bounds
<1>2. CASE ProcessToolCalls
  BY <1>b, <1>2 DEF ProcessToolCalls, bounds
<1>3. ASSUME NEW s \in Slots, RunStep(s) \/ ResumeTools(s)
      PROVE  ScalarsTyped'
  <2>0. CASE RunBatch(s)
    BY <2>0, BatchEffect DEF entity, bounds
  <2>1. CASE RunCall(s) \/ SkipCheckpoint(s) \/ CallbackRejected(s)
    BY <2>1 DEF RunCall, SkipCheckpoint, CallbackRejected, entity, history, bounds
  <2>2. CASE CheckpointToolBatch(s)
    BY <2>2 DEF CheckpointToolBatch, Checkpointing, history, bounds
  <2>3. CASE RunawayGuard(s) \/ InvocationFails(s)
    BY <2>3 DEF RunawayGuard, InvocationFails, FailsWith, bounds
  <2>4. CASE PauseForApproval(s)
    BY <2>4 DEF PauseForApproval, Pausing, history, bounds
  <2>5. CASE HandleToolResults(s) \/ RecordResult(s)
    BY <2>5 DEF HandleToolResults, RecordResult, Ending, history, bounds
  <2>6. CASE ResumeTools(s)
    BY <1>b, <2>6 DEF ResumeTools, entity, history
  <2> QED
    BY <1>3, <2>0, <2>1, <2>2, <2>3, <2>4, <2>5, <2>6 DEF RunStep
<1>4. CASE RegisterCallback \/ ResumeWithPlanApproval \/ EndedFromOutside
  BY <1>4 DEF RegisterCallback, ResumeWithPlanApproval, EndedFromOutside, FailsWith, entity, history, bounds
<1>5. ASSUME NEW d \in 1..Len(decisions), Approve(d) \/ Deny(d)
      PROVE  ScalarsTyped'
  BY <1>5 DEF Approve, Deny, history, bounds
<1>6. CASE CrashAndSweep
  BY <1>b, <1>6 DEF CrashAndSweep
<1>7. CASE RecoverSession
  BY <1>7 DEF RecoverSession, history, bounds
<1> QED
  BY <1>1, <1>2, <1>3, <1>4, <1>5, <1>6, <1>7 DEF Next

LEMMA InitAllTyped ==
    ASSUME Init
    PROVE  AllTyped
<1>1. \A s \in Slots : ~Active(s)
  BY DEF Init, Active
<1>2. Bounded
  BY <1>1, BatchBounds DEF Init, Bounded, ContextOK, NoContext
<1>3. TreesTyped
  <2>1. tree = <<>>
    BY DEF Init
  <2> QED
    BY <1>1, <2>1 DEF TreesTyped, IsTree
<1>4. PeopleTyped
  BY DEF Init, PeopleTyped
<1>5. ScalarsTyped
  BY BatchBounds DEF Init, ScalarsTyped, Statuses
<1> QED
  BY <1>2, <1>3, <1>4, <1>5, InitTyped DEF AllTyped

LEMMA AllTypedStep ==
    ASSUME AllTyped, [Next]_vars
    PROVE  AllTyped'
<1>1. Settles \/ \E s \in Slots : Moves(s)
  BY StepKinds DEF AllTyped
<1> QED
  BY <1>1, TypedStep, BoundedStep, TreesStep, PeopleStep, ScalarsStep DEF AllTyped

\* The types of the state, for every number of turns, calls, decisions and crashes,
\* and that no save of a turn grows beyond the calls the provider asked for.
THEOREM TypeCorrect == Spec => []TypeOK
<1>1. AllTyped => TypeOK
  <2> SUFFICES ASSUME AllTyped
               PROVE  TypeOK
    OBVIOUS
  <2>1. \A k \in 1..Len(tree) : tree[k].kind \in {"assistant", "results", "user"}
    BY DEF AllTyped, TreesTyped, IsTree, EntryKinds
  <2>2. \A s \in Slots : Active(s) => runs[s].at \in 0..Len(runs[s].calls)
    BY DEF AllTyped, Typed, RunsTyped, IsRun
  <2>3. ContextOK(pendingCtx) /\ executed \in [Dispatch -> Nat] /\ pauses \in [Dispatch -> Nat]
    BY DEF AllTyped, Typed, BooksTyped, Bounded
  <2> QED
    BY <2>1, <2>2, <2>3 DEF AllTyped, PeopleTyped, ScalarsTyped, TypeOK
<1>2. Init => AllTyped
  BY InitAllTyped
<1>3. AllTyped /\ [Next]_vars => AllTyped'
  BY AllTypedStep
<1> QED
  BY <1>1, <1>2, <1>3, PTL DEF Spec
-----------------------------------------------------------------------------
(***************************************************************************)
(* Decisions.  As long as neither a crash nor an answered plan takes a     *)
(* session out of its wait, the one decision that can still resume or fail *)
(* it is the one it waits for: it is announced, then registered, and what  *)
(* ends the wait settles it.                                               *)
(***************************************************************************)
Undeterred == CrashLimit = 0 /\ "plan" \notin Faults

Live(d) == decisions[d].state = "registered" \/ notifying = d
Waits ==
    status \notin Ended =>
        /\ failure = "none"
        /\ \A d \in 1..Len(decisions) : Live(d) => status = "WaitingForApproval" /\ d = pendingDecision
        /\ notifying # 0 => decisions[notifying].state = "open"

\* Nothing happens to the decisions, and the session does not wait, or goes on waiting.
LEMMA WaitsKept ==
    ASSUME Waits, UNCHANGED <<decisions, notifying, failure>>, status \notin Ended,
           status # "WaitingForApproval" \/ UNCHANGED <<status, pendingDecision>>
    PROVE  Waits'
  BY DEF Waits, Live

LEMMA WaitsEnded ==
    ASSUME status' \in Ended
    PROVE  Waits'
  BY DEF Waits

\* A session that has ended stays as it is.
LEMMA EndedStays ==
    ASSUME status \in Ended, [Next]_vars
    PROVE  status' \in Ended
<1> USE DEF Ended
<1>1. CASE UNCHANGED vars
  BY <1>1 DEF vars, entity
<1>2. ASSUME NEW s \in Slots, RunStep(s) \/ ResumeTools(s)
      PROVE  status' \in Ended
  <2>1. CASE RunBatch(s)
    BY <2>1, BatchEffect DEF entity
  <2>2. CASE ~RunBatch(s)
    BY <1>2, <2>2 DEF RunStep, RunCall, SkipCheckpoint, CheckpointToolBatch, Checkpointing, RunawayGuard,
              PauseForApproval, Pausing, HandleToolResults, RecordResult, Ending, CallbackRejected,
              InvocationFails, FailsWith, ResumeTools, entity
  <2> QED
    BY <2>1, <2>2
<1>3. ASSUME NEW d \in 1..Len(decisions), Approve(d) \/ Deny(d)
      PROVE  status' \in Ended
  BY <1>3 DEF Approve, Deny
<1>4. CASE RegisterCallback
  BY <1>4 DEF RegisterCallback, entity
<1>5. CASE ProcessToolCalls \/ ResumeWithPlanApproval \/ EndedFromOutside \/ CrashAndSweep \/ RecoverSession
  BY <1>5 DEF ProcessToolCalls, ResumeWithPlanApproval, EndedFromOutside, FailsWith, CrashAndSweep, RecoverSession
<1> QED
  BY <1>1, <1>2, <1>3, <1>4, <1>5 DEF Next

\* Decisions that are opened and not announced wait for nobody.
LEMMA WaitsGrown ==
    ASSUME PeopleTyped, Waits, UNCHANGED <<status, pendingDecision, notifying, failure>>,
           Len(decisions) \in Nat, Len(decisions') \in Nat, Len(decisions) <= Len(decisions'),
           \A j \in 1..Len(decisions) : decisions'[j] = decisions[j],
           \A j \in 1..Len(decisions') : j \notin 1..Len(decisions) => decisions'[j].state = "open"
    PROVE  Waits'
<1>1. notifying \in 0..Len(decisions)
  BY DEF PeopleTyped
<1> SUFFICES ASSUME status \notin Ended
             PROVE  /\ \A d \in 1..Len(decisions') : Live(d)' => status = "WaitingForApproval" /\ d = pendingDecision
                    /\ notifying # 0 => decisions'[notifying].state = "open"
  BY DEF Waits
<1>2. notifying # 0 => decisions'[notifying].state = "open"
  BY <1>1 DEF Waits
<1>3. ASSUME NEW d \in 1..Len(decisions'), Live(d)'
      PROVE  status = "WaitingForApproval" /\ d = pendingDecision
  <2>1. decisions'[d].state = "registered" \/ notifying = d
    BY <1>3 DEF Live
  <2>2. d \in 1..Len(decisions)
    BY <1>1, <2>1
  <2>3. Live(d)
    BY <2>1, <2>2 DEF Live
  <2> QED
    BY <2>2, <2>3 DEF Waits
<1> QED
  BY <1>2, <1>3

LEMMA PauseWaits ==
    ASSUME Typed, PeopleTyped, Waits, status \notin Ended, NEW s \in Slots, PauseForApproval(s)
    PROVE  Waits'
<1> DEFINE n == Len(decisions)
           m == Len(decisions')
<1>1. failure' = failure
  BY DEF PauseForApproval, Pausing
<1>2. Grown /\ m > n
  BY SnippetDecisions DEF PauseForApproval
<1>3. /\ n \in Nat /\ m \in Nat /\ n < m /\ \A j \in 1..n : decisions'[j] = decisions[j]
      /\ \A j \in 1..m : j \notin 1..n => decisions'[j].state = "open"
  BY <1>2 DEF Grown
<1>4. CASE status = "Executing"
  <2>1. /\ status' = "WaitingForApproval" /\ notifying' = m /\ pendingDecision' = m
    BY <1>4 DEF PauseForApproval, Pausing
  <2>2. \A d \in 1..n : decisions[d].state # "registered"
    BY <1>4 DEF Waits, Live
  <2>3. \A d \in 1..m : Live(d)' => d = m
    BY <1>3, <2>1, <2>2 DEF Live
  <2>4. m \in 1..m /\ m \notin 1..n
    BY <1>3
  <2> QED
    BY <1>1, <1>3, <2>1, <2>3, <2>4 DEF Waits
<1>5. CASE status # "Executing"
  <2>1. UNCHANGED <<status, pendingDecision, notifying>>
    BY <1>5 DEF PauseForApproval, Pausing
  <2> QED
    BY <1>1, <1>2, <1>3, <2>1, WaitsGrown
<1> QED
  BY <1>4, <1>5

LEMMA WaitsStep ==
    ASSUME Undeterred, Typed, PeopleTyped, ScalarsTyped, Waits, [Next]_vars
    PROVE  Waits'
<1>e. CASE status \in Ended
  BY <1>e, EndedStays, WaitsEnded
<1>w. CASE status \notin Ended
  <2>1. CASE UNCHANGED vars
    BY <1>w, <2>1, WaitsKept DEF vars, entity, people, history
  <2>2. CASE ProcessToolCalls \/ RecoverSession
    BY <1>w, <2>2, WaitsKept DEF ProcessToolCalls, RecoverSession, people, history
  <2>3. ASSUME NEW s \in Slots, RunStep(s) \/ ResumeTools(s)
        PROVE  Waits'
    <3>1. CASE RunBatch(s)
      <4>1. UNCHANGED <<status, pendingDecision, notifying, failure>>
        BY <3>1, BatchEffect DEF entity
      <4>2. /\ decisions' \in Seq(Decision) /\ Len(decisions) \in Nat /\ Len(decisions) <= Len(decisions')
            /\ \A j \in 1..Len(decisions) : decisions'[j] = decisions[j]
            /\ \A j \in 1..Len(decisions') : j \notin 1..Len(decisions) => decisions'[j].state = "open"
        BY <3>1, BatchDecisions DEF Grown
      <4> QED
        BY <4>1, <4>2, WaitsGrown
    <3>2. CASE PauseForApproval(s)
      BY <1>w, <3>2, PauseWaits
    <3>3. CASE HandleToolResults(s) \/ RecordResult(s) \/ CheckpointToolBatch(s)
      BY <1>w, <3>3, WaitsKept DEF HandleToolResults, RecordResult, Ending, CheckpointToolBatch, Checkpointing,
                                   people, history
    <3>4. CASE RunawayGuard(s) \/ InvocationFails(s)
      BY <3>4, WaitsEnded DEF RunawayGuard, InvocationFails, FailsWith, Ended
    <3>5. CASE RunCall(s) \/ SkipCheckpoint(s) \/ CallbackRejected(s) \/ ResumeTools(s)
      BY <1>w, <3>5, WaitsKept DEF RunCall, SkipCheckpoint, CallbackRejected, ResumeTools, entity, people, history
    <3> QED
      BY <2>3, <3>1, <3>2, <3>3, <3>4, <3>5 DEF RunStep
  <2>4. CASE RegisterCallback
    <3>1. /\ notifying \in 1..Len(decisions) /\ Len(decisions) \in Nat /\ notifying' = 0
          /\ decisions' = [decisions EXCEPT ![notifying].state = "registered"]
          /\ UNCHANGED <<status, pendingDecision, failure>>
      BY <2>4 DEF RegisterCallback, PeopleTyped, entity, history
    <3>2. /\ Len(decisions') = Len(decisions)
          /\ \A j \in 1..Len(decisions) : j # notifying => decisions'[j] = decisions[j]
      BY <3>1, DecisionMoves
    <3>3. \A d \in 1..Len(decisions) : Live(d)' => Live(d)
      BY <3>1, <3>2 DEF Live
    <3> QED
      BY <3>1, <3>2, <3>3 DEF Waits
  <2>5. ASSUME NEW d \in 1..Len(decisions), Approve(d)
        PROVE  Waits'
    <3>1. /\ decisions' = [decisions EXCEPT ![d].state = "approved"] /\ decisions[d].state = "registered"
          /\ UNCHANGED <<pendingDecision, notifying, failure>>
      BY <2>5 DEF Approve, history
    <3>2. /\ Len(decisions') = Len(decisions) /\ decisions'[d].state = "approved"
          /\ \A j \in 1..Len(decisions) : j # d => decisions'[j] = decisions[j]
      BY <3>1, DecisionMoves
    <3>3. status = "WaitingForApproval" /\ d = pendingDecision
      BY <1>w, <3>1 DEF Waits, Live
    <3>4. notifying = 0
      <4>1. notifying \in 0..Len(decisions)
        BY DEF PeopleTyped
      <4>2. notifying # 0 => notifying = pendingDecision /\ decisions[notifying].state = "open"
        BY <1>w, <4>1 DEF Waits, Live
      <4> QED
        BY <3>1, <3>3, <4>2
    <3>5. \A j \in 1..Len(decisions) : ~Live(j)'
      <4> SUFFICES ASSUME NEW j \in 1..Len(decisions), Live(j)'
                   PROVE  FALSE
        OBVIOUS
      <4>1. decisions'[j].state = "registered"
        BY <3>1, <3>4 DEF Live
      <4>2. j # d /\ decisions[j].state = "registered"
        BY <3>2, <4>1
      <4> QED
        BY <1>w, <3>3, <4>2 DEF Waits, Live
    <3> QED
      BY <1>w, <3>1, <3>2, <3>4, <3>5 DEF Waits
  <2>6. ASSUME NEW d \in 1..Len(decisions), Deny(d)
        PROVE  Waits'
    BY <2>6, WaitsEnded DEF Deny, Ended
  <2>7. CASE EndedFromOutside
    BY <2>7, WaitsEnded DEF EndedFromOutside, FailsWith, Ended
  <2>8. ~ResumeWithPlanApproval /\ ~CrashAndSweep
    BY DEF Undeterred, ResumeWithPlanApproval, CrashAndSweep, ScalarsTyped
  <2> QED
    BY <2>1, <2>2, <2>3, <2>4, <2>5, <2>6, <2>7, <2>8 DEF Next
<1> QED
  BY <1>e, <1>w

\* A session that waits for a person goes on, or fails as denied, by the decision it
\* waits for and by no other, however many decisions its batches and its second
\* invocations open: this needs neither working saves nor the absence of wake-ups,
\* only that no crash and no answered plan has ended an earlier wait.
THEOREM ResumedByOwnDecision == ASSUME Undeterred PROVE Spec => ResumedByItsDecision
<1> DEFINE Inv == AllTyped /\ Waits
           Own == status = "WaitingForApproval" /\ (status' = "Executing" \/ failure' = "denied")
                    => \E d \in 1..Len(decisions') :
                         d = pendingDecision /\ decisions'[d].state \in {"approved", "denied"}
<1>1. Init => Inv
  BY InitAllTyped DEF Init, Waits
<1>2. Inv /\ [Next]_vars => Inv'
  BY AllTypedStep, WaitsStep DEF AllTyped
<1>3. Inv /\ [Next]_vars => [Own]_vars
  <2> SUFFICES ASSUME Inv, [Next]_vars, status = "WaitingForApproval", status' = "Executing" \/ failure' = "denied"
               PROVE  \E d \in 1..Len(decisions') :
                         d = pendingDecision /\ decisions'[d].state \in {"approved", "denied"}
    OBVIOUS
  <2>1. PeopleTyped /\ ScalarsTyped /\ Waits /\ status \notin Ended /\ failure = "none"
    BY DEF AllTyped, Waits, Ended
  <2>2. ASSUME NEW d \in 1..Len(decisions), Approve(d) \/ Deny(d)
        PROVE  \E k \in 1..Len(decisions') :
                   k = pendingDecision /\ decisions'[k].state \in {"approved", "denied"}
    <3>1. PICK st \in {"approved", "denied"} : decisions' = [decisions EXCEPT ![d].state = st]
      BY <2>2 DEF Approve, Deny
    <3>2. Len(decisions') = Len(decisions) /\ decisions'[d].state = st
      BY <2>1, <3>1, DecisionMoves
    <3>3. d = pendingDecision
      BY <2>1, <2>2 DEF Approve, Deny, Waits, Live
    <3> QED
      BY <3>2, <3>3
  <2>3. CASE UNCHANGED vars
    BY <2>1, <2>3 DEF vars, entity, history
  <2>4. ASSUME NEW s \in Slots, RunStep(s) \/ ResumeTools(s)
        PROVE  FALSE
    <3>1. failure' # "denied" /\ status' # "Executing"
      <4>1. CASE RunBatch(s)
        BY <2>1, <4>1, BatchEffect DEF entity
      <4>2. CASE ~RunBatch(s)
        BY <2>1, <2>4, <4>2 DEF RunStep, RunCall, SkipCheckpoint, CheckpointToolBatch, Checkpointing, RunawayGuard,
              PauseForApproval, Pausing, HandleToolResults, RecordResult, Ending, CallbackRejected,
              InvocationFails, FailsWith, ResumeTools, entity, history
      <4> QED
        BY <4>1, <4>2
    <3> QED
      BY <3>1
  <2>5. CASE ProcessToolCalls \/ RecoverSession \/ RegisterCallback \/ EndedFromOutside
    BY <2>1, <2>5 DEF ProcessToolCalls, RecoverSession, RegisterCallback, EndedFromOutside, FailsWith, entity, history
  <2>6. ~ResumeWithPlanApproval /\ ~CrashAndSweep
    BY <2>1 DEF Undeterred, ResumeWithPlanApproval, CrashAndSweep, ScalarsTyped
  <2> QED
    BY <2>2, <2>3, <2>4, <2>5, <2>6 DEF Next
<1> QED
  BY <1>1, <1>2, <1>3, PTL DEF Spec, ResumedByItsDecision
============================================================================
