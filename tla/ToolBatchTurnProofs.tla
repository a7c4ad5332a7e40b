------------------------ MODULE ToolBatchTurnProofs ------------------------
(***************************************************************************)
(* The turns of the conversation, for every number of turns, calls, chunks *)
(* and decisions: without crashes, wake-ups and failing writes every turn  *)
(* is closed with one result per call, and ToolBatch implements            *)
(* TurnContract.  Where ToolBatchProofs keeps the parts of a turn apart,   *)
(* this module follows the position of each call among them.               *)
(***************************************************************************)
EXTENDS ToolBatchProofs

Calm == CrashLimit = 0 /\ WakeUpLimit = 0 /\ Faults = {}

-----------------------------------------------------------------------------
(***************************************************************************)
(* The invariant.  Calls and results alternate in the tree; the turn at    *)
(* the leaf is answered up to a position, saved or by the run, and the     *)
(* calls behind that position remain, in their order.                      *)
(***************************************************************************)
AskEntry    == [kind : {"assistant"}, content : Seq(Call)]
AnswerEntry == [kind : {"results"}, content : Seq(ResultOf)]

Matches(rs, cs) == Len(rs) = Len(cs) /\ \A j \in 1..Len(cs) : rs[j].call = cs[j]
Part(done, rest, cs) ==
    /\ Len(done) + Len(rest) = Len(cs)
    /\ \A j \in 1..Len(done) : done[j].call = cs[j]
    /\ \A j \in 1..Len(rest) : rest[j] = cs[Len(done) + j]

Asks  == Len(tree) % 2 = 1
Leaf  == tree[Len(tree)].content

TreeInv ==
    /\ tree \in Seq(AskEntry \cup AnswerEntry)
    /\ \A k \in 1..Len(tree) :
        IF k % 2 = 1 THEN tree[k] \in AskEntry /\ tree[k].content # <<>>
                     ELSE tree[k] \in AnswerEntry /\ Matches(tree[k].content, tree[k - 1].content)
\* A run answers its part of the calls: what is saved before it, and what it has passed.
Follows(r, cs) ==
    /\ Part(r.prior, r.calls, cs)
    /\ Len(r.results) = r.at /\ \A j \in 1..Len(r.results) : r.results[j].call = r.calls[j]
RunInv(r, t, x) ==
    /\ r.leaf = t /\ r.resumed = x.saved /\ r.prior = x.done
    /\ Follows(r, t[Len(t)].content)
StatusInv ==
    /\ status \in {"Thinking", "Executing", "WaitingForApproval"} \cup Ended
    /\ status = "Thinking" => ~Asks /\ pendingCtx = NoContext
    /\ status = "Executing" => Asks /\ \A s \in Slots : Active(s) => RunInv(runs[s], tree, pendingCtx)
    /\ status = "WaitingForApproval" =>
        /\ Asks /\ pendingCtx.saved /\ Part(pendingCtx.done, pendingCtx.rest, Leaf)
        /\ AllOf(pendingCtx.rest, turn)
    /\ \A s \in Slots : Active(s) => AllOf(runs[s].calls, turn)
TurnInv == TreeInv /\ StatusInv
Inv == Typed /\ Undisturbed /\ wakeUps = 0 /\ TurnInv

\* The conversation grows, by no entry or by some.
Grows == Len(tree') >= Len(tree) /\ SubSeq(tree', 1, Len(tree)) = tree

LEMMA SequenceIsListed ==
    ASSUME NEW S, NEW q \in Seq(S)
    PROVE  q = [k \in 1..Len(q) |-> q[k]] /\ SubSeq(q, 1, Len(q)) = q
  OBVIOUS

LEMMA AppendIsListed ==
    ASSUME NEW S, NEW q \in Seq(S), NEW x \in S
    PROVE  Append(q, x) = [k \in 1..(Len(q) + 1) |-> IF k = Len(q) + 1 THEN x ELSE q[k]]
<1>1. /\ Append(q, x) \in Seq(S) /\ Len(Append(q, x)) = Len(q) + 1 /\ Len(q) \in Nat
      /\ \A k \in 1..(Len(q) + 1) : Append(q, x)[k] = IF k = Len(q) + 1 THEN x ELSE q[k]
  OBVIOUS
<1>2. Append(q, x) = [k \in 1..(Len(q) + 1) |-> Append(q, x)[k]]
  BY <1>1, SequenceIsListed
<1> QED
  BY <1>1, <1>2

\* The calls that results answer, as far as they go.
LEMMA CallsInPrefix ==
    ASSUME NEW rs \in Seq(ResultOf), NEW cs \in Seq(Call), Len(rs) <= Len(cs),
           \A j \in 1..Len(rs) : rs[j].call = cs[j]
    PROVE  /\ CallsIn(rs) = SubSeq(cs, 1, Len(rs)) /\ Len(CallsIn(rs)) = Len(rs)
           /\ Len(rs) = Len(cs) => CallsIn(rs) = cs
<1>1. Len(rs) \in Nat /\ Len(cs) \in Nat
  OBVIOUS
<1>2. CallsIn(rs) = [k \in 1..Len(rs) |-> cs[k]]
  BY DEF CallsIn
<1>3. SubSeq(cs, 1, Len(rs)) = [k \in 1..Len(rs) |-> cs[k]]
  BY <1>1
<1>4. Len(CallsIn(rs)) = Len(rs)
  BY <1>1, <1>2
<1> QED
  BY <1>2, <1>3, <1>4, SequenceIsListed

\* An entry is appended to the tree.
LEMMA TreeAppended ==
    ASSUME TreeInv, NEW e \in AskEntry \cup AnswerEntry, tree' = Append(tree, e),
           IF Asks THEN e \in AnswerEntry /\ Matches(e.content, Leaf)
                   ELSE e \in AskEntry /\ e.content # <<>>
    PROVE  /\ TreeInv' /\ Asks' = ~Asks /\ Grows /\ Len(tree') = Len(tree) + 1 /\ tree'[Len(tree')] = e
           /\ \A k \in 1..Len(tree) : tree'[k] = tree[k]
<1>1. /\ tree \in Seq(AskEntry \cup AnswerEntry) /\ Len(tree) \in Nat
      /\ tree' \in Seq(AskEntry \cup AnswerEntry) /\ Len(tree') = Len(tree) + 1
      /\ tree'[Len(tree) + 1] = e /\ \A k \in 1..Len(tree) : tree'[k] = tree[k]
  BY DEF TreeInv
<1>2. Asks' = ~Asks
  BY <1>1 DEF Asks
<1>3. \A k \in 1..Len(tree') : k = Len(tree) + 1 \/ (k \in 1..Len(tree) /\ k - 1 \in 0..Len(tree))
  BY <1>1
<1>4. Grows
  BY <1>1 DEF Grows
<1>5. ASSUME NEW k \in 1..Len(tree')
      PROVE  IF k % 2 = 1 THEN tree'[k] \in AskEntry /\ tree'[k].content # <<>>
             ELSE tree'[k] \in AnswerEntry /\ Matches(tree'[k].content, tree'[k - 1].content)
  <2>1. CASE k = Len(tree) + 1
    <3>1. CASE Asks
      <4>1. Len(tree) \in 1..Len(tree) /\ k % 2 # 1
        BY <1>1, <2>1, <3>1 DEF Asks
      <4>2. tree'[k - 1] = tree[Len(tree)]
        BY <1>1, <2>1, <4>1
      <4> QED
        BY <1>1, <2>1, <3>1, <4>1, <4>2 DEF Leaf
    <3>2. CASE ~Asks
      <4>1. k % 2 = 1
        BY <1>1, <2>1, <3>2 DEF Asks
      <4> QED
        BY <1>1, <2>1, <3>2, <4>1
    <3> QED
      BY <3>1, <3>2
  <2>2. CASE k \in 1..Len(tree)
    <3>1. CASE k % 2 = 1
      BY <1>1, <2>2, <3>1 DEF TreeInv
    <3>2. CASE k % 2 # 1
      <4>1. k - 1 \in 1..Len(tree)
        BY <1>1, <2>2, <3>2
      <4> QED
        BY <1>1, <2>2, <3>2, <4>1 DEF TreeInv
    <3> QED
      BY <3>1, <3>2
  <2> QED
    BY <1>3, <2>1, <2>2
<1> QED
  BY <1>1, <1>2, <1>4, <1>5 DEF TreeInv

-----------------------------------------------------------------------------
(***************************************************************************)
(* The variables of the contract.                                          *)
(***************************************************************************)
Keeps == Contract!Next \/ UNCHANGED Contract!contract

\* What is open, at a leaf that asks and at one that does not.
LEMMA OpenAtLeaf ==
    ASSUME TreeInv
    PROVE  /\ Asks => OpenCalls = Leaf /\ Leaf \in Seq(Call) /\ Leaf # <<>>
           /\ ~Asks => OpenCalls = <<>>
<1>1. tree \in Seq(AskEntry \cup AnswerEntry) /\ Len(tree) \in Nat
  BY DEF TreeInv
<1>2. CASE Asks
  <2>1. Len(tree) \in 1..Len(tree) /\ Len(tree) % 2 = 1
    BY <1>1, <1>2 DEF Asks
  <2>2. tree[Len(tree)] \in AskEntry /\ Leaf # <<>> /\ tree # <<>>
    BY <2>1 DEF TreeInv, Leaf
  <2> QED
    BY <1>2, <2>2 DEF OpenCalls, LeafAsks, Leaf, AskEntry
<1>3. CASE ~Asks
  <2>1. CASE tree = <<>>
    BY <1>3, <2>1 DEF OpenCalls, LeafAsks
  <2>2. CASE tree # <<>>
    <3>1. Len(tree) \in 1..Len(tree) /\ Len(tree) % 2 # 1
      BY <1>1, <1>3, <2>2 DEF Asks
    <3>2. tree[Len(tree)] \in AnswerEntry
      BY <3>1 DEF TreeInv
    <3> QED
      BY <1>3, <3>2 DEF OpenCalls, LeafAsks, AnswerEntry
  <2> QED
    BY <2>1, <2>2
<1> QED
  BY <1>2, <1>3

\* An entry of calls opens a turn, an entry of results closes it.
LEMMA OpensOrCloses ==
    ASSUME TreeInv, NEW e, Len(tree') = Len(tree) + 1, tree'[Len(tree')] = e,
           \A k \in 1..Len(tree) : tree'[k] = tree[k],
           IF Asks THEN e \in AnswerEntry ELSE e \in AskEntry
    PROVE  /\ Asks => OpenCalls' = <<>> /\ ClosedTurns' = Append(ClosedTurns, CallsIn(e.content))
           /\ ~Asks => OpenCalls' = e.content /\ ClosedTurns' = ClosedTurns
<1> DEFINE n == Len(tree)
           m == Len(tree) \div 2
<1>1. n \in Nat /\ Len(tree') = n + 1 /\ tree' # <<>>
  BY DEF TreeInv
<1>2. CASE Asks
  <2>1. m \in Nat /\ Len(tree') \div 2 = m + 1 /\ 2 * (m + 1) = Len(tree')
    BY <1>1, <1>2 DEF Asks
  <2>2. \A k \in 1..m : 2 * k \in 1..n
    BY <1>1, <1>2 DEF Asks
  <2>3. OpenCalls' = <<>>
    BY <1>1, <1>2 DEF OpenCalls, LeafAsks, AnswerEntry
  <2>4. ClosedTurns' = [k \in 1..(m + 1) |-> IF k = m + 1 THEN CallsIn(e.content) ELSE CallsIn(tree[2 * k].content)]
    <3>1. ClosedTurns' = [k \in 1..(m + 1) |-> CallsIn(tree'[2 * k].content)]
      BY <2>1 DEF ClosedTurns
    <3>2. tree'[2 * (m + 1)] = e /\ \A k \in 1..m : tree'[2 * k] = tree[2 * k]
      BY <2>1, <2>2
    <3> HIDE DEF m
    <3>3. \A k \in 1..(m + 1) : k = m + 1 \/ k \in 1..m
      BY <2>1
    <3>4. \A k \in 1..(m + 1) : CallsIn(tree'[2 * k].content) =
            IF k = m + 1 THEN CallsIn(e.content) ELSE CallsIn(tree[2 * k].content)
      BY <3>2, <3>3
    <3> QED
      BY <3>1, <3>4
  <2>5. ClosedTurns = [k \in 1..m |-> CallsIn(tree[2 * k].content)]
    BY DEF ClosedTurns
  <2> HIDE DEF m
  <2>6. ClosedTurns' = Append(ClosedTurns, CallsIn(e.content))
    <3> DEFINE f == [k \in 1..m |-> CallsIn(tree[2 * k].content)]
               x == CallsIn(e.content)
               S == {f[k] : k \in 1..m} \cup {x}
    <3>1. f \in [1..m -> S] /\ x \in S
      OBVIOUS
    <3> HIDE DEF S
    <3>2. ClosedTurns' = [k \in 1..(m + 1) |-> IF k = m + 1 THEN x ELSE f[k]]
      BY <2>1, <2>4
    <3>3. m \in Nat
      BY <2>1
    <3> HIDE DEF f, x
    <3>4. f \in Seq(S) /\ Len(f) = m
      BY <3>1, <3>3, ListedSequence
    <3>5. Append(f, x) = [k \in 1..(m + 1) |-> IF k = m + 1 THEN x ELSE f[k]]
      BY <3>1, <3>4, AppendIsListed
    <3> QED
      BY <2>5, <3>2, <3>5 DEF f, x
  <2> QED
    BY <1>2, <2>3, <2>6
<1>3. CASE ~Asks
  <2>1. Len(tree') \div 2 = m /\ \A k \in 1..m : 2 * k \in 1..n
    BY <1>1, <1>3 DEF Asks
  <2>2. OpenCalls' = e.content
    BY <1>1, <1>3 DEF OpenCalls, LeafAsks, AskEntry
  <2>3. ClosedTurns' = ClosedTurns
    BY <2>1 DEF ClosedTurns
  <2> QED
    BY <1>3, <2>2, <2>3
<1> QED
  BY <1>2, <1>3

LEMMA ContractStutters ==
    ASSUME UNCHANGED <<tree, pendingCtx>>, status' \in Ended <=> status \in Ended
    PROVE  UNCHANGED Contract!contract
  BY DEF Contract!contract, ClosedTurns, OpenCalls, LeafAsks, CallsIn

LEMMA ContractGivesUp ==
    ASSUME UNCHANGED <<tree, pendingCtx>>, status \notin Ended, status' \in Ended
    PROVE  Contract!Next
  BY DEF Contract!Next, Contract!GiveUp, ClosedTurns, OpenCalls, LeafAsks, CallsIn

\* The tree does not change.
LEMMA TreeKept ==
    ASSUME TreeInv, UNCHANGED tree
    PROVE  TreeInv' /\ Asks' = Asks /\ Leaf' = Leaf /\ Grows
<1>1. tree \in Seq(AskEntry \cup AnswerEntry)
  BY DEF TreeInv
<1>2. TreeInv' /\ Asks' = Asks /\ Leaf' = Leaf
  BY DEF TreeInv, Asks, Leaf
<1>3. Grows
  BY <1>1, SequenceIsListed DEF Grows
<1> QED
  BY <1>2, <1>3

-----------------------------------------------------------------------------
(***************************************************************************)
(* The steps.  Each keeps the invariant, lets the conversation grow and is *)
(* a step of the contract, or none.                                        *)
(***************************************************************************)
TurnStep == TurnInv' /\ Grows /\ Keeps

\* Runs end, and the session may end with them.
LEMMA SettleTurn ==
    ASSUME TurnInv, UNCHANGED <<tree, pendingCtx, turn>>,
           \A s \in Slots : runs'[s] \in {Idle, runs[s]},
           status' = status \/ (status \notin Ended /\ status' \in Ended)
    PROVE  TurnStep
<1>1. TreeInv' /\ Asks' = Asks /\ Leaf' = Leaf /\ Grows
  BY TreeKept DEF TurnInv
<1>2. \A s \in Slots : Active(s)' => Active(s) /\ runs'[s] = runs[s]
  BY DEF Active
<1>3. Keeps
  BY ContractStutters, ContractGivesUp DEF Keeps
<1>4. StatusInv
  BY DEF TurnInv
<1>5. CASE status' = status
  <2>1. \A s \in Slots : Active(s)' /\ status = "Executing" => RunInv(runs'[s], tree', pendingCtx')
    BY <1>1, <1>2, <1>4 DEF StatusInv, RunInv, Follows
  <2>2. \A s \in Slots : Active(s)' => AllOf(runs'[s].calls, turn')
    BY <1>2, <1>4 DEF StatusInv
  <2>3. StatusInv'
    BY <1>1, <1>4, <1>5, <2>1, <2>2 DEF StatusInv, Ended
  <2> QED
    BY <1>1, <1>3, <2>3 DEF TurnStep, TurnInv
<1>6. CASE status' \in Ended
  <2>1. \A s \in Slots : Active(s)' => AllOf(runs'[s].calls, turn')
    BY <1>2, <1>4 DEF StatusInv
  <2>2. StatusInv'
    BY <1>6, <2>1 DEF StatusInv, Ended
  <2> QED
    BY <1>1, <1>3, <2>2 DEF TurnStep, TurnInv
<1> QED
  BY <1>5, <1>6

LEMMA NewRunLeaf ==
    ASSUME NEW context, NEW calls, NEW n, NEW leaf
    PROVE  NewRun(context, calls, n, leaf).leaf = leaf
  BY DEF NewRun

\* The provider asks for the calls of the next turn.
LEMMA AskTurn ==
    ASSUME Inv, ProcessToolCalls
    PROVE  TurnStep
<1>1. /\ status = "Thinking" /\ status' = "Executing" /\ turn' = turn + 1 /\ pendingCtx' = pendingCtx
      /\ turn < TurnLimit /\ turn \in Nat /\ TurnLimit \in Nat
  BY BatchBounds DEF Inv, Typed, BooksTyped, ProcessToolCalls
<1>2. PICK calls \in CallsOf(turn + 1), s \in Slots :
        /\ tree' = Append(tree, Asked(calls))
        /\ runs' = [runs EXCEPT ![s] = NewRun(pendingCtx, calls, checkpoints, tree')]
  BY DEF ProcessToolCalls
<1>3. turn + 1 \in 1..TurnLimit
  BY <1>1
<1>4. calls \in Seq(Call) /\ AllOf(calls, turn') /\ calls # <<>>
  <2>1. calls \in Seq(Call) /\ AllOf(calls, turn')
    BY <1>1, <1>3, CallsOfTurn
  <2>2. PICK n \in 1..CallLimit : DOMAIN calls = 1..n
    BY DEF CallsOf
  <2> QED
    BY <2>1, <2>2, BatchBounds
<1>5. ~Asks /\ pendingCtx = NoContext /\ TreeInv /\ RunsTyped /\ Resting
  BY <1>1 DEF Inv, Typed, TurnInv, StatusInv, Resting
<1>6. /\ pendingCtx.done = <<>> /\ ~pendingCtx.saved /\ pendingCtx \in SavedContext
  BY <1>5 DEF NoContext, Inv, Typed, ContextTyped
<1> DEFINE e == Asked(calls)
           r == NewRun(pendingCtx, calls, checkpoints, tree')
<1>7. e \in AskEntry /\ e.content = calls
  BY <1>4 DEF Asked, AskEntry
<1>8. Fresh(r, pendingCtx, calls) /\ r.leaf = tree'
  BY <1>4, <1>6, NewRunIsFresh, NewRunLeaf
<1> HIDE DEF e, r
<1>9. runs' = [runs EXCEPT ![s] = r] /\ tree' = Append(tree, e)
  BY <1>2 DEF e, r
<1>10. runs'[s] = r /\ runs' = [runs EXCEPT ![s] = runs'[s]]
  BY <1>5, <1>9, SlotTaken
<1>11. \A t \in Slots : Active(t)' => t = s
  <2>1. \A t \in Slots : ~Active(t)
    BY <1>5 DEF Inv, Undisturbed, Apart, OneRun
  <2> QED
    BY <1>5, <1>10, <2>1, OtherSlots DEF Active
<1>12. /\ TreeInv' /\ Asks' /\ Grows /\ Len(tree') = Len(tree) + 1 /\ tree'[Len(tree')] = e
       /\ \A k \in 1..Len(tree) : tree'[k] = tree[k]
  BY <1>4, <1>5, <1>7, <1>9, TreeAppended
<1>13. Leaf' = calls
  BY <1>7, <1>12 DEF Leaf
<1>14. RunInv(r, tree', pendingCtx')
  <2>1. r.calls = calls /\ r.prior = <<>> /\ r.results = <<>> /\ r.at = 0 /\ r.resumed = pendingCtx.saved
    BY <1>6, <1>8 DEF Fresh
  <2>2. Part(<<>>, calls, calls)
    BY <1>4 DEF Part
  <2> QED
    BY <1>1, <1>6, <1>8, <1>13, <2>1, <2>2 DEF RunInv, Follows, Leaf
<1>15. r.calls = calls
  BY <1>6, <1>8 DEF Fresh
<1>16. StatusInv'
  BY <1>1, <1>4, <1>10, <1>11, <1>12, <1>14, <1>15 DEF StatusInv
<1>17. OpenCalls = <<>> /\ OpenCalls' = calls /\ ClosedTurns' = ClosedTurns
  BY <1>5, <1>7, <1>12, OpenAtLeaf, OpensOrCloses
<1>18. Contract!Ask
  BY <1>1, <1>4, <1>17 DEF Contract!Ask, Ended
<1> QED
  BY <1>12, <1>16, <1>18 DEF TurnStep, TurnInv, Keeps, Contract!Next

\* An approval resumes the context that a pause has saved.
LEMMA ResumeTurn ==
    ASSUME Inv, status = "WaitingForApproval", status' = "Executing", NEW s \in Slots,
           runs' = [runs EXCEPT ![s] = NewRun(pendingCtx, <<>>, checkpoints, tree)],
           UNCHANGED <<tree, pendingCtx, turn>>
    PROVE  TurnStep
<1>1. TreeInv' /\ Asks' = Asks /\ Leaf' = Leaf /\ Grows
  BY TreeKept DEF Inv, TurnInv
<1>2. /\ Asks /\ pendingCtx.saved /\ Part(pendingCtx.done, pendingCtx.rest, Leaf)
      /\ AllOf(pendingCtx.rest, turn) /\ RunsTyped /\ Resting
      /\ pendingCtx \in SavedContext /\ <<>> \in Seq(Call)
  BY DEF Inv, Typed, ContextTyped, TurnInv, StatusInv, Resting
<1> DEFINE r == NewRun(pendingCtx, <<>>, checkpoints, tree)
<1>3. Fresh(r, pendingCtx, <<>>) /\ r.leaf = tree
  <2>1. Fresh(r, pendingCtx, <<>>)
    BY <1>2, NewRunIsFresh
  <2>2. r.leaf = tree
    BY DEF NewRun
  <2> QED
    BY <2>1, <2>2
<1> HIDE DEF r
<1>4. runs'[s] = r /\ runs' = [runs EXCEPT ![s] = runs'[s]]
  <2>1. runs' = [runs EXCEPT ![s] = r]
    BY DEF r
  <2> QED
    BY <1>2, <2>1, SlotTaken
<1>5. \A t \in Slots : Active(t)' => t = s
  <2>1. \A t \in Slots : ~Active(t)
    BY <1>2 DEF Inv, Undisturbed, Apart, OneRun
  <2> QED
    BY <1>2, <1>4, <2>1, OtherSlots DEF Active
<1>6. r.calls = pendingCtx.rest /\ r.prior = pendingCtx.done /\ r.results = <<>> /\ r.at = 0 /\ r.resumed
  BY <1>2, <1>3 DEF Fresh
<1>7. RunInv(r, tree', pendingCtx')
  BY <1>1, <1>2, <1>3, <1>6 DEF RunInv, Follows, Fresh, Leaf
<1>8. StatusInv'
  BY <1>1, <1>2, <1>4, <1>5, <1>6, <1>7 DEF StatusInv
<1>9. Keeps
  BY ContractStutters DEF Keeps, Ended
<1> QED
  BY <1>1, <1>8, <1>9 DEF TurnStep, TurnInv

LEMMA ConcatElements ==
    ASSUME NEW S, NEW p \in Seq(S), NEW q \in Seq(S)
    PROVE  /\ p \o q \in Seq(S) /\ Len(p \o q) = Len(p) + Len(q) /\ Len(p) \in Nat /\ Len(q) \in Nat
           /\ \A j \in 1..(Len(p) + Len(q)) :
                \/ j \in 1..Len(p) /\ (p \o q)[j] = p[j]
                \/ j - Len(p) \in 1..Len(q) /\ (p \o q)[j] = q[j - Len(p)]
<1>1. /\ p \o q \in Seq(S) /\ Len(p \o q) = Len(p) + Len(q) /\ Len(p) \in Nat /\ Len(q) \in Nat
      /\ \A j \in 1..(Len(p) + Len(q)) : (p \o q)[j] = IF j <= Len(p) THEN p[j] ELSE q[j - Len(p)]
  OBVIOUS
<1> DEFINE m == Len(p)
           n == Len(q)
           pq == p \o q
<1>2. m \in Nat /\ n \in Nat /\ \A j \in 1..(m + n) : pq[j] = IF j <= m THEN p[j] ELSE q[j - m]
  BY <1>1
<1> HIDE DEF m, n, pq
<1>3. \A j \in 1..(m + n) : (j \in 1..m /\ pq[j] = p[j]) \/ (j - m \in 1..n /\ pq[j] = q[j - m])
  BY <1>2
<1> USE DEF m, n, pq
<1> QED
  BY <1>1, <1>3

\* The run answers the calls it passes, each at its position.
Passes(s) ==
    /\ Active(s) /\ UNCHANGED <<entity, turn>>
    /\ \E new \in Seq(ResultOf) :
        /\ runs' = [runs EXCEPT ![s] = [runs[s] EXCEPT !.at = runs[s].at + Len(new),
                                                       !.results = runs[s].results \o new]]
        /\ \A k \in 1..Len(new) :
            runs[s].at + k \in 1..Len(runs[s].calls) /\ new[k].call = runs[s].calls[runs[s].at + k]

LEMMA BatchPasses ==
    ASSUME Typed, NEW s \in Slots, RunBatch(s)
    PROVE  Passes(s)
<1> DEFINE r == runs[s]
           n == BatchLen(r)
           new == NewResults(r)
<1>1. Active(s) /\ IsRun(r)
  BY BatchEffect DEF Typed, RunsTyped
<1>2. /\ runs' = [runs EXCEPT ![s] = [r EXCEPT !.at = r.at + n, !.results = r.results \o new]]
      /\ UNCHANGED <<entity, turn>>
  BY BatchEffect
<1>3. /\ new \in Seq(ResultOf) /\ Len(new) = n /\ n \in Nat /\ r.at + n \in r.at..Len(r.calls)
      /\ \A k \in 1..n : r.at + k \in r.at + 1..r.at + n /\ new[k].call = r.calls[r.at + k]
  BY <1>1, BatchOfRun
<1>4. r.at \in Nat /\ Len(r.calls) \in Nat
  BY <1>1 DEF IsRun
<1> HIDE DEF n, new, r
<1>5. \A k \in 1..Len(new) : r.at + k \in 1..Len(r.calls) /\ new[k].call = r.calls[r.at + k]
  BY <1>3, <1>4
<1>6. runs' = [runs EXCEPT ![s] = [r EXCEPT !.at = r.at + Len(new), !.results = r.results \o new]]
  BY <1>2, <1>3
<1> QED
  BY <1>1, <1>2, <1>3, <1>5, <1>6 DEF Passes, r

LEMMA CallPasses ==
    ASSUME Typed, NEW s \in Slots, RunCall(s)
    PROVE  Passes(s)
<1> DEFINE r == runs[s]
           x == Result(NextCall(r), "run")
           new == <<x>>
<1>1. Active(s) /\ IsRun(r) /\ r.at # Len(r.calls)
  BY DEF Typed, RunsTyped, RunCall, Finished
<1>2. /\ runs' = [runs EXCEPT ![s] = [r EXCEPT !.at = r.at + 1, !.results = Append(r.results, x)]]
      /\ UNCHANGED <<entity, turn>>
  BY DEF RunCall
<1>3. /\ r.at \in Nat /\ Len(r.calls) \in Nat /\ r.at + 1 \in 1..Len(r.calls)
      /\ r.results \in Seq(ResultOf) /\ r.calls \in Seq(Call)
  BY <1>1 DEF IsRun
<1>4. x \in ResultOf /\ x.call = r.calls[r.at + 1]
  BY <1>3 DEF Result, ResultOf, NextCall
<1> HIDE DEF r, x
<1>5. new \in Seq(ResultOf) /\ Len(new) = 1 /\ new[1] = x /\ Append(r.results, x) = r.results \o new
  <2>1. new \in Seq(ResultOf) /\ Len(new) = 1 /\ new[1] = x
    BY <1>4
  <2>2. r.results \o new = [k \in 1..(Len(r.results) + 1) |-> (r.results \o new)[k]]
    BY <1>3, <2>1, ConcatElements, SequenceIsListed
  <2>3. Append(r.results, x) = [k \in 1..(Len(r.results) + 1) |-> IF k = Len(r.results) + 1 THEN x ELSE r.results[k]]
    BY <1>3, <1>4, AppendIsListed
  <2>4. \A k \in 1..(Len(r.results) + 1) :
           (r.results \o new)[k] = IF k = Len(r.results) + 1 THEN x ELSE r.results[k]
    BY <1>3, <2>1, ConcatElements
  <2> QED
    BY <2>1, <2>2, <2>3, <2>4
<1> HIDE DEF new
<1>6. \A k \in 1..Len(new) : r.at + k \in 1..Len(r.calls) /\ new[k].call = r.calls[r.at + k]
  BY <1>3, <1>4, <1>5
<1>7. runs' = [runs EXCEPT ![s] = [r EXCEPT !.at = r.at + Len(new), !.results = r.results \o new]]
  BY <1>2, <1>5
<1> QED
  BY <1>1, <1>2, <1>5, <1>6, <1>7 DEF Passes, r

LEMMA PassTurn ==
    ASSUME Inv, NEW s \in Slots, Passes(s)
    PROVE  TurnStep
<1> DEFINE r == runs[s]
           q == runs'[s]
<1>1. Active(s) /\ IsRun(r) /\ UNCHANGED <<status, tree, pendingCtx, turn>> /\ RunsTyped
  BY DEF Passes, Inv, Typed, RunsTyped, entity
<1>2. PICK new \in Seq(ResultOf) :
        /\ runs' = [runs EXCEPT ![s] = [r EXCEPT !.at = r.at + Len(new), !.results = r.results \o new]]
        /\ \A k \in 1..Len(new) : r.at + k \in 1..Len(r.calls) /\ new[k].call = r.calls[r.at + k]
  BY DEF Passes
<1>3. /\ q.at = r.at + Len(new) /\ q.results = r.results \o new /\ q.calls = r.calls
      /\ q.prior = r.prior /\ q.resumed = r.resumed /\ q.leaf = r.leaf
  <2>1. q = [r EXCEPT !.at = r.at + Len(new), !.results = r.results \o new]
    BY <1>1, <1>2 DEF RunsTyped
  <2> HIDE DEF r, q
  <2> QED
    BY <1>1, <2>1 DEF IsRun
<1>4. \A t \in Slots : t # s => runs'[t] = runs[t]
  BY <1>1, <1>2 DEF RunsTyped
<1>5. \A t \in Slots : Active(t)' /\ t # s => Active(t) /\ runs'[t] = runs[t]
  BY <1>4 DEF Active
<1>6. TreeInv' /\ Asks' = Asks /\ Leaf' = Leaf /\ Grows
  BY <1>1, TreeKept DEF Inv, TurnInv
<1>7. StatusInv /\ AllOf(q.calls, turn)
  BY <1>1, <1>3 DEF Inv, TurnInv, StatusInv
<1>8. ASSUME status = "Executing"
      PROVE  RunInv(q, tree, pendingCtx)
  <2>1. RunInv(r, tree, pendingCtx)
    BY <1>1, <1>7, <1>8 DEF StatusInv
  <2>2. r.results \in Seq(ResultOf) /\ r.at \in Nat
    BY <1>1 DEF IsRun
  <2> HIDE DEF r, q
  <2>3. Len(r.results) = r.at /\ \A j \in 1..Len(r.results) : r.results[j].call = r.calls[j]
    BY <2>1 DEF RunInv, Follows
  <2>4. ASSUME NEW j \in 1..Len(q.results)
        PROVE  q.results[j].call = q.calls[j]
    <3>1. /\ Len(r.results) \in Nat /\ Len(new) \in Nat /\ j \in 1..(Len(r.results) + Len(new))
          /\ \/ j \in 1..Len(r.results) /\ q.results[j] = r.results[j]
             \/ j - Len(r.results) \in 1..Len(new) /\ q.results[j] = new[j - Len(r.results)]
      BY <1>3, <2>2, <2>4, ConcatElements
    <3>2. CASE j \in 1..Len(r.results) /\ q.results[j] = r.results[j]
      BY <1>3, <2>3, <3>2
    <3>3. CASE j - Len(r.results) \in 1..Len(new) /\ q.results[j] = new[j - Len(r.results)]
      <4>1. r.at + (j - r.at) = j
        BY <2>2, <3>1
      <4> QED
        BY <1>2, <1>3, <2>3, <3>3, <4>1
    <3> QED
      BY <3>1, <3>2, <3>3
  <2>5. Len(q.results) = q.at
    BY <1>3, <2>2, <2>3, ConcatElements
  <2> QED
    BY <1>3, <2>1, <2>4, <2>5 DEF RunInv, Follows
<1> HIDE DEF r, q
<1>9. \A t \in Slots : Active(t)' => /\ AllOf(runs'[t].calls, turn)
                                     /\ status = "Executing" => RunInv(runs'[t], tree, pendingCtx)
  BY <1>5, <1>7, <1>8 DEF StatusInv, q
<1>10. StatusInv'
  BY <1>1, <1>6, <1>7, <1>9 DEF StatusInv
<1>11. Keeps
  BY <1>1, ContractStutters DEF Keeps
<1> QED
  BY <1>6, <1>10, <1>11 DEF TurnStep, TurnInv

\* What a run saves goes on where the saved context ended.
LEMMA ContextParts ==
    ASSUME NEW r, IsRun(r), NEW cs, Follows(r, cs)
    PROVE  /\ Collected(r) \in Seq(ResultOf) /\ Len(Collected(r)) = Len(r.prior) + r.at
           /\ \A j \in 1..Len(Collected(r)) : Collected(r)[j].call = cs[j]
           /\ Part(Context(r).done, Context(r).rest, cs)
           /\ Len(cs) = Len(r.prior) + Len(r.calls)
<1> DEFINE p == r.prior
           q == r.results
           done == Collected(r)
           rest == Context(r).rest
<1>1. /\ p \in Seq(ResultOf) /\ q \in Seq(ResultOf) /\ Len(p) \in Nat /\ r.at \in Nat
      /\ Len(r.calls) \in Nat /\ r.at <= Len(r.calls) /\ Len(q) = r.at
  BY DEF IsRun, Follows
<1>2. Part(p, r.calls, cs) /\ \A j \in 1..Len(q) : q[j].call = r.calls[j]
  BY DEF Follows
<1>3. /\ rest \in Seq(Call) /\ Len(rest) = Len(r.calls) - r.at
      /\ \A k \in 1..Len(rest) : r.at + k \in 1..Len(r.calls) /\ rest[k] = r.calls[r.at + k]
  BY ContextType
<1>4. done = p \o q /\ Context(r).done = done
  BY DEF Collected, Context
<1> HIDE DEF p, q, done, rest
<1>5. /\ done \in Seq(ResultOf) /\ Len(done) = Len(p) + r.at
      /\ \A j \in 1..(Len(p) + r.at) :
            \/ j \in 1..Len(p) /\ done[j] = p[j]
            \/ j - Len(p) \in 1..r.at /\ done[j] = q[j - Len(p)]
  <2>1. p \in Seq(ResultOf) /\ q \in Seq(ResultOf) /\ Len(q) = r.at
    BY <1>1
  <2>2. /\ p \o q \in Seq(ResultOf) /\ Len(p \o q) = Len(p) + Len(q)
        /\ \A j \in 1..(Len(p) + Len(q)) :
              \/ j \in 1..Len(p) /\ (p \o q)[j] = p[j]
              \/ j - Len(p) \in 1..Len(q) /\ (p \o q)[j] = q[j - Len(p)]
    BY <2>1, ConcatElements
  <2> QED
    BY <1>4, <2>1, <2>2
<1>6. ASSUME NEW j \in 1..Len(done)
      PROVE  done[j].call = cs[j]
  <2>1. CASE j \in 1..Len(p) /\ done[j] = p[j]
    BY <1>2, <2>1 DEF Part
  <2>2. CASE j - Len(p) \in 1..r.at /\ done[j] = q[j - Len(p)]
    <3>1. j - Len(p) \in 1..Len(r.calls) /\ Len(p) + (j - Len(p)) = j
      BY <1>1, <1>5, <2>2
    <3> QED
      BY <1>1, <1>2, <2>2, <3>1 DEF Part
  <2> QED
    BY <1>5, <1>6, <2>1, <2>2
<1>7. Len(cs) = Len(p) + Len(r.calls)
  BY <1>2 DEF Part
<1>m. Len(p) \in Nat /\ r.at \in Nat /\ Len(r.calls) \in Nat /\ Len(done) = Len(p) + r.at
  BY <1>1, <1>5
<1>8. Len(done) + Len(rest) = Len(cs)
  <2> DEFINE a == Len(p)
             b == r.at
             c == Len(r.calls)
  <2>1. a \in Nat /\ b \in Nat /\ c \in Nat
    BY <1>m
  <2>2. Len(done) = a + b /\ Len(rest) = c - b /\ Len(cs) = a + c
    BY <1>m, <1>3, <1>7
  <2> HIDE DEF a, b, c
  <2>3. (a + b) + (c - b) = a + c
    BY <2>1
  <2> QED
    BY <2>2, <2>3
<1>9. ASSUME NEW k \in 1..Len(rest)
      PROVE  rest[k] = cs[Len(done) + k]
  <2>1. r.at + k \in 1..Len(r.calls) /\ rest[k] = r.calls[r.at + k]
    BY <1>3
  <2>2. rest[k] = cs[Len(p) + (r.at + k)]
    BY <1>2, <2>1 DEF Part
  <2>3. Len(p) + (r.at + k) = Len(done) + k
    <3>1. Len(rest) \in Nat
      BY <1>3
    <3>2. k \in Nat
      BY <3>1
    <3> QED
      BY <1>m, <3>2
  <2> QED
    BY <2>2, <2>3
<1>10. Part(done, rest, cs)
  BY <1>6, <1>8, <1>9 DEF Part
<1>11. Part(Context(r).done, Context(r).rest, cs)
  BY <1>4, <1>10 DEF rest
<1> QED
  BY <1>1, <1>5, <1>6, <1>7, <1>11 DEF p, done

\* A checkpoint or a pause saves more answers, or as many, but never all.
LEMMA SaveKeeps ==
    ASSUME Inv, NEW s \in Slots, Active(s), status = "Executing", status' \notin Ended,
           pendingCtx' = Context(runs[s]), UNCHANGED tree, ~Finished(runs[s])
    PROVE  Keeps
<1> DEFINE r == runs[s]
           done == Collected(r)
<1>1. IsRun(r) /\ RunInv(r, tree, pendingCtx) /\ Asks /\ TreeInv
  BY DEF Inv, Typed, RunsTyped, TurnInv, StatusInv
<1>2. OpenCalls = Leaf /\ Leaf \in Seq(Call) /\ Leaf # <<>>
  BY <1>1, OpenAtLeaf
<1>3. UNCHANGED <<OpenCalls, ClosedTurns>>
  BY DEF OpenCalls, LeafAsks, ClosedTurns, CallsIn
<1>4. /\ done \in Seq(ResultOf) /\ Len(done) = Len(pendingCtx.done) + r.at
      /\ \A j \in 1..Len(done) : done[j].call = Leaf[j]
      /\ Len(Leaf) = Len(pendingCtx.done) + Len(r.calls)
  <2>1. IsRun(r) /\ Follows(r, Leaf) /\ r.prior = pendingCtx.done
    BY <1>1 DEF RunInv, Leaf
  <2> HIDE DEF r
  <2> QED
    BY <2>1, ContextParts
<1>5. pendingCtx'.done = done
  BY DEF Context
<1>6. /\ r.at \in Nat /\ Len(r.calls) \in Nat /\ r.at < Len(r.calls)
      /\ pendingCtx.done \in Seq(ResultOf) /\ Len(pendingCtx.done) \in Nat
      /\ \A j \in 1..Len(pendingCtx.done) : pendingCtx.done[j].call = Leaf[j]
  <2>1. /\ r.at \in Nat /\ Len(r.calls) \in Nat /\ r.at <= Len(r.calls) /\ r.at # Len(r.calls)
        /\ r.prior \in Seq(ResultOf)
    BY <1>1 DEF IsRun, Finished
  <2>2. r.prior = pendingCtx.done /\ Part(r.prior, r.calls, Leaf)
    BY <1>1 DEF RunInv, Follows, Leaf
  <2>3. \A j \in 1..Len(pendingCtx.done) : pendingCtx.done[j].call = Leaf[j]
    BY <2>2 DEF Part
  <2> HIDE DEF r
  <2> QED
    BY <2>1, <2>2, <2>3
<1> HIDE DEF r, done
<1> DEFINE old == pendingCtx.done
           n == Len(old)
           k == r.at
           m == Len(r.calls)
<1>n. /\ n \in Nat /\ k \in Nat /\ m \in Nat /\ k < m
      /\ Len(done) = n + k /\ Len(Leaf) = n + m
  BY <1>4, <1>6
<1> HIDE DEF n, k, m
<1>l. Len(done) <= Len(Leaf) /\ n <= Len(Leaf) /\ (k # 0 => Len(done) > n /\ Len(done) < Len(Leaf))
  BY <1>n
<1>7. CallsIn(done) = SubSeq(Leaf, 1, Len(done)) /\ Len(CallsIn(done)) = Len(done)
  BY <1>2, <1>4, <1>l, CallsInPrefix
<1>8. CallsIn(old) = SubSeq(Leaf, 1, n) /\ Len(CallsIn(old)) = n
  <2>1. old \in Seq(ResultOf) /\ n = Len(old) /\ \A j \in 1..Len(old) : old[j].call = Leaf[j]
    BY <1>6 DEF n
  <2> HIDE DEF old
  <2> QED
    BY <1>2, <1>l, <2>1, CallsInPrefix
<1>9. CallsIn(pendingCtx.done)' = CallsIn(done)
  BY <1>5 DEF CallsIn
<1>10. CASE r.at = 0
  <2>1. Len(done) = n
    BY <1>n, <1>10 DEF k
  <2>2. CallsIn(pendingCtx.done)' = CallsIn(pendingCtx.done)
    BY <1>7, <1>8, <1>9, <2>1
  <2>3. (status \in Ended)' = (status \in Ended)
    BY DEF Ended
  <2> QED
    BY <1>3, <2>2, <2>3 DEF Keeps, Contract!contract
<1>11. CASE r.at # 0
  <2>1. Len(done) > n /\ Len(done) < Len(Leaf) /\ Len(done) <= Len(Leaf)
    BY <1>l, <1>11 DEF k
  <2>2. /\ status \notin Ended /\ OpenCalls # <<>>
        /\ Len(CallsIn(pendingCtx.done)') > Len(CallsIn(pendingCtx.done))
        /\ Len(CallsIn(pendingCtx.done)') < Len(OpenCalls)
        /\ Len(CallsIn(pendingCtx.done)') <= Len(OpenCalls)
        /\ CallsIn(pendingCtx.done)' = SubSeq(OpenCalls, 1, Len(CallsIn(pendingCtx.done)'))
    BY <1>2, <1>7, <1>8, <1>9, <2>1 DEF Ended
  <2>3. (status \in Ended)' = (status \in Ended)
    BY DEF Ended
  <2>4. Contract!Save
    BY <1>3, <2>2, <2>3 DEF Contract!Save, Contract!Prefix
  <2> QED
    BY <2>4 DEF Keeps, Contract!Next
<1> QED
  BY <1>10, <1>11

LEMMA CheckpointTurn ==
    ASSUME Inv, NEW s \in Slots, CheckpointToolBatch(s)
    PROVE  TurnStep
<1> DEFINE r == runs[s]
           x == Context(r)
           q == NewRun(pendingCtx', <<>>, checkpoints', tree')
<1>1. /\ Active(s) /\ status = "Executing" /\ status' = "Executing" /\ ~Finished(r)
      /\ pendingCtx' = x /\ tree' = r.leaf /\ UNCHANGED turn
      /\ runs' = [runs EXCEPT ![s] = q]
  BY DEF CheckpointToolBatch, Checkpointing, Reenter, Boundary, history
<1>2. /\ IsRun(r) /\ RunInv(r, tree, pendingCtx) /\ Asks /\ TreeInv /\ AllOf(r.calls, turn)
      /\ RunsTyped /\ <<>> \in Seq(Call)
  BY <1>1 DEF Inv, Typed, RunsTyped, TurnInv, StatusInv
<1>3. tree' = tree
  BY <1>1, <1>2 DEF RunInv, Follows
<1>4. Keeps
  BY <1>1, <1>3, SaveKeeps DEF Ended
<1>5. TreeInv' /\ Asks' = Asks /\ Leaf' = Leaf /\ Grows
  BY <1>2, <1>3, TreeKept
<1>6. Leaf \in Seq(Call)
  BY <1>2, OpenAtLeaf
<1>7. Part(x.done, x.rest, Leaf)
  BY <1>2, ContextParts DEF RunInv, Leaf
<1>8. /\ x \in SavedContext /\ x.saved
      /\ \A k \in 1..Len(x.rest) : r.at + k \in 1..Len(r.calls) /\ x.rest[k] = r.calls[r.at + k]
  <2>1. IsRun(r)
    BY <1>2
  <2> HIDE DEF r
  <2> QED
    BY <2>1, ContextType
<1>9. AllOf(x.rest, turn)
  BY <1>2, <1>8 DEF AllOf
<1>10. Fresh(q, pendingCtx', <<>>)
  BY <1>1, <1>2, <1>8, NewRunIsFresh
<1>11. q.leaf = tree'
  BY DEF NewRun
<1> HIDE DEF q, x
<1>12. q.calls = x.rest /\ q.prior = x.done /\ q.results = <<>> /\ q.at = 0 /\ q.resumed = x.saved
  BY <1>1, <1>8, <1>10 DEF Fresh
<1>13. RunInv(q, tree', pendingCtx')
  BY <1>1, <1>3, <1>7, <1>11, <1>12 DEF RunInv, Follows, Leaf
<1>14. runs'[s] = q /\ runs' = [runs EXCEPT ![s] = runs'[s]]
  BY <1>1, <1>2, SlotTaken
<1>15. \A t \in Slots : Active(t)' => t = s
  BY <1>1, <1>2, <1>14, OtherSlots DEF Inv, Undisturbed, Apart, OneRun, Active
<1>16. StatusInv'
  BY <1>1, <1>2, <1>5, <1>9, <1>12, <1>13, <1>14, <1>15 DEF StatusInv
<1> QED
  BY <1>4, <1>5, <1>16 DEF TurnStep, TurnInv

LEMMA PauseTurn ==
    ASSUME Inv, NEW s \in Slots, PauseForApproval(s), status = "Executing"
    PROVE  TurnStep
<1> DEFINE r == runs[s]
           x == Context(r)
<1>1. /\ Active(s) /\ status' = "WaitingForApproval" /\ ~Finished(r)
      /\ pendingCtx' = x /\ UNCHANGED <<tree, turn>> /\ Free(s)
  BY DEF PauseForApproval, Pausing, history
<1>2. IsRun(r) /\ RunInv(r, tree, pendingCtx) /\ Asks /\ TreeInv /\ AllOf(r.calls, turn) /\ RunsTyped
  BY <1>1 DEF Inv, Typed, RunsTyped, TurnInv, StatusInv
<1>3. Keeps
  BY <1>1, SaveKeeps DEF Ended
<1>4. TreeInv' /\ Asks' = Asks /\ Leaf' = Leaf /\ Grows
  BY <1>1, <1>2, TreeKept
<1>5. Leaf \in Seq(Call)
  BY <1>2, OpenAtLeaf
<1>6. Part(x.done, x.rest, Leaf)
  BY <1>2, ContextParts DEF RunInv, Leaf
<1>7. /\ x.saved /\ \A k \in 1..Len(x.rest) : r.at + k \in 1..Len(r.calls) /\ x.rest[k] = r.calls[r.at + k]
  <2>1. IsRun(r)
    BY <1>2
  <2> HIDE DEF r
  <2> QED
    BY <2>1, ContextType
<1>8. AllOf(x.rest, turn)
  BY <1>2, <1>7 DEF AllOf
<1>9. \A t \in Slots : ~Active(t)'
  BY <1>1, <1>2, SlotFreed DEF Inv, Undisturbed, Apart, OneRun, Active
<1> HIDE DEF x
<1>10. StatusInv'
  BY <1>1, <1>2, <1>4, <1>6, <1>7, <1>8, <1>9 DEF StatusInv
<1> QED
  BY <1>3, <1>4, <1>10 DEF TurnStep, TurnInv

\* A context that is not saved is the empty one.
LEMMA UnsavedContext ==
    ASSUME ContextTyped, ~pendingCtx.saved
    PROVE  pendingCtx = NoContext
<1>1. pendingCtx = [saved |-> pendingCtx.saved, done |-> pendingCtx.done, rest |-> pendingCtx.rest]
  BY DEF ContextTyped, SavedContext
<1>2. pendingCtx.saved = FALSE /\ pendingCtx.done = <<>> /\ pendingCtx.rest = <<>>
  BY DEF ContextTyped, SavedContext
<1> QED
  BY <1>1, <1>2 DEF NoContext

\* A finished run answers every call of the turn at the leaf.
LEMMA FinishedAnswers ==
    ASSUME NEW r, IsRun(r), NEW cs, Follows(r, cs), Finished(r)
    PROVE  Collected(r) \in Seq(ResultOf) /\ Matches(Collected(r), cs)
<1> DEFINE done == Collected(r)
<1>1. /\ done \in Seq(ResultOf) /\ Len(done) = Len(r.prior) + r.at
      /\ \A j \in 1..Len(done) : done[j].call = cs[j]
      /\ Len(cs) = Len(r.prior) + Len(r.calls)
  BY ContextParts
<1>2. Len(done) = Len(cs)
  BY <1>1 DEF Finished
<1> HIDE DEF done
<1>3. Matches(done, cs)
  BY <1>1, <1>2 DEF Matches
<1> QED
  BY <1>1, <1>3 DEF done

\* The end of the batch answers the turn: each call, in its order.
LEMMA CloseTurn ==
    ASSUME Calm, Inv, NEW s \in Slots, HandleToolResults(s) \/ RecordResult(s)
    PROVE  TurnStep
<1> DEFINE r == runs[s]
           done == Collected(r)
           e == Answered(done)
<1>1. /\ Active(s) /\ Finished(r) /\ status = "Executing" /\ status' \in {"Thinking", "Completed"}
      /\ tree' = Append(r.leaf, e) /\ Free(s) /\ UNCHANGED turn
  BY DEF HandleToolResults, RecordResult, Ending, Calm, history
<1>2. IsRun(r) /\ RunInv(r, tree, pendingCtx) /\ Asks /\ TreeInv /\ RunsTyped /\ ContextTyped
  BY <1>1 DEF Inv, Typed, RunsTyped, TurnInv, StatusInv
<1>3. pendingCtx' = NoContext
  <2>1. r.resumed = pendingCtx.saved
    BY <1>2 DEF RunInv
  <2>2. ~r.resumed => pendingCtx = NoContext
    BY <1>2, <2>1, UnsavedContext
  <2> QED
    BY <2>2 DEF HandleToolResults, RecordResult
<1>4. Follows(r, Leaf) /\ r.leaf = tree
  BY <1>2 DEF RunInv, Leaf
<1>5. done \in Seq(ResultOf) /\ Matches(done, Leaf)
  <2> HIDE DEF r
  <2> QED
    BY <1>1, <1>2, <1>4, FinishedAnswers
<1> HIDE DEF done
<1>6. e \in AnswerEntry /\ e.content = done
  BY <1>5 DEF Answered, AnswerEntry
<1> HIDE DEF e
<1>7. tree' = Append(tree, e) /\ Matches(e.content, Leaf)
  BY <1>1, <1>4, <1>5, <1>6
<1>8. /\ TreeInv' /\ ~Asks' /\ Grows /\ Len(tree') = Len(tree) + 1 /\ tree'[Len(tree')] = e
      /\ \A k \in 1..Len(tree) : tree'[k] = tree[k]
  BY <1>2, <1>6, <1>7, TreeAppended
<1>9. \A t \in Slots : ~Active(t)'
  BY <1>1, <1>2, SlotFreed DEF Inv, Undisturbed, Apart, OneRun, Active
<1>10. StatusInv'
  BY <1>1, <1>3, <1>8, <1>9 DEF StatusInv, Ended
<1>11. OpenCalls = Leaf /\ Leaf \in Seq(Call) /\ Leaf # <<>>
  BY <1>2, OpenAtLeaf
<1>12. OpenCalls' = <<>> /\ ClosedTurns' = Append(ClosedTurns, CallsIn(done))
  BY <1>2, <1>6, <1>8, OpensOrCloses
<1>13. CallsIn(done) = Leaf
  <2>1. Len(done) = Len(Leaf) /\ \A j \in 1..Len(done) : done[j].call = Leaf[j]
    BY <1>5 DEF Matches
  <2>2. Len(done) <= Len(Leaf)
    BY <1>11, <2>1
  <2> QED
    BY <1>5, <1>11, <2>1, <2>2, CallsInPrefix
<1>14. CallsIn(pendingCtx'.done) = <<>>
  BY <1>3 DEF CallsIn, NoContext
<1>15. (status \in Ended)' \in BOOLEAN /\ status \notin Ended
  BY <1>1 DEF Ended
<1>16. Contract!Close
  BY <1>11, <1>12, <1>13, <1>14, <1>15 DEF Contract!Close
<1> QED
  BY <1>8, <1>10, <1>16 DEF TurnStep, TurnInv, Keeps, Contract!Next

-----------------------------------------------------------------------------
(***************************************************************************)
(* Every step, and the theorems.                                           *)
(***************************************************************************)
LEMMA QuietTurn ==
    ASSUME Inv, UNCHANGED <<tree, pendingCtx, turn>>, UNCHANGED runs \/ \E s \in Slots : Free(s),
           status' = status \/ (status \notin Ended /\ status' \in Ended)
    PROVE  TurnStep
<1>1. \A t \in Slots : runs'[t] \in {Idle, runs[t]}
  BY SlotFreed DEF Inv, Typed
<1> QED
  BY <1>1, SettleTurn DEF Inv

LEMMA RunTurn ==
    ASSUME Calm, Inv, NEW s \in Slots, RunStep(s)
    PROVE  TurnStep
<1>1. CASE RunBatch(s) \/ RunCall(s)
  BY <1>1, BatchPasses, CallPasses, PassTurn DEF Inv
<1>2. CASE SkipCheckpoint(s)
  BY <1>2 DEF SkipCheckpoint, Calm
<1>3. CASE CheckpointToolBatch(s)
  BY <1>3, CheckpointTurn
<1>4. CASE RunawayGuard(s)
  BY <1>4, QuietTurn DEF RunawayGuard, Ended
<1>5. CASE PauseForApproval(s)
  <2>1. CASE status = "Executing"
    BY <1>5, <2>1, PauseTurn
  <2>2. CASE status # "Executing"
    BY <1>5, <2>2, QuietTurn DEF PauseForApproval, Pausing, history
  <2> QED
    BY <2>1, <2>2
<1>6. CASE HandleToolResults(s) \/ RecordResult(s)
  BY <1>6, CloseTurn
<1>7. CASE CallbackRejected(s)
  BY <1>7, QuietTurn DEF CallbackRejected, entity, history
<1>8. CASE InvocationFails(s)
  BY <1>8, QuietTurn DEF InvocationFails, FailsWith, Ended
<1> QED
  BY <1>1, <1>2, <1>3, <1>4, <1>5, <1>6, <1>7, <1>8 DEF RunStep

LEMMA EveryTurn ==
    ASSUME Calm, Inv, [Next]_vars
    PROVE  TurnStep
<1>1. CASE ProcessToolCalls
  BY <1>1, AskTurn
<1>2. ASSUME NEW s \in Slots, RunStep(s)
      PROVE  TurnStep
  BY <1>2, RunTurn
<1>3. ASSUME NEW s \in Slots, ResumeTools(s)
      PROVE  TurnStep
  BY <1>3 DEF ResumeTools, Calm, Inv
<1>4. CASE RegisterCallback
  BY <1>4, QuietTurn DEF RegisterCallback, entity, history
<1>5. ASSUME NEW d \in 1..Len(decisions), Approve(d)
      PROVE  TurnStep
  <2>1. CASE status = "WaitingForApproval"
    <3>1. PICK s \in Slots : runs' = [runs EXCEPT ![s] = NewRun(pendingCtx, <<>>, checkpoints, tree)]
      BY <1>5, <2>1 DEF Approve
    <3>2. status' = "Executing" /\ UNCHANGED <<tree, pendingCtx, turn>>
      BY <1>5, <2>1 DEF Approve, history
    <3> QED
      BY <2>1, <3>1, <3>2, ResumeTurn
  <2>2. CASE status # "WaitingForApproval"
    BY <1>5, <2>2, QuietTurn DEF Approve, history
  <2> QED
    BY <2>1, <2>2
<1>6. ASSUME NEW d \in 1..Len(decisions), Deny(d)
      PROVE  TurnStep
  BY <1>6, QuietTurn DEF Deny, Ended
<1>7. CASE ResumeWithPlanApproval
  BY <1>7 DEF ResumeWithPlanApproval, Calm
<1>8. CASE EndedFromOutside
  BY <1>8, QuietTurn DEF EndedFromOutside, FailsWith, Ended
<1>9. CASE CrashAndSweep
  <2>1. crashes \in Nat /\ crashes < 0
    BY <1>9 DEF CrashAndSweep, Calm, Inv, Typed, BooksTyped
  <2> QED
    BY <2>1
<1>10. CASE RecoverSession
  BY <1>10 DEF RecoverSession, Inv, TurnInv, StatusInv, Ended
<1>11. CASE UNCHANGED vars
  BY <1>11, QuietTurn DEF vars, entity, history
<1> QED
  BY <1>1, <1>2, <1>3, <1>4, <1>5, <1>6, <1>7, <1>8, <1>9, <1>10, <1>11 DEF Next

LEMMA InvStep ==
    ASSUME Calm, Inv, [Next]_vars
    PROVE  Inv'
<1>1. TurnInv'
  BY EveryTurn DEF TurnStep
<1>2. Typed' /\ Undisturbed'
  BY StepKinds, TypedStep, UndisturbedStep DEF Inv
<1>3. wakeUps' = 0
  <2>1. ASSUME NEW s \in Slots, RunStep(s)
        PROVE  wakeUps' = wakeUps
    BY <2>1 DEF RunStep, RunBatch, RunCall, SkipCheckpoint, CheckpointToolBatch, Checkpointing,
                RunawayGuard, PauseForApproval, Pausing, HandleToolResults, RecordResult, Ending,
                CallbackRejected, InvocationFails, FailsWith, bounds
  <2>2. ASSUME NEW s \in Slots, ResumeTools(s)
        PROVE  FALSE
    BY <2>2 DEF ResumeTools, Calm, Inv
  <2>3. \A d : Approve(d) \/ Deny(d) => wakeUps' = wakeUps
    BY DEF Approve, Deny, bounds
  <2>4. CASE ProcessToolCalls \/ RegisterCallback \/ ResumeWithPlanApproval \/ EndedFromOutside
              \/ CrashAndSweep \/ RecoverSession \/ UNCHANGED vars
    BY <2>4 DEF ProcessToolCalls, RegisterCallback, ResumeWithPlanApproval, EndedFromOutside,
                FailsWith, CrashAndSweep, RecoverSession, vars, bounds, Inv
  <2> QED
    BY <2>1, <2>2, <2>3, <2>4 DEF Next, Inv
<1> QED
  BY <1>1, <1>2, <1>3 DEF Inv

LEMMA InvInit ==
    ASSUME Init
    PROVE  Inv
<1>1. Typed /\ Undisturbed
  BY InitTyped, InitUndisturbed
<1>2. tree = <<>> /\ \A s \in Slots : ~Active(s)
  BY DEF Init, Active
<1>3. TreeInv
  BY <1>2 DEF TreeInv
<1>4. StatusInv
  BY <1>2 DEF Init, StatusInv, Asks
<1> QED
  BY <1>1, <1>3, <1>4 DEF Inv, TurnInv, Init

\* When the provider is asked again, every turn of the conversation has the results
\* of exactly its calls: the run and the context share each turn without a gap.
THEOREM EveryTurnClosed == ASSUME Calm PROVE Spec => []TurnsClosed
<1>1. Inv => TurnsClosed
  <2> SUFFICES ASSUME Inv, status = "Thinking", NEW k \in 1..Len(tree), tree[k].kind = "assistant"
               PROVE  /\ k < Len(tree) /\ tree[k + 1].kind = "results"
                      /\ Len(tree[k + 1].content) = Len(tree[k].content)
                      /\ \A j \in 1..Len(tree[k].content) : tree[k + 1].content[j].call = tree[k].content[j]
    BY DEF TurnsClosed
  <2>1. TreeInv /\ ~Asks /\ Len(tree) \in Nat
    <3>1. TreeInv /\ ~Asks
      BY DEF Inv, TurnInv, StatusInv
    <3> QED
      BY <3>1 DEF TreeInv
  <2>2. k % 2 = 1
    BY <2>1 DEF TreeInv, AnswerEntry
  <2>3. k # Len(tree)
    BY <2>1, <2>2 DEF Asks
  <2>4. k + 1 \in 1..Len(tree) /\ (k + 1) % 2 # 1 /\ (k + 1) - 1 = k /\ k < Len(tree)
    BY <2>1, <2>2, <2>3
  <2>5. tree[k + 1] \in AnswerEntry /\ Matches(tree[k + 1].content, tree[(k + 1) - 1].content)
    BY <2>1, <2>4 DEF TreeInv
  <2> QED
    BY <2>4, <2>5 DEF AnswerEntry, Matches
<1> QED
  BY <1>1, InvInit, InvStep, PTL DEF Spec

\* An invocation executes calls of the current turn: no context outlives its turn.
THEOREM OnlyOwnTurn == ASSUME Calm PROVE Spec => []OwnTurnOnly
<1>1. Inv => OwnTurnOnly
  BY DEF Inv, TurnInv, StatusInv, AllOf, OwnTurnOnly
<1> QED
  BY <1>1, InvInit, InvStep, PTL DEF Spec

\* The conversation only grows: every callback puts the leaf where the session tree
\* already ends, or appends to it.
THEOREM ConversationGrows == ASSUME Calm PROVE Spec => ConversationOnlyGrows
<1>1. Inv /\ [Next]_vars => [Grows]_vars
  BY EveryTurn DEF TurnStep
<1> QED
  BY <1>1, InvInit, InvStep, PTL DEF Spec, ConversationOnlyGrows, Grows

\* The tool phase implements the contract of a turn: each step of it asks, saves,
\* closes or gives up as TurnContract allows, or changes nothing of it.
THEOREM ToolPhaseKeepsContract == ASSUME Calm PROVE Spec => KeepsContract
<1>1. Init => Contract!Init
  BY DEF Init, Contract!Init, ClosedTurns, OpenCalls, LeafAsks, CallsIn, NoContext, Ended
<1>2. Inv /\ [Next]_vars => [Contract!Next]_Contract!contract
  BY EveryTurn DEF TurnStep, Keeps
<1> QED
  BY <1>1, <1>2, InvInit, InvStep, PTL DEF Spec, KeepsContract, Contract!Spec
============================================================================
