------------------------ MODULE DbTransactionProofs ------------------------
(***************************************************************************)
(* TLAPS proofs about DbTransaction, for any writes, any nesting and any   *)
(* number of calls and of lost connections.                                *)
(***************************************************************************)
EXTENDS DbTransaction, SequenceTheorems, WellFoundedInduction, TLAPS

LevelType == [sp : Nat, ws : SUBSET Writes]
FrameType == [id : Calls, nested : BOOLEAN, sp : Nat]

\* Which statement is under way, by the place that has issued it.
StmtInv ==
    /\ phase = "none" <=> at \in {"script", "throwing"}
    /\ phase = "none" <=> op = "none"
    /\ at = "exec" => op = "write" \/ (op \in ManualOps /\ frames = <<>>)
    /\ at = "opening" => IF tx_depth > 0 THEN op = "savepoint" /\ arg = tx_depth
                                         ELSE op = "begin" /\ arg = 0
    /\ at \in {"closing", "undoing"} => Len(frames) > 0
    /\ at = "closing" => IF Top.nested THEN op = "release" /\ arg = Top.sp ELSE op = "commit"
    /\ at = "undoing" => IF Top.nested THEN op \in {"rollback_to", "release"} /\ arg = Top.sp
                                       ELSE op = "rollback"
    /\ op = "write" => /\ arg \in Writes /\ at = "exec"
                       /\ inside[arg] = {0} \cup {frames[i].id : i \in DOMAIN frames}

\* tx_depth is never more than the calls whose body is running, and a call
\* lowers it by one more than it has raised it, at most.
DepthInv ==
    /\ Len(frames) <= MaxDepth /\ Len(frames) <= ntx
    /\ tx_depth <= Len(frames) - (IF at \in {"closing", "undoing"} THEN 1 ELSE 0)
    /\ tx_depth >= 2 * Len(frames) - ntx
                       - (CASE at = "closing" -> 1 [] at = "undoing" -> 2 [] OTHER -> 0)
    /\ at = "opening" => Len(frames) < MaxDepth /\ ntx < MaxTx

\* A write that has not reached the server yet has not been run.
OnceInv(w) ==
    /\ runs[w] <= 1
    /\ op = "write" /\ arg = w /\ phase \in {"probe", "send", "server"} => runs[w] = 0

-----------------------------------------------------------------------------
(***************************************************************************)
(* Sequences: the stack of calls and the stack of savepoints.              *)
(***************************************************************************)
LEMMA Truncate ==
    ASSUME NEW S, NEW s \in Seq(S), NEW k \in 0 .. Len(s)
    PROVE  /\ SubSeq(s, 1, k) \in Seq(S) /\ Len(SubSeq(s, 1, k)) = k
           /\ \A i \in 1 .. k : SubSeq(s, 1, k)[i] = s[i]
<1>1. k \in Int /\ 1 \in Int /\ k \in Nat /\ \A i \in 1 .. k : s[i] \in S OBVIOUS
<1>2. SubSeq(s, 1, k) \in Seq(S) BY <1>1, SubSeqProperties
<1>3. Len(SubSeq(s, 1, k)) = k
  <2>1. Len(SubSeq(s, 1, k)) = IF 1 <= k THEN k - 1 + 1 ELSE 0 BY <1>1, SubSeqProperties
  <2>2. k - 1 + 1 = k /\ (~(1 <= k) => k = 0) BY <1>1
  <2> QED BY <2>1, <2>2
<1>4. \A i \in 1 .. k : SubSeq(s, 1, k)[i] = s[i]
  <2>1. \A i \in 1 .. k - 1 + 1 : SubSeq(s, 1, k)[i] = s[1 + i - 1]
    BY <1>1, SubSeqProperties
  <2>2. k - 1 + 1 = k BY <1>1
  <2>3. \A i \in 1 .. k : 1 + i - 1 = i OBVIOUS
  <2> QED BY <2>1, <2>2, <2>3
<1> QED BY <1>2, <1>3, <1>4

\* A level is replaced.
LEMMA Replace ==
    ASSUME NEW s \in Seq(LevelType), NEW k \in 1 .. Len(s), NEW r \in LevelType,
           NEW t, t = [s EXCEPT ![k] = r]
    PROVE  /\ t \in Seq(LevelType) /\ Len(t) = Len(s) /\ t[k] = r
           /\ \A i \in 1 .. Len(s) : i # k => t[i] = s[i]
OBVIOUS

\* A set of numbers with a bound has a largest one.
LEMMA Largest ==
    ASSUME NEW b \in Nat, NEW S \in SUBSET (0 .. b), S # {}
    PROVE  \E x \in S : \A y \in S : y <= x
<1> DEFINE R == OpToRel(<, Nat)
           T == {b - x : x \in S}
<1>0. ASSUME NEW y \in Nat, NEW z \in Nat, y < z
      PROVE  <<y, z>> \in R
  <2>1. <<y, z>> \in Nat \X Nat OBVIOUS
  <2>2. <<y, z>>[1] < <<y, z>>[2] BY <1>0
  <2> QED BY <2>1, <2>2, Zenon DEF OpToRel
<1>1. T \in SUBSET Nat /\ T # {}
  <2>1. \A x \in S : b - x \in Nat OBVIOUS
  <2>2. PICK x \in S : TRUE OBVIOUS
  <2>3. b - x \in T OBVIOUS
  <2> QED BY <2>1, <2>3, Zenon
<1>2. PICK m \in T : \A y \in T : ~(<<y, m>> \in R)
  BY <1>1, WFMin, NatLessThanWellFounded
<1> HIDE DEF R
<1>3. PICK x \in S : m = b - x OBVIOUS
<1>4. ASSUME NEW y \in S PROVE y <= x
  <2>1. b - y \in T /\ b - y \in Nat /\ m \in Nat BY <1>1
  <2>2. ~(b - y < m) BY <1>0, <1>2, <2>1, Zenon
  <2> QED BY <1>3, <2>1, <2>2
<1> QED BY <1>4

-----------------------------------------------------------------------------
(***************************************************************************)
(* The server's stack of savepoints.                                       *)
(***************************************************************************)
LEMMA LevelsType ==
    ASSUME TypeOK
    PROVE  /\ levels \in Seq(LevelType) /\ Len(levels) \in Nat /\ DOMAIN levels = 1 .. Len(levels)
           /\ \A i \in 1 .. Len(levels) : levels[i].sp \in Nat /\ levels[i].ws \in SUBSET Writes
           /\ \A w : w \in Pending <=> \E i \in 1 .. Len(levels) : w \in levels[i].ws
           /\ levels = <<>> <=> Len(levels) = 0
<1>1. levels \in Seq(LevelType) BY DEF TypeOK, LevelType
<1>2. Len(levels) \in Nat /\ DOMAIN levels = 1 .. Len(levels) BY <1>1
<1>3. \A i \in 1 .. Len(levels) : levels[i] \in LevelType BY <1>1, ElementOfSeq
<1>4. \A w : w \in Pending <=> \E i \in 1 .. Len(levels) : w \in levels[i].ws
  BY <1>2 DEF Pending
<1> QED BY <1>1, <1>2, <1>3, <1>4 DEF LevelType

LEMMA NewestIs ==
    ASSUME TypeOK, Known
    PROVE  /\ Newest \in 2 .. Len(levels) /\ levels[Newest].sp = arg
           /\ \A j \in 2 .. Len(levels) : levels[j].sp = arg => j <= Newest
<1> DEFINE S == {i \in DOMAIN levels : Savepoint(i)}
<1>1. Len(levels) \in Nat /\ DOMAIN levels = 1 .. Len(levels) BY LevelsType
<1>2. S \in SUBSET (0 .. Len(levels)) /\ S # {} BY <1>1 DEF Known
<1>3. \E i \in DOMAIN levels : Savepoint(i) /\ \A j \in DOMAIN levels : Savepoint(j) => j <= i
  <2>1. PICK x \in S : \A y \in S : y <= x BY <1>1, <1>2, Largest
  <2> QED BY <2>1
<1>4. Newest \in DOMAIN levels /\ Savepoint(Newest)
      /\ \A j \in DOMAIN levels : Savepoint(j) => j <= Newest
  BY <1>3 DEF Newest
<1> QED BY <1>1, <1>4 DEF Savepoint

\* RELEASE: the writes of the savepoint, and of those above it, join the
\* level below, ...
LEMMA ReleaseEffect ==
    ASSUME TypeOK, SrvRelease, ~Began
    PROVE  /\ Newest \in 2 .. Len(levels) /\ levels[Newest].sp = arg
           /\ \A j \in 2 .. Len(levels) : levels[j].sp = arg => j <= Newest
           /\ levels' \in Seq(LevelType) /\ Len(levels') = Newest - 1
           /\ \A j \in 1 .. Newest - 1 : levels'[j].sp = levels[j].sp
           /\ \A j \in 1 .. Newest - 2 : levels'[j].ws = levels[j].ws
           /\ \A w : w \in levels'[Newest - 1].ws <=>
                         \E i \in Newest - 1 .. Len(levels) : w \in levels[i].ws
<1>0. Known BY DEF SrvRelease, SrvAccepts, Refused
<1> DEFINE k == Newest
           low == SubSeq(levels, 1, k - 1)
           up_ == levels[k - 1].ws \cup Above(k)
<1>1. /\ k \in 2 .. Len(levels) /\ levels[k].sp = arg
      /\ \A j \in 2 .. Len(levels) : levels[j].sp = arg => j <= k
  BY <1>0, NewestIs
<1>2. /\ levels \in Seq(LevelType) /\ Len(levels) \in Nat
      /\ \A i \in 1 .. Len(levels) : levels[i].sp \in Nat /\ levels[i].ws \in SUBSET Writes
  BY LevelsType
<1>3. levels' = [low EXCEPT ![k - 1].ws = low[k - 1].ws \cup Above(k)]
  BY DEF SrvRelease, Answer
<1> HIDE DEF k
<1>4. /\ k - 1 \in 1 .. Len(levels) /\ k - 1 \in 0 .. Len(levels) /\ k \in Nat
      /\ k - 1 \in 1 .. k - 1
  BY <1>1, <1>2
<1>5. low \in Seq(LevelType) /\ Len(low) = k - 1 /\ \A i \in 1 .. k - 1 : low[i] = levels[i]
  BY <1>2, <1>4, Truncate
<1>6. Above(k) \in SUBSET Writes
  <2>1. \A j \in k .. Len(levels) : levels[j].ws \in SUBSET Writes BY <1>1, <1>2
  <2> QED BY <2>1 DEF Above
<1>7. up_ \in SUBSET Writes BY <1>2, <1>4, <1>6
<1>8. levels' = [low EXCEPT ![k - 1].ws = up_] BY <1>3, <1>4, <1>5
<1> HIDE DEF low, up_
<1>9. /\ levels' \in Seq(LevelType) /\ Len(levels') = k - 1
      /\ \A i \in 1 .. k - 1 : levels'[i].sp = low[i].sp
      /\ \A i \in 1 .. k - 1 : i # k - 1 => levels'[i].ws = low[i].ws
      /\ levels'[k - 1].ws = up_
  <2>1. k - 1 \in 1 .. Len(low) BY <1>4, <1>5
  <2>2. /\ levels' \in Seq(LevelType) /\ Len(levels') = Len(low)
        /\ \A i \in 1 .. Len(low) : levels'[i].sp = low[i].sp
        /\ \A i \in 1 .. Len(low) : i # k - 1 => levels'[i].ws = low[i].ws
        /\ levels'[k - 1].ws = up_
    <3> DEFINE r == [low[k - 1] EXCEPT !.ws = up_]
    <3>1. low[k - 1] \in LevelType BY <1>5, <2>1, ElementOfSeq
    <3>2. r \in LevelType /\ r.sp = low[k - 1].sp /\ r.ws = up_
      BY <1>7, <3>1
         DEF LevelType
    <3>3. levels' = [low EXCEPT ![k - 1] = r] BY <1>8
    <3> HIDE DEF r
    <3> QED BY <1>5, <2>1, <3>2, <3>3, Replace
  <2> QED BY <1>5, <2>2
<1>10. \A w : w \in up_ <=> \E i \in k - 1 .. Len(levels) : w \in levels[i].ws
  <2>1. \A w : w \in Above(k) <=> \E i \in k .. Len(levels) : w \in levels[i].ws
    BY DEF Above
  <2>2. \A i : i \in k - 1 .. Len(levels) <=> i = k - 1 \/ i \in k .. Len(levels)
    BY <1>2, <1>4
  <2> QED BY <2>1, <2>2 DEF up_
<1>11. \A j \in 1 .. k - 1 : levels'[j].sp = levels[j].sp BY <1>5, <1>9
<1>12. \A j \in 1 .. k - 2 : levels'[j].ws = levels[j].ws
  <2>1. \A j \in 1 .. k - 2 : j \in 1 .. k - 1 /\ j # k - 1 BY <1>4
  <2> QED BY <1>5, <1>9, <2>1
<1> QED BY <1>1, <1>9, <1>10, <1>11, <1>12 DEF k

\* ... or all of them become permanent with the transaction it began.
LEMMA BeganEffect ==
    ASSUME SrvRelease, Began
    PROVE  levels' = <<>> /\ committed' = committed \cup Pending
BY DEF SrvRelease, Answer

\* ROLLBACK TO: the savepoint stays, without writes.
LEMMA RollbackToEffect ==
    ASSUME TypeOK, SrvRollbackTo
    PROVE  /\ Newest \in 2 .. Len(levels) /\ levels[Newest].sp = arg
           /\ \A j \in 2 .. Len(levels) : levels[j].sp = arg => j <= Newest
           /\ levels' \in Seq(LevelType) /\ Len(levels') = Newest
           /\ \A j \in 1 .. Newest : levels'[j].sp = levels[j].sp
           /\ \A j \in 1 .. Newest - 1 : levels'[j].ws = levels[j].ws
           /\ levels'[Newest].ws = {}
<1>0. Known BY DEF SrvRollbackTo, SrvAccepts, Refused
<1> DEFINE k == Newest
           low == SubSeq(levels, 1, k)
<1>1. /\ k \in 2 .. Len(levels) /\ levels[k].sp = arg
      /\ \A j \in 2 .. Len(levels) : levels[j].sp = arg => j <= k
  BY <1>0, NewestIs
<1>2. levels \in Seq(LevelType) /\ Len(levels) \in Nat BY LevelsType
<1>3. levels' = [low EXCEPT ![k].ws = {}] BY DEF SrvRollbackTo, Answer
<1> HIDE DEF k
<1>4. k \in 0 .. Len(levels) /\ k \in Nat /\ k \in 1 .. k BY <1>1, <1>2
<1>5. low \in Seq(LevelType) /\ Len(low) = k /\ \A i \in 1 .. k : low[i] = levels[i]
  BY <1>2, <1>4, Truncate
<1> HIDE DEF low
<1>6. /\ levels' \in Seq(LevelType) /\ Len(levels') = k
      /\ \A i \in 1 .. k : levels'[i].sp = low[i].sp
      /\ \A i \in 1 .. k : i # k => levels'[i].ws = low[i].ws
      /\ levels'[k].ws = {}
  <2>1. k \in 1 .. Len(low) BY <1>4, <1>5
  <2>2. {} \in SUBSET Writes OBVIOUS
  <2>3. /\ levels' \in Seq(LevelType) /\ Len(levels') = Len(low)
        /\ \A i \in 1 .. Len(low) : levels'[i].sp = low[i].sp
        /\ \A i \in 1 .. Len(low) : i # k => levels'[i].ws = low[i].ws
        /\ levels'[k].ws = {}
    <3> DEFINE r == [low[k] EXCEPT !.ws = {}]
    <3>1. low[k] \in LevelType BY <1>5, <2>1, ElementOfSeq
    <3>2. r \in LevelType /\ r.sp = low[k].sp /\ r.ws = {} BY <2>2, <3>1 DEF LevelType
    <3>3. levels' = [low EXCEPT ![k] = r] BY <1>3
    <3> HIDE DEF r
    <3> QED BY <1>5, <2>1, <3>2, <3>3, Replace
  <2> QED BY <1>5, <2>3
<1>7. \A j \in 1 .. k : levels'[j].sp = levels[j].sp BY <1>5, <1>6
<1>8. \A j \in 1 .. k - 1 : levels'[j].ws = levels[j].ws
  <2>1. \A j \in 1 .. k - 1 : j \in 1 .. k /\ j # k BY <1>4
  <2> QED BY <1>5, <1>6, <2>1
<1> QED BY <1>1, <1>6, <1>7, <1>8 DEF k

\* A new level, on top.
LEMMA PushEffect ==
    ASSUME TypeOK, NEW n \in Nat, levels' = Append(levels, Level(n))
    PROVE  /\ levels' \in Seq(LevelType) /\ Len(levels') = Len(levels) + 1
           /\ \A j \in 1 .. Len(levels) : levels'[j] = levels[j]
           /\ levels'[Len(levels) + 1].sp = n /\ levels'[Len(levels) + 1].ws = {}
<1>1. levels \in Seq(LevelType) BY LevelsType
<1>2. Level(n) \in LevelType /\ Level(n).sp = n /\ Level(n).ws = {}
  BY
     DEF Level, LevelType
<1> QED BY <1>1, <1>2

\* A write in a transaction.
LEMMA WriteEffect ==
    ASSUME TypeOK, arg \in Writes, levels # <<>>,
           levels' = [levels EXCEPT ![Len(levels)].ws = @ \cup {arg}]
    PROVE  /\ levels' \in Seq(LevelType) /\ Len(levels') = Len(levels)
           /\ \A j \in 1 .. Len(levels) : levels'[j].sp = levels[j].sp
           /\ \A j \in 1 .. Len(levels) : j # Len(levels) => levels'[j].ws = levels[j].ws
           /\ levels'[Len(levels)].ws = levels[Len(levels)].ws \cup {arg}
<1>1. /\ levels \in Seq(LevelType) /\ Len(levels) \in Nat /\ Len(levels) # 0
      /\ \A i \in 1 .. Len(levels) : levels[i].ws \in SUBSET Writes
  BY LevelsType
<1>2. Len(levels) \in 1 .. Len(levels) BY <1>1
<1>3. levels[Len(levels)].ws \cup {arg} \in SUBSET Writes BY <1>1, <1>2
<1> DEFINE top == levels[Len(levels)].ws \cup {arg}
<1>4. levels' = [levels EXCEPT ![Len(levels)].ws = top] OBVIOUS
<1> HIDE DEF top
<1>5. /\ levels' \in Seq(LevelType) /\ Len(levels') = Len(levels)
      /\ \A i \in 1 .. Len(levels) : levels'[i].sp = levels[i].sp
      /\ \A i \in 1 .. Len(levels) : i # Len(levels) => levels'[i].ws = levels[i].ws
      /\ levels'[Len(levels)].ws = top
  <2>1. top \in SUBSET Writes BY <1>3 DEF top
  <2> DEFINE r == [levels[Len(levels)] EXCEPT !.ws = top]
  <2>2. levels[Len(levels)] \in LevelType BY <1>1, <1>2, ElementOfSeq
  <2>3. r \in LevelType /\ r.sp = levels[Len(levels)].sp /\ r.ws = top
    BY <2>1, <2>2 DEF LevelType
  <2>4. levels' = [levels EXCEPT ![Len(levels)] = r] BY <1>4
  <2> HIDE DEF r
  <2>5. ASSUME NEW t, t = [levels EXCEPT ![Len(levels)] = r]
        PROVE  /\ t \in Seq(LevelType) /\ Len(t) = Len(levels) /\ t[Len(levels)] = r
               /\ \A i \in 1 .. Len(levels) : i # Len(levels) => t[i] = levels[i]
    BY <1>1, <1>2, <2>3, <2>5, Replace
  <2>6. /\ levels' \in Seq(LevelType) /\ Len(levels') = Len(levels)
        /\ levels'[Len(levels)] = r
        /\ \A i \in 1 .. Len(levels) : i # Len(levels) => levels'[i] = levels[i]
    BY <2>4, <2>5, Zenon
  <2> QED BY <1>2, <2>3, <2>6
<1> QED BY <1>5 DEF top

-----------------------------------------------------------------------------
(***************************************************************************)
(* The stack of calls.                                                     *)
(***************************************************************************)
LEMMA FramesType ==
    ASSUME TypeOK
    PROVE  /\ frames \in Seq(FrameType) /\ Len(frames) \in Nat /\ DOMAIN frames = 1 .. Len(frames)
           /\ \A i \in 1 .. Len(frames) : /\ frames[i].id \in Calls /\ frames[i].nested \in BOOLEAN
                                          /\ frames[i].sp \in Nat
           /\ frames = <<>> <=> Len(frames) = 0
<1>1. frames \in Seq(FrameType) BY DEF TypeOK, FrameType
<1>2. Len(frames) \in Nat /\ DOMAIN frames = 1 .. Len(frames) BY <1>1
<1>3. \A i \in 1 .. Len(frames) : frames[i] \in FrameType BY <1>1, ElementOfSeq
<1>4. \A i \in 1 .. Len(frames) : /\ frames[i].id \in Calls /\ frames[i].nested \in BOOLEAN
                                  /\ frames[i].sp \in Nat
  BY <1>3 DEF FrameType
<1> QED BY <1>1, <1>2, <1>4

LEMMA PopEffect ==
    ASSUME TypeOK, Len(frames) > 0, frames' = Pop
    PROVE  /\ frames' \in Seq(FrameType) /\ Len(frames') = Len(frames) - 1
           /\ \A i \in 1 .. Len(frames) - 1 : frames'[i] = frames[i]
<1>1. frames \in Seq(FrameType) /\ Len(frames) - 1 \in 0 .. Len(frames) BY FramesType
<1> QED BY <1>1, Truncate DEF Pop

LEMMA OpenedEffect ==
    ASSUME TypeOK, StmtInv, DepthInv, Opened
    PROVE  /\ ntx < MaxTx
           /\ frames' \in Seq(FrameType) /\ Len(frames') = Len(frames) + 1
           /\ \A i \in 1 .. Len(frames) : frames'[i] = frames[i]
           /\ frames'[Len(frames) + 1].id = ntx + 1 /\ frames'[Len(frames) + 1].sp = arg
           /\ frames'[Len(frames) + 1].nested <=> op = "savepoint"
<1> DEFINE r == [id |-> ntx + 1, nested |-> op = "savepoint", sp |-> arg]
<1>1. frames \in Seq(FrameType) BY FramesType
<1>2. ntx < MaxTx /\ ntx \in 0 .. MaxTx /\ MaxTx \in Nat
  BY TxAssumption DEF Opened, DepthInv, TypeOK
<1>3. arg \in Nat /\ (op = "savepoint") \in BOOLEAN /\ ntx + 1 \in Calls
  <2>1. tx_depth \in Int BY TxAssumption DEF TypeOK
  <2>2. arg \in Nat BY <2>1 DEF Opened, StmtInv
  <2> QED BY <1>2, <2>2 DEF Calls
<1>4. r \in FrameType BY <1>3 DEF FrameType
<1>5. frames' = Append(frames, r) BY DEF Opened
<1>6. r.id = ntx + 1 /\ r.sp = arg /\ (r.nested <=> op = "savepoint") BY Zenon
<1> HIDE DEF r
<1>7. /\ frames' \in Seq(FrameType) /\ Len(frames') = Len(frames) + 1
      /\ \A i \in 1 .. Len(frames) : frames'[i] = frames[i]
      /\ frames'[Len(frames) + 1] = r
  BY <1>1, <1>4, <1>5
<1> QED BY <1>2, <1>6, <1>7

LEMMA StmtStep ==
    ASSUME TypeOK, StmtInv, DepthInv, [Next]_vars
    PROVE  StmtInv'
<1> USE DEF Over
<1>1. ASSUME NEW w \in Writes, Exec(w) PROVE StmtInv'
  <2>1. /\ at' = "exec" /\ op' = "write" /\ arg' = w /\ phase' = "probe" /\ frames' = frames
        /\ inside' = [inside EXCEPT ![w] = {0} \cup {frames[i].id : i \in DOMAIN frames}]
    BY <1>1 DEF Exec, Issue
  <2>2. inside'[w] = {0} \cup {frames[i].id : i \in DOMAIN frames} BY <2>1 DEF TypeOK
  <2> QED BY <2>1, <2>2 DEF StmtInv
<1>2. ASSUME NEW o \in ManualOps, Manual(o) PROVE StmtInv'
  BY <1>2, TxAssumption DEF Manual, Issue, StmtInv
<1>3. CASE ExecReturns BY <1>3 DEF ExecReturns, Finished, StmtInv
<1>4. CASE Throw BY <1>4 DEF Throw, StmtInv, statement
<1>5. CASE Caught BY <1>5 DEF Caught, StmtInv, statement
<1>6. CASE Transaction BY <1>6 DEF Transaction, Issue, StmtInv, client
<1>7. CASE Opened BY <1>7 DEF Opened, Finished, StmtInv
<1>8. CASE OpenFails BY <1>8 DEF OpenFails, Finished, StmtInv
<1>9. CASE BodyReturns
  <2>1. Len(frames) > 0 BY <1>9, FramesType DEF BodyReturns
  <2> QED BY <1>9, <2>1 DEF BodyReturns, Issue, StmtInv, Top
<1>10. CASE Closed BY <1>10 DEF Closed, Finished, StmtInv
<1>11. CASE BodyThrows
  <2>1. Len(frames) > 0 BY <1>11, FramesType DEF BodyThrows
  <2> QED BY <1>11, <2>1 DEF BodyThrows, Undo, Issue, StmtInv, Top
<1>12. CASE CloseFails BY <1>12 DEF CloseFails, Undo, Issue, StmtInv, Top
<1>13. CASE ReleaseUndone
  BY <1>13
     DEF ReleaseUndone, Issue, StmtInv, Top, script, client
<1>14. CASE Undone BY <1>14 DEF Undone, Finished, StmtInv
<1>15. ASSUME UNCHANGED <<script, op, arg, inside>>, phase # "none", phase' # "none",
              tx_depth' = tx_depth
       PROVE  StmtInv'
  BY <1>15 DEF StmtInv, script, Top
<1>16. CASE Client
  <2>1. UNCHANGED <<script, op, arg, inside>> /\ phase # "none" /\ phase' # "none"
        /\ tx_depth' = tx_depth
    BY <1>16
       DEF Client, ProbeFine, ProbeTxLost, ProbeReconnect, ProbeNoServer, Send,
           SendFails,
          SendAgain, Reply, ReplyLost, Fail, SendBreaks, history, client
  <2> QED BY <1>15, <2>1
<1>17. CASE Server
  <2>1. UNCHANGED <<script, op, arg, inside>> /\ phase # "none" /\ phase' # "none"
        /\ tx_depth' = tx_depth
    BY <1>17 DEF Server, SrvRefuse, SrvBegin, SrvSavepoint, SrvRelease, SrvRollbackTo,
          SrvCommit, SrvRollback, SrvWrite, SrvAccepts, Answer, history, client
  <2> QED BY <1>15, <2>1
<1>18. CASE Loss BY <1>18 DEF Loss, StmtInv, script, client, Top
<1>19. CASE UNCHANGED vars
  BY <1>19 DEF vars, client, script, statement, history, StmtInv, Top
<1> QED BY <1>1, <1>2, <1>3, <1>4, <1>5, <1>6, <1>7, <1>8, <1>9, <1>10, <1>11, <1>12,
    <1>13,
           <1>14, <1>16, <1>17, <1>18, <1>19 DEF Next, Script, Wrapper

LEMMA DepthStep ==
    ASSUME TypeOK, StmtInv, DepthInv, [Next]_vars
    PROVE  DepthInv'
<1> USE TxAssumption
<1>0. /\ tx_depth \in Int /\ ntx \in Nat /\ Len(frames) \in Nat /\ MaxTx \in Nat
      /\ MaxDepth \in Nat
  BY FramesType DEF TypeOK
<1>1. ASSUME UNCHANGED <<tx_depth, ntx, frames>>,
             at' = at \/ (at \notin {"closing", "undoing"} /\ at' \in {"script", "exec", "throwing"})
      PROVE  DepthInv'
  BY <1>0, <1>1 DEF DepthInv
<1>2. ASSUME NEW w \in Writes, Exec(w) PROVE DepthInv'
  BY <1>1, <1>2 DEF Exec, client
<1>3. ASSUME NEW o \in ManualOps, Manual(o) PROVE DepthInv'
  BY <1>1, <1>3 DEF Manual, client
<1>4. CASE ExecReturns \/ Throw \/ Caught \/ OpenFails
  BY <1>1, <1>4 DEF ExecReturns, Throw, Caught, OpenFails, client
<1>5. CASE Transaction BY <1>0, <1>5 DEF Transaction, client, DepthInv
<1>6. CASE Opened
  <2>1. Len(frames') = Len(frames) + 1 BY <1>6, OpenedEffect
  <2>2. at = "opening" /\ at' = "script" /\ tx_depth' = tx_depth + 1 /\ ntx' = ntx + 1
    BY <1>6 DEF Opened
  <2> QED BY <1>0, <2>1, <2>2 DEF DepthInv
<1>7. CASE BodyReturns
  <2>1. Len(frames) > 0 BY <1>7, FramesType DEF BodyReturns
  <2> QED BY <1>0, <1>7, <2>1 DEF BodyReturns, DepthInv
<1>8. CASE BodyThrows
  <2>1. Len(frames) > 0 BY <1>8, FramesType DEF BodyThrows
  <2> QED BY <1>0, <1>8, <2>1 DEF BodyThrows, Undo, DepthInv
<1>9. CASE CloseFails BY <1>0, <1>9 DEF CloseFails, Undo, DepthInv, StmtInv
<1>10. CASE Closed \/ Undone
  <2>1. at \in {"closing", "undoing"} /\ frames' = Pop /\ UNCHANGED <<tx_depth, ntx>>
        /\ at' \in {"script", "throwing"}
    BY <1>10 DEF Closed, Undone, client
  <2>2. Len(frames) > 0 BY <2>1 DEF StmtInv
  <2>3. Len(frames') = Len(frames) - 1 BY <2>1, <2>2, PopEffect
  <2> QED BY <1>0, <2>1, <2>2, <2>3 DEF DepthInv
<1>11. CASE ReleaseUndone BY <1>1, <1>11 DEF ReleaseUndone, client, script
<1>12. CASE Client \/ Server \/ Loss
  <2>1. UNCHANGED <<tx_depth, script>>
    BY <1>12
       DEF Client, ProbeFine, ProbeTxLost, ProbeReconnect, ProbeNoServer, Send,
           SendFails,
          SendAgain, Reply, ReplyLost, Server, SrvRefuse, SrvBegin, SrvSavepoint, SrvRelease,
          SrvRollbackTo, SrvCommit, SrvRollback, SrvWrite, Answer, Loss, client
  <2> QED BY <1>1, <2>1 DEF script
<1>13. CASE UNCHANGED vars BY <1>1, <1>13 DEF vars, client, script
<1> QED BY <1>2, <1>3, <1>4, <1>5, <1>6, <1>7, <1>8, <1>9, <1>10, <1>11, <1>12, <1>13
        DEF Next, Script, Wrapper

LEMMA TypeStep ==
    ASSUME TypeOK, StmtInv, DepthInv, DepthInv', [Next]_vars
    PROVE  TypeOK'
<1> USE TxAssumption DEF Over, ControlOps
<1>0. /\ tx_depth \in Int /\ ntx \in Nat /\ ntx <= MaxTx /\ Len(frames) \in Nat
      /\ MaxTx \in Nat /\ MaxDepth \in Nat
  BY FramesType DEF TypeOK
<1>t. ASSUME tx_depth' \in Int, ntx' \in 0 .. MaxTx, Len(frames') \in Nat
      PROVE  tx_depth' \in (-MaxTx) .. MaxDepth
  <2>1. tx_depth' <= Len(frames') /\ Len(frames') <= MaxDepth BY <1>0, <1>t DEF DepthInv
  <2>2. tx_depth' >= 0 - ntx'
    <3>1. CASE at' \notin {"closing", "undoing"} BY <1>t, <3>1 DEF DepthInv
    <3>2. CASE at' \in {"closing", "undoing"}
      <4>1. Len(frames') > 0
        BY <1>t, <3>2, StmtStep DEF StmtInv
      <4> QED BY <1>t, <3>2, <4>1 DEF DepthInv
    <3> QED BY <3>1, <3>2
  <2>3. tx_depth' <= MaxDepth BY <1>0, <1>t, <2>1
  <2>4. \A d \in Int, m \in 0 .. MaxTx : d <= MaxDepth /\ d >= 0 - m => d \in (-MaxTx) .. MaxDepth
    BY <1>0
  <2> QED BY <1>t, <2>2, <2>3, <2>4
<1>f. frames' = frames => Len(frames') \in Nat BY <1>0
\* The client and the server leave the script alone, and the script them.
<1>1. ASSUME NEW w \in Writes, Exec(w) PROVE TypeOK'
  <2>1. {0} \cup {frames[i].id : i \in DOMAIN frames} \in SUBSET (0 .. MaxTx)
    BY <1>0, FramesType DEF Calls
  <2>2. inside' \in [Writes -> SUBSET (0 .. MaxTx)] BY <1>1, <2>1 DEF Exec, TypeOK
  <2> QED BY <1>1, <2>2 DEF Exec, Issue, client, server, TypeOK
<1>2. ASSUME NEW o \in ManualOps, Manual(o) PROVE TypeOK'
  BY <1>2 DEF Manual, Issue, client, server, TypeOK
<1>3. CASE ExecReturns
  <2>1. acked' \subseteq Writes BY <1>3 DEF ExecReturns, StmtInv, TypeOK
  <2> QED BY <1>3, <2>1 DEF ExecReturns, Finished, client, server, TypeOK
<1>4. CASE Throw \/ Caught
  <2>1. at' \in {"script", "throwing"}
        /\ UNCHANGED <<client, frames, ntx, statement, server, runs, inside, acked, outcome,
                       losses, flat>>
        /\ adrift' \in BOOLEAN
    BY <1>4 DEF Throw, Caught, history, TypeOK
  <2> QED BY <2>1 DEF client, statement, server, TypeOK
<1>5. CASE Transaction
  <2>1. (IF tx_depth > 0 THEN tx_depth ELSE 0) \in Nat BY <1>0
  <2>2. arg' \in Nat /\ op' \in {"savepoint", "begin"} /\ phase' = "probe"
    BY <1>5, <2>1 DEF Transaction, Issue
  <2> QED BY <1>5, <2>2 DEF Transaction, client, server, history, TypeOK
<1>6. CASE Opened
  <2>1. frames' \in Seq(FrameType) /\ Len(frames') = Len(frames) + 1 /\ ntx < MaxTx
    BY <1>6, OpenedEffect
  <2>2. ntx' = ntx + 1 /\ tx_depth' = tx_depth + 1 BY <1>6 DEF Opened
  <2>3. tx_depth' \in (-MaxTx) .. MaxDepth /\ ntx' \in 0 .. MaxTx
    BY <1>0, <1>t, <2>1, <2>2
  <2>4. outcome' \in [Calls -> {"none", "open", "returned", "threw", "unsure"}]
    BY <1>6 DEF Opened, TypeOK
  <2> QED BY <1>6, <2>1, <2>3, <2>4 DEF Opened, Finished, server, TypeOK, FrameType
<1>7. CASE OpenFails
  BY <1>7 DEF OpenFails, Finished, client, server, history, TypeOK
<1>8. CASE BodyReturns
  <2>1. tx_depth' \in (-MaxTx) .. MaxDepth
    BY <1>0, <1>f, <1>t, <1>8 DEF BodyReturns
  <2>2. Top.sp \in Nat BY <1>8, FramesType DEF BodyReturns, Top
  <2>3. arg' \in Nat /\ op' \in {"release", "commit"} /\ phase' = "probe"
    BY <1>8, <2>2 DEF BodyReturns, Issue
  <2> QED BY <1>8, <2>1, <2>3 DEF BodyReturns, server, history, TypeOK
<1>9. CASE Closed \/ Undone
  <2>1. at \in {"closing", "undoing"} /\ frames' = Pop BY <1>9 DEF Closed, Undone
  <2>2. frames' \in Seq(FrameType) BY <2>1, PopEffect DEF StmtInv
  <2>3. outcome' \in [Calls -> {"none", "open", "returned", "threw", "unsure"}]
    BY <1>9 DEF Closed, Undone, history, TypeOK
  <2> QED BY <1>9, <2>2, <2>3
      DEF Closed, Undone, Finished, client, server, history, TypeOK,
            FrameType
<1>10. CASE BodyThrows \/ CloseFails
  <2>0. Len(frames) > 0 BY <1>10, FramesType DEF BodyThrows, CloseFails, StmtInv
  <2>1. tx_depth' \in (-MaxTx) .. MaxDepth
    BY <1>0, <1>f, <1>t, <1>10 DEF BodyThrows, CloseFails
  <2>2. Top.sp \in Nat BY <2>0, FramesType DEF Top
  <2>3. arg' \in Nat /\ op' \in {"rollback_to", "rollback"} /\ phase' = "probe" /\ at' = "undoing"
    BY <1>10, <2>2 DEF BodyThrows, CloseFails, Undo, Issue
  <2>4. outcome' \in [Calls -> {"none", "open", "returned", "threw", "unsure"}]
    BY <1>10 DEF BodyThrows, CloseFails, TypeOK
  <2> QED BY <1>10, <2>1, <2>3, <2>4 DEF BodyThrows, CloseFails, server, TypeOK
<1>11. CASE ReleaseUndone
  <2>1. Top.sp \in Nat BY <1>11, FramesType DEF ReleaseUndone, Top, StmtInv
  <2> QED BY <1>11, <2>1
      DEF ReleaseUndone, Issue, client, script, server, history, TypeOK
<1>12. CASE Client
  <2>0. <<>> \in Seq([sp : Nat, ws : SUBSET Writes]) OBVIOUS
  <2>1. UNCHANGED <<driver, tx_depth, script, op, arg, committed, history>>
    BY <1>12
       DEF Client, ProbeFine, ProbeTxLost, ProbeReconnect, ProbeNoServer, Send,
           SendFails,
          SendAgain, Reply, ReplyLost, Fail, client, server
  <2>2. /\ sock' \in BOOLEAN /\ in_txn' \in BOOLEAN /\ up' \in BOOLEAN /\ aborted' \in BOOLEAN
        /\ levels' \in Seq([sp : Nat, ws : SUBSET Writes])
    <3>1. CASE ProbeReconnect \/ SendAgain
      BY <2>0, <3>1 DEF ProbeReconnect, SendAgain, FreshSession
    <3>2. CASE ProbeFine \/ ProbeTxLost \/ ProbeNoServer \/ Send \/ SendFails \/ ReplyLost
      BY <3>2
         DEF ProbeFine, ProbeTxLost, ProbeNoServer, Send, SendFails, ReplyLost, client,
            server, TypeOK
    <3>3. CASE Reply
      BY <3>3 DEF Reply, MySqlStatus, PgStatus, server, TypeOK
    <3> QED BY <1>12, <3>1, <3>2, <3>3 DEF Client
  <2>3. phase' \in Over \cup {"send", "server", "reply_ok"}
    BY <1>12
       DEF Client, ProbeFine, ProbeTxLost, ProbeReconnect, ProbeNoServer, Send,
           SendFails,
          SendAgain, Reply, ReplyLost, Fail
  <2> QED BY <2>1, <2>2, <2>3 DEF script, history, TypeOK
<1>13. CASE Server
  <2>0. phase = "server" /\ up
    BY <1>13
       DEF Server, SrvRefuse, SrvBegin, SrvSavepoint, SrvRelease,
          SrvRollbackTo, SrvCommit, SrvRollback, SrvWrite, SrvAccepts
  <2>1. UNCHANGED <<client, script, op, arg, up, inside, acked, outcome, losses, flat, adrift>>
    BY <1>13 DEF Server, SrvRefuse, SrvBegin, SrvSavepoint, SrvRelease,
          SrvRollbackTo, SrvCommit, SrvRollback, SrvWrite, Answer, history
  <2>2. phase' \in {"reply_ok", "reply_error"} /\ aborted' \in BOOLEAN
    BY <1>13 DEF Server, SrvRefuse, SrvBegin, SrvSavepoint, SrvRelease,
          SrvRollbackTo, SrvCommit, SrvRollback, SrvWrite, Answer, TypeOK
  <2>3. levels' \in Seq(LevelType)
    <3>0. levels \in Seq(LevelType) /\ <<>> \in Seq(LevelType) BY LevelsType
    <3>1. CASE SrvRefuse \/ SrvCommit \/ SrvRollback
      BY <3>0, <3>1 DEF SrvRefuse, SrvCommit, SrvRollback, Answer
    <3>2. CASE SrvBegin
      <4>1. <<Level(0)>> \in Seq(LevelType) BY DEF Level, LevelType
      <4> QED BY <3>0, <3>2, <4>1 DEF SrvBegin, Answer
    <3>3. CASE SrvSavepoint
      <4>1. arg \in Nat /\ at = "opening"
        <5>1. at \in {"script", "exec", "opening", "closing", "undoing", "throwing"}
              /\ op = "savepoint"
          BY <3>3 DEF SrvSavepoint, TypeOK
        <5>2. at = "opening" BY <2>0, <5>1 DEF StmtInv
        <5> QED BY <1>0, <5>1, <5>2 DEF StmtInv
      <4>2. <<Level(arg), Level(arg)>> \in Seq(LevelType) BY <4>1 DEF Level, LevelType
      <4>3. Append(levels, Level(arg)) \in Seq(LevelType)
        BY <3>0, <4>1 DEF Level, LevelType
      <4> QED BY <3>0, <3>3, <4>2, <4>3 DEF SrvSavepoint, Answer
    <3>4. CASE SrvRelease
      <4>1. CASE Began BY <3>0, <3>4, <4>1, BeganEffect
      <4>2. CASE ~Began BY <3>4, <4>2, ReleaseEffect
      <4> QED BY <4>1, <4>2
    <3>5. CASE SrvRollbackTo BY <3>5, RollbackToEffect
    <3>6. CASE SrvWrite
      <4>1. arg \in Writes BY <3>6 DEF SrvWrite, StmtInv
      <4>2. CASE ~InTx BY <3>0, <3>6, <4>2 DEF SrvWrite, Answer
      <4>3. CASE InTx
        <5>1. levels' = [levels EXCEPT ![Len(levels)].ws = @ \cup {arg}] /\ levels # <<>>
          BY <3>6, <4>3 DEF SrvWrite, Answer, InTx
        <5> QED BY <4>1, <5>1, WriteEffect
      <4> QED BY <4>2, <4>3
    <3> QED BY <1>13, <3>1, <3>2, <3>3, <3>4, <3>5, <3>6 DEF Server
  <2>4. committed' \subseteq Writes
    <3>1. Pending \subseteq Writes BY LevelsType
    <3>2. op = "write" => arg \in Writes BY DEF StmtInv
    <3> QED BY <1>13, <3>1, <3>2
        DEF Server, SrvRefuse, SrvBegin, SrvSavepoint, SrvRelease,
            SrvRollbackTo, SrvCommit, SrvRollback, SrvWrite, Answer, TypeOK
  <2>5. runs' \in [Writes -> Nat]
    <3>1. CASE SrvWrite
      <4>1. arg \in Writes /\ runs' = [runs EXCEPT ![arg] = @ + 1]
        BY <3>1 DEF SrvWrite, StmtInv
      <4> QED BY <4>1 DEF TypeOK
    <3>2. CASE ~SrvWrite
      BY <1>13, <3>2 DEF Server, SrvRefuse, SrvBegin, SrvSavepoint, SrvRelease,
            SrvRollbackTo, SrvCommit, SrvRollback, history, TypeOK
    <3> QED BY <3>1, <3>2
  <2> QED BY <2>1, <2>2, <2>3, <2>4, <2>5 DEF client, script, TypeOK, LevelType
<1>14. CASE Loss
  <2>0. <<>> \in Seq([sp : Nat, ws : SUBSET Writes]) OBVIOUS
  <2>1. losses' \in 0 .. MaxLosses BY <1>14 DEF Loss, TypeOK
  <2> QED BY <1>14, <2>0, <2>1 DEF Loss, client, script, TypeOK
<1>15. CASE UNCHANGED vars
  BY <1>15 DEF vars, client, script, statement, server, history, TypeOK
<1> QED BY <1>1, <1>2, <1>3, <1>4, <1>5, <1>6, <1>7, <1>8, <1>9, <1>10, <1>11, <1>12,
    <1>13,
           <1>14, <1>15 DEF Next, Script, Wrapper

LEMMA OnceStep ==
    ASSUME TypeOK, StmtInv, [Next]_vars, NEW w \in Writes, OnceInv(w)
    PROVE  OnceInv(w)'
<1> USE DEF Over
<1>1. ASSUME NEW v \in Writes, Exec(v) PROVE OnceInv(w)'
  BY <1>1 DEF Exec, Issue, OnceInv
<1>2. ASSUME runs' = runs, op' # "write" PROVE OnceInv(w)' BY <1>2 DEF OnceInv
<1>3. ASSUME NEW o \in ManualOps, Manual(o) PROVE OnceInv(w)'
  BY <1>2, <1>3, TxAssumption DEF Manual, Issue
<1>4. CASE ExecReturns \/ Throw \/ Caught
  BY <1>2, <1>4 DEF ExecReturns, Throw, Caught, Finished, StmtInv, statement, history
<1>5. CASE Wrapper
  BY <1>2, <1>5
     DEF Wrapper, Transaction, Opened, OpenFails, BodyReturns, Closed, BodyThrows,
        CloseFails, ReleaseUndone, Undone, Undo, Issue, Finished, history
<1>6. CASE Client
  BY <1>6
     DEF Client, ProbeFine, ProbeTxLost, ProbeReconnect, ProbeNoServer, Send, SendFails,
        SendAgain, SendBreaks, Reply, ReplyLost, Fail, history, OnceInv
<1>7. CASE SrvWrite
  <2>1. arg \in Writes /\ runs' = [runs EXCEPT ![arg] = @ + 1] /\ phase' = "reply_ok"
        /\ phase = "server" /\ op = "write"
    BY <1>7 DEF SrvWrite, SrvAccepts, Answer, StmtInv
  <2> QED BY <2>1 DEF OnceInv, TypeOK
<1>8. CASE Server /\ ~SrvWrite
  BY <1>8
     DEF Server, SrvRefuse, SrvBegin, SrvSavepoint, SrvRelease, SrvRollbackTo,
         SrvCommit,
        SrvRollback, Answer, history, OnceInv
<1>9. CASE Loss BY <1>9 DEF Loss, OnceInv
<1>10. CASE UNCHANGED vars BY <1>10 DEF vars, statement, history, OnceInv
<1> QED BY <1>1, <1>3, <1>4, <1>5, <1>6, <1>7, <1>8, <1>9, <1>10 DEF Next, Script

-----------------------------------------------------------------------------
(***************************************************************************)
(* The calls on the stack.                                                 *)
(***************************************************************************)

\* Their ids rise, none but the one that is being undone has an outcome, and
\* the outermost one began with BEGIN.
StackInv ==
    /\ \A i \in 1 .. Len(frames) : frames[i].id \in 1 .. ntx
    /\ \A i, j \in 1 .. Len(frames) : i < j => frames[i].id < frames[j].id
    /\ \A i \in 1 .. Len(frames) : \/ outcome[frames[i].id] = "open"
                                   \/ i = Len(frames) /\ at = "undoing"
    /\ at = "undoing" => outcome[Top.id] \in {"threw", "unsure"}
    /\ Len(frames) > 0 => ~frames[1].nested
    /\ \A w \in Writes : inside[w] \subseteq 0 .. ntx

LEMMA StackStep ==
    ASSUME TypeOK, StmtInv, DepthInv, StackInv, [Next]_vars
    PROVE  StackInv'
<1> USE TxAssumption
<1>0. ntx \in Nat /\ Len(frames) \in Nat BY FramesType DEF TypeOK
<1>1. ASSUME UNCHANGED <<frames, ntx, outcome, inside>>,
             at' = at \/ (at # "undoing" /\ at' # "undoing")
      PROVE  StackInv'
  BY <1>1 DEF StackInv, Top
<1>2. ASSUME NEW w \in Writes, Exec(w) PROVE StackInv'
  <2>0. \A i \in DOMAIN frames : frames[i].id \in 1 .. ntx BY FramesType DEF StackInv
  <2>1. {0} \cup {frames[i].id : i \in DOMAIN frames} \subseteq 0 .. ntx BY <1>0, <2>0
  <2>2. \A v \in Writes : inside'[v] \subseteq 0 .. ntx
    BY <1>2, <2>1 DEF Exec, TypeOK, StackInv
  <2> QED BY <1>2, <2>2 DEF Exec, StackInv, Top
<1>3. ASSUME NEW o \in ManualOps, Manual(o) PROVE StackInv' BY <1>1, <1>3 DEF Manual
<1>4. CASE ExecReturns \/ Throw \/ Caught \/ Transaction \/ OpenFails \/ BodyReturns
  BY <1>1, <1>4
     DEF ExecReturns, Throw, Caught, Transaction, OpenFails, BodyReturns, history
<1>5. CASE Opened
  <2>1. /\ Len(frames') = Len(frames) + 1 /\ ntx < MaxTx
        /\ \A i \in 1 .. Len(frames) : frames'[i] = frames[i]
        /\ frames'[Len(frames) + 1].id = ntx + 1
        /\ frames'[Len(frames) + 1].nested <=> op = "savepoint"
    BY <1>5, OpenedEffect
  <2>2. ntx' = ntx + 1 /\ at' = "script" /\ inside' = inside
        /\ outcome' = [outcome EXCEPT ![ntx + 1] = "open"]
    BY <1>5 DEF Opened
  <2>3. ntx + 1 \in Calls BY <1>0, <2>1 DEF Calls
  <2>4. \A i \in 1 .. Len(frames) : frames[i].id \in 1 .. ntx /\ outcome[frames[i].id] = "open"
    BY <1>5 DEF StackInv, Opened
  <2>5. ASSUME NEW i \in 1 .. Len(frames')
        PROVE  frames'[i].id \in 1 .. ntx' /\ outcome'[frames'[i].id] = "open"
    <3>1. CASE i \in 1 .. Len(frames)
      <4>1. frames'[i].id = frames[i].id /\ frames[i].id \in 1 .. ntx /\ frames[i].id # ntx + 1
            /\ outcome[frames[i].id] = "open"
        BY <1>0, <2>1, <2>4, <3>1
      <4>2. frames[i].id \in Calls BY <1>0, <2>1, <4>1 DEF Calls
      <4> QED BY <1>0, <2>2, <4>1, <4>2 DEF TypeOK
    <3>2. CASE i = Len(frames) + 1 BY <1>0, <2>1, <2>2, <2>3, <3>2 DEF TypeOK
    <3> QED BY <1>0, <2>1, <3>1, <3>2
  <2>6. \A i, j \in 1 .. Len(frames') : i < j => frames'[i].id < frames'[j].id
    BY <1>0, <2>1, <2>4 DEF StackInv
  <2>7. ~frames'[1].nested
    <3>1. CASE Len(frames) > 0 BY <1>0, <2>1, <3>1 DEF StackInv
    <3>2. CASE Len(frames) = 0
      <4>1. tx_depth <= 0 /\ tx_depth \in Int
        BY <1>0, <1>5, <3>2
           DEF DepthInv, TypeOK, Opened
      <4>2. op = "begin" BY <1>5, <4>1 DEF StmtInv, Opened
      <4> QED BY <2>1, <3>2, <4>2
    <3> QED BY <1>0, <3>1, <3>2
  <2>8. \A w \in Writes : inside'[w] \subseteq 0 .. ntx' BY <1>0, <2>2 DEF StackInv
  <2> QED BY <2>2, <2>5, <2>6, <2>7, <2>8 DEF StackInv
<1>6. CASE Closed \/ Undone
  <2>0. Len(frames) > 0 BY <1>6 DEF Closed, Undone, StmtInv
  <2>1. /\ Len(frames') = Len(frames) - 1
        /\ \A i \in 1 .. Len(frames) - 1 : frames'[i] = frames[i]
    BY <1>6, <2>0, PopEffect DEF Closed, Undone
  <2>2. UNCHANGED <<ntx, inside>> /\ at' \in {"script", "throwing"}
    BY <1>6 DEF Closed, Undone, history
  <2>3. ASSUME NEW i \in 1 .. Len(frames) - 1 PROVE outcome'[frames[i].id] = "open"
    <3>1. outcome[frames[i].id] = "open" /\ frames[i].id # Top.id
      BY <1>0, <2>0 DEF StackInv, Top
    <3>2. frames[i].id \in Calls BY <1>0, FramesType
    <3> QED BY <1>6, <3>1, <3>2 DEF Closed, Undone, history, TypeOK
  <2> QED BY <1>0, <2>0, <2>1, <2>2, <2>3 DEF StackInv
<1>7. CASE BodyThrows \/ CloseFails
  <2>0. Len(frames) > 0 BY <1>7, FramesType DEF BodyThrows, CloseFails, StmtInv
  <2>1. /\ UNCHANGED <<frames, ntx, inside>> /\ at' = "undoing"
        /\ \E o \in {"threw", "unsure"} : outcome' = [outcome EXCEPT ![Top.id] = o]
    BY <1>7 DEF BodyThrows, CloseFails, Undo
  <2>2. ASSUME NEW i \in 1 .. Len(frames), i # Len(frames) PROVE outcome'[frames[i].id] = "open"
    <3>1. outcome[frames[i].id] = "open" /\ frames[i].id # Top.id
      BY <1>0, <2>0, <2>2 DEF StackInv, Top
    <3>2. frames[i].id \in Calls BY <1>0, FramesType
    <3> QED BY <2>1, <3>1, <3>2 DEF TypeOK
  <2>3. Top.id \in Calls BY <1>0, <2>0, FramesType DEF Top
  <2>4. outcome'[Top.id] \in {"threw", "unsure"} BY <2>1, <2>3 DEF TypeOK
  <2> QED BY <2>1, <2>2, <2>4 DEF StackInv, Top
<1>8. CASE ReleaseUndone \/ Client \/ Server \/ Loss
  <2>1. UNCHANGED <<script, outcome, inside>>
    BY <1>8
       DEF ReleaseUndone, Client, ProbeFine, ProbeTxLost, ProbeReconnect, ProbeNoServer,
          Send, SendFails, SendAgain, Reply, ReplyLost, Server, SrvRefuse, SrvBegin,
          SrvSavepoint, SrvRelease, SrvRollbackTo, SrvCommit, SrvRollback, SrvWrite, Answer,
          Loss, history
  <2> QED BY <1>1, <2>1 DEF script
<1>9. CASE UNCHANGED vars BY <1>1, <1>9 DEF vars, script, history
<1> QED BY <1>2, <1>3, <1>4, <1>5, <1>6, <1>7, <1>8, <1>9 DEF Next, Script, Wrapper

(***************************************************************************)
(* What holds of every database and every script.                          *)
(***************************************************************************)
CallInv ==
    TypeOK /\ StmtInv /\ DepthInv /\ StackInv /\ \A w \in Writes : OnceInv(w)

LEMMA CallInit == Init => CallInv
<1> SUFFICES ASSUME Init PROVE CallInv OBVIOUS
<1> USE TxAssumption DEF Init
<1>1. frames \in Seq([id : Calls, nested : BOOLEAN, sp : Nat]) /\ Len(frames) = 0 OBVIOUS
<1>2. levels \in Seq([sp : Nat, ws : SUBSET Writes]) OBVIOUS
<1>3. 0 \in (-MaxTx) .. MaxDepth
  <2>1. \A m \in Nat, d \in Nat : 0 \in (-m) .. d OBVIOUS
  <2> QED BY <2>1
<1>4. TypeOK
  <2>1. /\ runs \in [Writes -> Nat] /\ inside \in [Writes -> SUBSET (0 .. MaxTx)]
        /\ outcome \in [Calls -> {"none", "open", "returned", "threw", "unsure"}]
    OBVIOUS
  <2>2. ntx \in 0 .. MaxTx /\ losses \in 0 .. MaxLosses OBVIOUS
  <2>3. tx_depth \in (-MaxTx) .. MaxDepth BY <1>3
  <2>4. /\ driver \in Drivers /\ sock \in BOOLEAN /\ in_txn \in BOOLEAN /\ flat \in BOOLEAN
        /\ up \in BOOLEAN /\ aborted \in BOOLEAN /\ adrift \in BOOLEAN
    OBVIOUS
  <2>5. /\ at \in {"script", "exec", "opening", "closing", "undoing", "throwing"}
        /\ op \in ControlOps \cup {"none", "write"} /\ arg \in Nat \cup Writes
        /\ phase \in Over \cup {"none", "probe", "send", "server", "reply_ok", "reply_error"}
        /\ committed \subseteq Writes /\ acked \subseteq Writes
    OBVIOUS
  <2> HIDE DEF Init
  <2> QED BY <1>1, <1>2, <2>1, <2>2, <2>3, <2>4, <2>5 DEF TypeOK
<1>5. StmtInv BY <1>1 DEF StmtInv
<1>6. DepthInv BY <1>1 DEF DepthInv
<1>7. StackInv BY <1>1 DEF StackInv
<1>8. \A w \in Writes : OnceInv(w) BY DEF OnceInv
<1> QED BY <1>4, <1>5, <1>6, <1>7, <1>8 DEF CallInv

LEMMA CallStep == CallInv /\ [Next]_vars => CallInv'
<1> SUFFICES ASSUME CallInv, [Next]_vars PROVE CallInv' OBVIOUS
<1>1. TypeOK /\ StmtInv /\ DepthInv /\ StackInv BY DEF CallInv
<1>2. StmtInv' BY <1>1, StmtStep
<1>3. DepthInv' BY <1>1, DepthStep
<1>4. TypeOK' BY <1>1, <1>3, TypeStep
<1>5. StackInv' BY <1>1, StackStep
<1>6. ASSUME NEW w \in Writes PROVE OnceInv(w)' BY <1>1, OnceStep DEF CallInv
<1> QED BY <1>2, <1>3, <1>4, <1>5, <1>6 DEF CallInv

LEMMA CallInvariant == Spec => []CallInv
BY CallInit, CallStep, PTL DEF Spec

\* Every variable keeps its type; tx_depth stays between minus the number of
\* calls and the deepest nesting, whatever fails.
THEOREM TxTypeCorrect == Spec => []TypeOK
<1>1. CallInv => TypeOK BY DEF CallInv
<1> QED BY <1>1, CallInvariant, PTL

\* On every database and wherever the link breaks, no write is run twice:
\* what has been sent is sent again only where it cannot have been run.
THEOREM RunAtMostOnce == Spec => []AtMostOnce
<1>1. CallInv => AtMostOnce BY DEF CallInv, OnceInv, AtMostOnce
<1> QED BY <1>1, CallInvariant, PTL

-----------------------------------------------------------------------------
(***************************************************************************)
(* SQLite and PostgreSQL, and a server that refuses the statements that    *)
(* end a transaction only when there is none.  Scripts catch what they     *)
(* like.                                                                   *)
(***************************************************************************)
Dependable ==
    /\ Drivers \subseteq {"sqlite", "postgres"}
    /\ FailOps \cap {"commit", "rollback", "release", "rollback_to"} = {}

Pg == driver = "postgres"
Nest == Len(frames)
Height == Len(levels)
Answered == phase \in {"reply_ok", "reply_error"}

\* The link: what the client believes of it and of the transaction.
LinkInv ==
    /\ up => sock
    /\ ~up => levels = <<>> /\ ~aborted
    /\ phase = "server" => up
    /\ phase = "unanswered" => ~up
    /\ ~Pg => up /\ ~in_txn /\ losses = 0
    /\ Pg /\ up /\ phase # "server" /\ ~Answered => (in_txn <=> levels # <<>>)
    /\ losses = 0 => up
    /\ aborted => \/ Pg /\ Nest = 0
                  \/ Pg /\ at \in {"throwing", "undoing"}
                  \/ Pg /\ phase \in {"reply_error", "error"}
                  \/ Pg /\ adrift
    /\ phase \in {"reply_ok", "ok"} /\ op \in {"begin", "savepoint"} => ~aborted

\* An open transaction that has nobody to close it does not exist.
BaseInv ==
    /\ ~flat /\ Nest = 0 /\ ~(at = "opening" /\ phase \in {"reply_ok", "ok"}) => levels = <<>>
    /\ at = "undoing" /\ op = "rollback" /\ (phase \in Over \/ Answered) => levels = <<>>
    /\ op = "commit" /\ phase \in {"reply_ok", "ok"} => levels = <<>>
    /\ Pg /\ op = "commit" /\ phase = "ok" => ~in_txn
    /\ at = "exec" /\ op # "write" => flat

LEMMA DriverIs ==
    ASSUME Dependable, TypeOK
    PROVE  /\ Pg <=> driver # "sqlite"
           /\ driver # "mysql" /\ (driver = "sqlite" \/ driver = "postgres")
BY DEF Dependable, TypeOK, Pg

LEMMA LinkStep ==
    ASSUME Dependable, TypeOK, StmtInv, DepthInv, LinkInv, [Next]_vars
    PROVE  LinkInv'
<1> USE DEF Over, Answered, Nest
<1>0. /\ Pg <=> driver # "sqlite"
      /\ driver # "mysql" /\ (driver = "sqlite" \/ driver = "postgres")
  BY DriverIs
<1>a. Len(frames) \in Nat /\ (frames = <<>> <=> Len(frames) = 0) BY FramesType
<1>b. /\ in_txn \in BOOLEAN /\ up \in BOOLEAN /\ sock \in BOOLEAN /\ aborted \in BOOLEAN
      /\ at \in {"script", "exec", "opening", "closing", "undoing", "throwing"}
      /\ losses \in Nat /\ adrift \in BOOLEAN
  BY TxAssumption DEF TypeOK
<1>1. ASSUME NEW w \in Writes, Exec(w) PROVE LinkInv'
  BY <1>1 DEF Exec, Issue, client, server, LinkInv, Pg, StmtInv
<1>2. ASSUME NEW o \in ManualOps, Manual(o) PROVE LinkInv'
  BY <1>2 DEF Manual, Issue, client, server, LinkInv, Pg, StmtInv
<1>3. CASE ExecReturns
  BY <1>3, <1>b DEF ExecReturns, Finished, client, server, LinkInv, Pg, StmtInv
<1>4. CASE Throw \/ Caught
  <2>1. /\ at = "throwing" \/ at' = "throwing"
        /\ UNCHANGED <<client, frames, statement, server, losses>>
        /\ adrift => adrift'
        /\ at # "throwing" => adrift' = adrift
        /\ at = "throwing" => frames = <<>> \/ ~aborted \/ adrift'
    BY <1>4, <1>b DEF Throw, Caught, history
  <2>2. aborted => Pg BY DEF LinkInv
  <2> QED BY <1>0, <1>a, <1>b, <2>1, <2>2 DEF client, server, statement, LinkInv, Pg
<1>5. CASE Transaction \/ OpenFails \/ BodyReturns \/ BodyThrows \/ CloseFails \/ ReleaseUndone
  BY <1>5, <1>b DEF Transaction, OpenFails, BodyReturns, BodyThrows, CloseFails, Undo,
        ReleaseUndone, Issue, Finished, client, script, server, history, LinkInv, Pg, StmtInv
<1>6. CASE Opened
  <2>1. ~aborted BY <1>6, <1>b DEF Opened, LinkInv, StmtInv
  <2> QED BY <1>6, <1>b, <2>1 DEF Opened, Finished, server, LinkInv, Pg
<1>7. CASE Closed
  <2>1. aborted => Pg /\ adrift BY <1>7, <1>a, <1>b DEF Closed, LinkInv, StmtInv
  <2> QED BY <1>7, <1>b, <2>1 DEF Closed, Finished, client, server, LinkInv, Pg
<1>8. CASE Undone
  BY <1>8, <1>b DEF Undone, Finished, client, server, history, LinkInv, Pg
<1>9. CASE Client
  <2>1. CASE ProbeFine \/ ProbeTxLost \/ ProbeNoServer
    BY <1>0, <1>b, <2>1
       DEF ProbeFine, ProbeTxLost, ProbeNoServer, Unusable, Fail, client, script,
          server, history, LinkInv, Pg
  <2>2. CASE ProbeReconnect \/ SendAgain
    BY <1>0, <1>b, <2>2
       DEF ProbeReconnect, SendAgain, SendBreaks, Resends, MayReplace, Unusable,
          FreshSession, script, history, LinkInv, Pg
  <2>3. CASE Send \/ SendFails
    BY <1>0, <1>b, <2>3 DEF Send, SendFails, SendBreaks, Fail, client, script,
          server, history, LinkInv, Pg
  <2>4. CASE Reply
    BY <1>0, <1>b, <2>4 DEF Reply, PgStatus, script, server, history, LinkInv, Pg
  <2>5. CASE ReplyLost
    BY <1>0, <1>b, <2>5 DEF ReplyLost, Fail, script, server, history, LinkInv, Pg
  <2> QED BY <1>9, <2>1, <2>2, <2>3, <2>4, <2>5 DEF Client
<1>10. CASE Server
  <2>1. CASE SrvRefuse
    BY <1>0, <1>b, <2>1 DEF SrvRefuse, client, script, history, LinkInv, Pg
  <2>2. CASE ~SrvRefuse
    <3>1. /\ phase = "server" /\ up /\ ~Refused /\ phase' = "reply_ok"
          /\ aborted' = (aborted /\ op \notin {"commit", "rollback", "rollback_to"})
          /\ UNCHANGED <<client, script, op, arg, up, losses>>
      BY <1>10, <2>2
         DEF Server, SrvBegin, SrvSavepoint, SrvRelease, SrvRollbackTo, SrvCommit,
            SrvRollback, SrvWrite, SrvAccepts, Answer
    <3> QED BY <1>0, <1>b, <3>1 DEF client, script, Refused, LinkInv, Pg
  <2> QED BY <2>1, <2>2
<1>11. CASE Loss
  BY <1>0, <1>b, <1>11 DEF Loss, client, script, LinkInv, Pg
<1>12. CASE UNCHANGED vars
  BY <1>12 DEF vars, client, script, statement, server, history, LinkInv, Pg
<1> QED BY <1>1, <1>2, <1>3, <1>4, <1>5, <1>6, <1>7, <1>8, <1>9, <1>10, <1>11, <1>12
           DEF Next, Script, Wrapper

LEMMA BaseStep ==
    ASSUME Dependable, TypeOK, StmtInv, DepthInv, StackInv, LinkInv, BaseInv, [Next]_vars
    PROVE  BaseInv'
<1> USE DEF Over, Answered, Nest
<1>0. /\ Pg <=> driver # "sqlite"
      /\ driver # "mysql" /\ (driver = "sqlite" \/ driver = "postgres")
  BY DriverIs
<1>a. Len(frames) \in Nat /\ (frames = <<>> <=> Len(frames) = 0) BY FramesType
<1>b. /\ in_txn \in BOOLEAN /\ up \in BOOLEAN /\ sock \in BOOLEAN /\ flat \in BOOLEAN
      /\ at \in {"script", "exec", "opening", "closing", "undoing", "throwing"}
  BY DEF TypeOK
<1>c. tx_depth \in Int /\ (Nest = 0 => ~(tx_depth > 0))
  BY <1>a, TxAssumption DEF DepthInv, TypeOK
<1>1. ASSUME NEW w \in Writes, Exec(w) PROVE BaseInv'
  BY <1>1 DEF Exec, Issue, client, server, BaseInv, StmtInv
<1>2. ASSUME NEW o \in ManualOps, Manual(o) PROVE BaseInv'
  BY <1>2 DEF Manual, Issue, client, server, BaseInv, StmtInv
<1>3. CASE ExecReturns \/ Throw \/ Caught
  BY <1>3, <1>b
     DEF ExecReturns, Throw, Caught, Finished, client, server, statement, history,
        BaseInv, StmtInv
<1>4. CASE Transaction \/ BodyReturns \/ BodyThrows \/ CloseFails \/ ReleaseUndone
  BY <1>4, <1>b DEF Transaction, BodyReturns, BodyThrows, CloseFails, Undo,
        ReleaseUndone, Issue, client, script, server, history, BaseInv, StmtInv
<1>5. CASE OpenFails
  BY <1>5, <1>b DEF OpenFails, Finished, client, server, history, BaseInv, StmtInv
<1>6. CASE Opened
  <2>1. Len(frames') = Len(frames) + 1 BY <1>6, OpenedEffect
  <2>2. Len(frames') # 0 BY <1>a, <2>1
  <2> QED BY <1>6, <2>2 DEF Opened, Finished, BaseInv
<1>7. CASE Closed \/ Undone
  <2>0. Len(frames) > 0 BY <1>7 DEF Closed, Undone, StmtInv
  <2>1. Len(frames') = Len(frames) - 1 BY <1>7, <2>0, PopEffect DEF Closed, Undone
  <2>2. ASSUME Len(frames') = 0 PROVE ~Top.nested
    <3>1. Len(frames) = 1 BY <1>a, <2>1, <2>2
    <3> QED BY <3>1 DEF StackInv, Top
  <2>3. Len(frames') = 0 => levels = <<>>
    BY <1>7, <2>2 DEF Closed, Undone, StmtInv, BaseInv
  <2>4. op' = "none" /\ at' \in {"script", "throwing"} /\ levels' = levels
    BY <1>7 DEF Closed, Undone, Finished, server
  <2> QED BY <2>3, <2>4 DEF BaseInv
<1>8. CASE Client
  <2>1. CASE ProbeFine \/ ProbeTxLost \/ ProbeNoServer
    BY <2>1 DEF ProbeFine, ProbeTxLost, ProbeNoServer, Unusable, Fail, client, script,
          server, history, BaseInv, LinkInv, Pg
  <2>2. CASE ProbeReconnect \/ SendAgain
    BY <2>2
       DEF ProbeReconnect, SendAgain, FreshSession, SendBreaks, script, history, BaseInv
  <2>3. CASE Send \/ SendFails
    BY <2>3
       DEF Send, SendFails, SendBreaks, Fail, client, script, server, history, BaseInv,
          LinkInv, Pg
  <2>4. CASE Reply
    BY <1>0, <1>b, <2>4 DEF Reply, PgStatus, script, server, history, BaseInv, Pg
  <2>5. CASE ReplyLost
    BY <2>5 DEF ReplyLost, Fail, script, server, history, BaseInv, LinkInv, Pg
  <2> QED BY <1>8, <2>1, <2>2, <2>3, <2>4, <2>5 DEF Client
<1>9. CASE Server
  <2>0. phase = "server" /\ up /\ UNCHANGED <<client, script, op, flat>>
    BY <1>9
       DEF Server, SrvRefuse, SrvBegin, SrvSavepoint, SrvRelease, SrvRollbackTo,
           SrvCommit,
            SrvRollback, SrvWrite, SrvAccepts, Answer, history
  <2>1. CASE SrvRefuse
    <3>1. at = "undoing" /\ op = "rollback" => levels = <<>>
      BY <2>1 DEF SrvRefuse, Refused, InTx, Dependable
    <3> QED BY <2>0, <2>1, <3>1 DEF SrvRefuse, BaseInv, client, script, Pg
  <2>2. CASE SrvBegin \/ SrvSavepoint
    <3>1. op \in {"begin", "savepoint"} BY <2>2 DEF SrvBegin, SrvSavepoint
    <3>2. phase' = "reply_ok" BY <2>2, <1>b DEF SrvBegin, SrvSavepoint, Answer
    <3>3. Nest = 0 => at = "opening" \/ flat
      <4>1. CASE at = "exec"
        \* a manual BEGIN
        <5>1. op # "write" BY <3>1
        <5> QED BY <2>0, <3>1, <4>1 DEF StmtInv, BaseInv
      <4> QED BY <1>b, <2>0, <3>1, <4>1 DEF StmtInv
    <3> QED BY <2>0, <3>1, <3>2, <3>3 DEF BaseInv, script, client
  <2>3. CASE SrvRelease \/ SrvRollbackTo
    <3>1. Len(frames) > 0
      BY <1>b, <2>0, <2>3, TxAssumption DEF SrvRelease, SrvRollbackTo, StmtInv
    <3> QED BY <2>0, <2>3, <3>1 DEF SrvRelease, SrvRollbackTo, BaseInv, script, client
  <2>4. CASE SrvCommit \/ SrvRollback
    BY <2>0, <2>4 DEF SrvCommit, SrvRollback, Answer, BaseInv, script, client
  <2>5. CASE SrvWrite
    <3>1. levels = <<>> => levels' = <<>> BY <2>5 DEF SrvWrite, Answer, InTx
    <3> QED BY <1>b, <2>0, <2>5, <3>1 DEF SrvWrite, BaseInv, script, client, StmtInv
  <2> QED BY <1>9, <2>1, <2>2, <2>3, <2>4, <2>5 DEF Server
<1>10. CASE Loss BY <1>10 DEF Loss, client, script, BaseInv, Pg
<1>11. CASE UNCHANGED vars
  BY <1>11 DEF vars, client, script, statement, server, history, BaseInv, Pg
<1> QED BY <1>1, <1>2, <1>3, <1>4, <1>5, <1>6, <1>7, <1>8, <1>9, <1>10, <1>11
           DEF Next, Script, Wrapper

\* A depth that has gone wrong stays wrong.
LEMMA DepthBack ==
    ASSUME TypeOK, StmtInv, DepthInv, [Next]_vars, DepthExact'
    PROVE  DepthExact /\ ~CloseFails
<1>a. Len(frames) \in Nat /\ (frames = <<>> <=> Len(frames) = 0) BY FramesType
<1>b. tx_depth \in Int BY TxAssumption DEF TypeOK
<1>1. ~CloseFails
  <2> SUFFICES ASSUME CloseFails PROVE FALSE OBVIOUS
  <2>1. tx_depth' = tx_depth - 1 /\ frames' = frames /\ at' = "undoing" /\ at = "closing"
    BY DEF CloseFails, Undo
  <2> QED BY <1>a, <1>b, <2>1 DEF DepthExact, DepthInv
<1> SUFFICES DepthExact BY <1>1
<1>2. ASSUME UNCHANGED <<frames, tx_depth>>,
             at' \in {"closing", "undoing"} <=> at \in {"closing", "undoing"}
      PROVE  DepthExact
  BY <1>2 DEF DepthExact
<1>3. ASSUME NEW w \in Writes, Exec(w) PROVE DepthExact BY <1>2, <1>3 DEF Exec, client
<1>4. ASSUME NEW o \in ManualOps, Manual(o) PROVE DepthExact
  BY <1>2, <1>4
     DEF Manual, client
<1>5. CASE ExecReturns \/ Throw \/ Caught \/ Transaction \/ OpenFails
  BY <1>2, <1>5 DEF ExecReturns, Throw, Caught, Transaction, OpenFails, client
<1>6. CASE Opened
  <2>1. Len(frames') = Len(frames) + 1 BY <1>6, OpenedEffect
  <2> QED BY <1>6, <1>a, <1>b, <2>1 DEF Opened, DepthExact
<1>7. CASE Closed \/ Undone
  <2>0. Len(frames) > 0 BY <1>7 DEF Closed, Undone, StmtInv
  <2>1. Len(frames') = Len(frames) - 1 BY <1>7, <2>0, PopEffect DEF Closed, Undone
  <2> QED BY <1>7, <1>a, <1>b, <2>1 DEF Closed, Undone, client, DepthExact
<1>8. CASE BodyReturns \/ BodyThrows
  <2>1. tx_depth' = tx_depth - 1 /\ frames' = frames /\ at' \in {"undoing", "closing"}
        /\ at \notin {"undoing", "closing"}
    BY <1>8 DEF BodyReturns, BodyThrows, Undo
  <2> QED BY <1>a, <1>b, <2>1 DEF DepthExact
<1>9. CASE ReleaseUndone \/ Client \/ Server \/ Loss
  <2>1. UNCHANGED <<tx_depth, script>>
    BY <1>9
       DEF ReleaseUndone, Client, ProbeFine, ProbeTxLost, ProbeReconnect, ProbeNoServer,
          Send, SendFails, SendAgain, Reply, ReplyLost, Server, SrvRefuse, SrvBegin,
          SrvSavepoint, SrvRelease, SrvRollbackTo, SrvCommit, SrvRollback, SrvWrite, Answer,
          Loss, client
  <2> QED BY <1>2, <2>1 DEF script
<1>10. CASE UNCHANGED vars BY <1>2, <1>10 DEF vars, script, client
<1> QED BY <1>1, <1>3, <1>4, <1>5, <1>6, <1>7, <1>8, <1>9, <1>10
    DEF Next, Script, Wrapper

\* Once a body has gone on without its transaction ...
LEMMA AdriftStays ==
    ASSUME [Next]_vars
    PROVE  /\ Caught => adrift' = (adrift \/ (frames # <<>> /\ (levels = <<>> \/ aborted)))
           /\ ~Caught => adrift' = adrift
           /\ adrift => adrift'
<1>1. ASSUME NEW w \in Writes, Exec(w) PROVE adrift' = adrift BY <1>1 DEF Exec
<1>2. ASSUME NEW o \in ManualOps, Manual(o) PROVE adrift' = adrift BY <1>2 DEF Manual
<1>3. ASSUME ExecReturns \/ Throw \/ Wrapper PROVE adrift' = adrift
  BY <1>3
     DEF ExecReturns, Throw, Wrapper, Transaction, Opened, OpenFails, BodyReturns, Closed,
        BodyThrows, CloseFails, ReleaseUndone, Undone, history
<1>4. ASSUME Client \/ Server \/ Loss PROVE adrift' = adrift
  BY <1>4
     DEF Client, ProbeFine, ProbeTxLost, ProbeReconnect, ProbeNoServer, Send, SendFails,
        SendAgain, Reply, ReplyLost, Server, SrvRefuse, SrvBegin, SrvSavepoint, SrvRelease,
        SrvRollbackTo, SrvCommit, SrvRollback, SrvWrite, Answer, Loss, history
<1>5. ASSUME UNCHANGED vars PROVE adrift' = adrift BY <1>5 DEF vars, history
<1>6. Caught \/ adrift' = adrift BY <1>1, <1>2, <1>3, <1>4, <1>5 DEF Next, Script
<1>7. Caught => adrift' = (adrift \/ (frames # <<>> /\ (levels = <<>> \/ aborted)))
  BY DEF Caught
<1>8. CASE Caught
  <2>1. adrift => adrift' BY <1>7, <1>8
  <2> QED BY <1>7, <1>8, <2>1
<1>9. CASE ~Caught
  <2>1. adrift' = adrift BY <1>6, <1>9
  <2>2. adrift => adrift' BY <2>1, Zenon
  <2> QED BY <1>9, <2>1, <2>2
<1> QED BY <1>8, <1>9

\* ... or COMMIT has failed, it stays so.
LEMMA IntactBack ==
    ASSUME TypeOK, StmtInv, DepthInv, [Next]_vars, Intact'
    PROVE  Intact /\ ~CloseFails /\ (Caught => frames = <<>> \/ (levels # <<>> /\ ~aborted))
<1>1. DepthExact' /\ ~adrift' BY DEF Intact
<1>2. DepthExact /\ ~CloseFails BY <1>1, DepthBack
<1>3. ~adrift /\ (Caught => frames = <<>> \/ (levels # <<>> /\ ~aborted)) BY <1>1, AdriftStays
<1> QED BY <1>2, <1>3 DEF Intact

-----------------------------------------------------------------------------
(***************************************************************************)
(* While the depth is right, the server's savepoints are the client's      *)
(* calls: level i belongs to call i, until one side has closed it and the  *)
(* other has not heard of it yet.                                          *)
(***************************************************************************)

\* The server has dropped the transaction, with the link or after an error,
\* and the client has been told or will be before anything else is run.
Lost ==
    /\ Height = 0
    /\ \/ Pg /\ ~up /\ (in_txn \/ Answered)
       \/ phase \in {"error", "unanswered"}
       \/ ~Pg /\ phase = "reply_error"

\* The server has carried the statement out.
Done == (phase = "reply_ok" /\ up) \/ phase = "ok"

\* Outside a call a script may have a transaction of its own.
Level0 == (Nest = 0 /\ Height <= 1) \/ (Nest > 0 /\ Height = Nest)

NumberInv ==
    /\ \A i \in 1 .. Height : levels[i].sp = i - 1
    /\ \A i \in 1 .. Nest : (frames[i].nested <=> i > 1) /\ frames[i].sp = i - 1

HeightInv ==
    /\ at \in {"script", "exec"} => Level0 \/ Lost
    /\ at = "throwing" => Level0 \/ Height = 0
    /\ at = "opening" => IF Done THEN Height = Nest + 1 \/ Lost ELSE Level0 \/ Lost
    /\ at = "closing" => /\ IF Done THEN Height = Nest - 1 \/ Lost ELSE Height = Nest \/ Lost
                         /\ phase \in {"error", "reply_error"} => ~up
    /\ at = "undoing" =>
         /\ \/ Height = 0
            \/ Height = IF phase \in {"ok", "reply_ok"} /\ op \in {"release", "rollback"}
                        THEN Nest - 1 ELSE Nest
         /\ phase \in {"error", "unanswered", "reply_error"} => Height = 0
         /\ op = "release" \/ (op = "rollback_to" /\ phase \in {"reply_ok", "ok"}) => ~aborted

LevelsInv == NumberInv /\ HeightInv

LEMMA AtServer ==
    ASSUME Dependable, TypeOK, StmtInv, DepthInv, StackInv, LinkInv, Intact, LevelsInv,
           phase = "server"
    PROVE  /\ at \in {"exec", "opening", "closing", "undoing"} /\ up
           /\ at \in {"exec", "opening"} => Level0
           /\ at = "opening" => \/ op = "begin" /\ Nest = 0
                                \/ op = "savepoint" /\ Nest > 0 /\ arg = Nest
           /\ at = "closing" => Height = Nest /\ Nest > 0
           /\ at = "undoing" => Nest > 0 /\ (Height = Nest \/ Height = 0)
           /\ op \in {"release", "rollback_to"} =>
                /\ at \in {"closing", "undoing"} /\ Nest > 1
                /\ Known <=> Height = Nest
                /\ Known => Newest = Nest
           /\ op = "commit" /\ at = "closing" => Nest = 1
           /\ op = "rollback" /\ at = "undoing" => Nest = 1
           /\ at = "exec" => op = "write" \/ (Nest = 0 /\ op \in {"begin", "commit", "rollback"})
           /\ at = "closing" => op \in {"release", "commit"}
           /\ at = "undoing" => op \in {"release", "rollback_to", "rollback"}
<1> USE DEF Answered, Nest, Height
<1>a. Len(frames) \in Nat /\ (frames = <<>> <=> Len(frames) = 0) BY FramesType
<1>b. /\ Len(levels) \in Nat /\ DOMAIN levels = 1 .. Len(levels) BY LevelsType
<1>c. tx_depth \in Int BY TxAssumption DEF TypeOK
<1>d. at \in {"script", "exec", "opening", "closing", "undoing", "throwing"}
  BY
     DEF TypeOK
<1>1. at \in {"exec", "opening", "closing", "undoing"} /\ up
  BY <1>d
     DEF StmtInv, LinkInv
<1>2. ~Lost /\ ~Done BY <1>1 DEF Lost, Done
<1>3. at \in {"exec", "opening"} => Level0 BY <1>2 DEF LevelsInv, HeightInv
<1>4. at \in {"closing", "undoing"} => Nest > 0 BY DEF StmtInv
<1>5. at = "closing" => Height = Nest BY <1>2 DEF LevelsInv, HeightInv
<1>6. at = "undoing" => Height = Nest \/ Height = 0 BY DEF LevelsInv, HeightInv
<1>7. at = "opening" => \/ op = "begin" /\ Nest = 0
                        \/ op = "savepoint" /\ Nest > 0 /\ arg = Nest
  BY <1>a, <1>c DEF StmtInv, Intact, DepthExact
<1>8. ASSUME at \in {"closing", "undoing"}
      PROVE  /\ Top.nested <=> Nest > 1
             /\ Top.sp = Nest - 1
  BY <1>4, <1>8, <1>a DEF LevelsInv, NumberInv, Top
<1>9. ASSUME op \in {"release", "rollback_to"}
      PROVE  /\ at \in {"closing", "undoing"} /\ Nest > 1
             /\ Known <=> Height = Nest
             /\ Known => Newest = Nest
  <2>1. at \in {"closing", "undoing"}
    BY <1>1, <1>9, <1>c, TxAssumption DEF StmtInv
  <2>2. Nest > 1 /\ arg = Nest - 1 BY <1>8, <1>9, <1>a, <2>1 DEF StmtInv
  <2>3. Height = Nest \/ Height = 0 BY <1>5, <1>6, <2>1
  <2>4. ASSUME Height = Nest PROVE Known
    <3>1. Nest \in 1 .. Height /\ Nest > 1 /\ Nest \in DOMAIN levels BY <1>a, <1>b, <2>2, <2>4
    <3>2. levels[Nest].sp = Nest - 1 BY <3>1 DEF LevelsInv, NumberInv
    <3> QED BY <2>2, <3>1, <3>2 DEF Known, Savepoint
  <2>5. ASSUME Known PROVE Height = Nest /\ Newest = Nest
    <3>1. Newest \in 2 .. Height /\ levels[Newest].sp = arg BY <2>5, NewestIs
    <3>2. levels[Newest].sp = Newest - 1 BY <1>b, <3>1 DEF LevelsInv, NumberInv
    <3>3. Newest \in Nat BY <1>b, <3>1
    <3>4. Newest - 1 = Nest - 1 BY <2>2, <3>1, <3>2
    <3>5. Newest = Nest BY <1>a, <3>3, <3>4
    <3>6. Height # 0 BY <3>1
    <3> QED BY <2>3, <3>5, <3>6
  <2> QED BY <2>1, <2>2, <2>4, <2>5
<1>10. ASSUME \/ at = "closing" /\ op = "commit"
              \/ at = "undoing" /\ op = "rollback"
       PROVE  Nest = 1
  <2>1. ~Top.nested BY <1>10 DEF StmtInv
  <2>2. Nest > 0 /\ ~(Nest > 1) BY <1>4, <1>8, <1>10, <2>1
  <2>3. Nest \in Nat BY <1>a
  <2>4. \A k \in Nat : k > 0 /\ ~(k > 1) => k = 1 OBVIOUS
  <2> QED BY <2>2, <2>3, <2>4, Zenon
<1>12. at = "exec" => op = "write" \/ (Nest = 0 /\ op \in {"begin", "commit", "rollback"})
  BY <1>a, TxAssumption DEF StmtInv
<1>13. /\ at = "closing" => op \in {"release", "commit"}
       /\ at = "undoing" => op \in {"release", "rollback_to", "rollback"}
  BY DEF StmtInv
<1>14. op = "commit" /\ at = "closing" => Nest = 1 BY <1>10
<1>15. op = "rollback" /\ at = "undoing" => Nest = 1 BY <1>10
<1> HIDE DEF Answered, Nest, Height
<1> QED BY <1>1, <1>3, <1>4, <1>5, <1>6, <1>7, <1>9, <1>12, <1>13, <1>14, <1>15

\* Only the server changes the savepoints, unless the session ends.
LEMMA LevelsStay ==
    ASSUME [Next]_vars
    PROVE  Server \/ levels' = levels \/ levels' = <<>>
<1>1. ASSUME NEW w \in Writes, Exec(w) PROVE levels' = levels BY <1>1 DEF Exec, server
<1>2. ASSUME NEW o \in ManualOps, Manual(o) PROVE levels' = levels
  BY <1>2
     DEF Manual, server
<1>3. CASE ExecReturns \/ Throw \/ Caught \/ Wrapper
  BY <1>3
     DEF ExecReturns, Throw, Caught, Wrapper, Transaction, Opened, OpenFails,
         BodyReturns,
        Closed, BodyThrows, CloseFails, ReleaseUndone, Undone, server
<1>4. CASE Client
  BY <1>4
     DEF Client, ProbeFine, ProbeTxLost, ProbeReconnect, ProbeNoServer, Send, SendFails,
        SendAgain, Reply, ReplyLost, FreshSession, server
<1>5. CASE Loss BY <1>5 DEF Loss
<1>6. CASE UNCHANGED vars BY <1>6 DEF vars, server
<1> QED BY <1>1, <1>2, <1>3, <1>4, <1>5, <1>6 DEF Next, Script

\* Only Opened, Closed and Undone change the stack of calls.
LEMMA FramesStay ==
    ASSUME [Next]_vars
    PROVE  Opened \/ Closed \/ Undone \/ frames' = frames
<1>1. ASSUME NEW w \in Writes, Exec(w) PROVE frames' = frames BY <1>1 DEF Exec
<1>2. ASSUME NEW o \in ManualOps, Manual(o) PROVE frames' = frames BY <1>2 DEF Manual
<1>3. CASE ExecReturns \/ Throw \/ Caught \/ Wrapper
  BY <1>3 DEF ExecReturns, Throw, Caught, Wrapper, Transaction, OpenFails, BodyReturns,
        BodyThrows, CloseFails, ReleaseUndone, script
<1>4. CASE Client \/ Server \/ Loss
  BY <1>4
     DEF Client, ProbeFine, ProbeTxLost, ProbeReconnect, ProbeNoServer, Send, SendFails,
        SendAgain, Reply, ReplyLost, Server, SrvRefuse, SrvBegin, SrvSavepoint, SrvRelease,
        SrvRollbackTo, SrvCommit, SrvRollback, SrvWrite, Answer, Loss, script
<1>5. CASE UNCHANGED vars BY <1>5 DEF vars, script
<1> QED BY <1>1, <1>2, <1>3, <1>4, <1>5 DEF Next, Script

\* What the server does to the savepoints, while they match the calls.
LEMMA ServerStep ==
    ASSUME Dependable, TypeOK, StmtInv, DepthInv, StackInv, LinkInv, Intact, LevelsInv, Server
    PROVE  /\ phase = "server" /\ up /\ UNCHANGED <<client, script, op, arg, up>>
           /\ \/ phase' = "reply_error" /\ levels' = levels /\ SrvRefuse
              \/ phase' = "reply_error" /\ levels' = <<>> /\ SrvRefuse /\ RollsBack
              \/ /\ phase' = "reply_ok" /\ ~Refused
                 /\ aborted' = (aborted /\ op \notin {"commit", "rollback", "rollback_to"})
                 /\ \/ op = "begin" /\ Height' = 1 /\ levels'[1].ws \subseteq Pending
                                    /\ (levels' # levels => levels'[1] = Level(0))
                    \/ /\ op = "savepoint" /\ Height = Nest /\ Height' = Height + 1
                       /\ \A j \in 1 .. Height : levels'[j] = levels[j]
                       /\ levels'[Height + 1].sp = Height /\ levels'[Height + 1].ws = {}
                    \/ /\ op = "release" /\ Height = Nest /\ Nest > 1 /\ Height' = Nest - 1
                       /\ SrvRelease /\ ~Began /\ Newest = Nest
                    \/ /\ op = "rollback_to" /\ Height = Nest /\ Nest > 1 /\ Height' = Nest
                       /\ SrvRollbackTo /\ Newest = Nest
                    \/ op \in {"commit", "rollback"} /\ levels' = <<>> /\ Height' = 0
                    \/ op = "write" /\ SrvWrite /\ Height' = Height
<1> USE DEF Nest, Height
<1>a. Len(frames) \in Nat /\ (frames = <<>> <=> Len(frames) = 0) BY FramesType
<1>b. /\ levels \in Seq(LevelType) /\ Len(levels) \in Nat /\ (levels = <<>> <=> Len(levels) = 0)
      /\ \A w : w \in Pending <=> \E i \in 1 .. Len(levels) : w \in levels[i].ws
  BY LevelsType
<1>1. phase = "server" /\ up /\ UNCHANGED <<client, script, op, arg, up>>
  BY
     DEF Server, SrvRefuse, SrvBegin, SrvSavepoint, SrvRelease, SrvRollbackTo,
         SrvCommit,
            SrvRollback, SrvWrite, SrvAccepts, Answer
<1>2. /\ at \in {"exec", "opening", "closing", "undoing"}
      /\ at \in {"exec", "opening"} => Level0
      /\ at = "opening" => \/ op = "begin" /\ Nest = 0
                           \/ op = "savepoint" /\ Nest > 0 /\ arg = Nest
      /\ op \in {"release", "rollback_to"} =>
                /\ at \in {"closing", "undoing"} /\ Nest > 1
                /\ Known <=> Height = Nest
                /\ Known => Newest = Nest
      /\ at = "exec" => op = "write" \/ (Nest = 0 /\ op \in {"begin", "commit", "rollback"})
      /\ at = "closing" => op \in {"release", "commit"}
      /\ at = "undoing" => op \in {"release", "rollback_to", "rollback"}
  BY <1>1, AtServer
<1>3. CASE SrvRefuse BY <1>1, <1>3 DEF SrvRefuse
<1>4. ASSUME ~SrvRefuse
      PROVE  /\ phase' = "reply_ok" /\ ~Refused
             /\ aborted' = (aborted /\ op \notin {"commit", "rollback", "rollback_to"})
  BY <1>4 DEF Server, SrvBegin, SrvSavepoint, SrvRelease, SrvRollbackTo, SrvCommit,
            SrvRollback, SrvWrite, SrvAccepts, Answer
<1>5. CASE SrvBegin /\ ~SrvRefuse
  <2>1. op = "begin" BY <1>5 DEF SrvBegin
  <2>2. Level0 /\ Nest = 0 BY <1>2, <2>1
  <2>3. Height <= 1 BY <1>a, <2>2 DEF Level0
  <2>4. CASE InTx /\ driver = "postgres"
    <3>0. levels' = levels /\ levels # <<>> BY <1>5, <2>4 DEF SrvBegin, Answer, InTx
    <3>1. Height # 0 BY <1>b, <3>0
    <3>2. Height = 1
      <4>1. \A k \in Nat : k <= 1 /\ k # 0 => k = 1 OBVIOUS
      <4> QED BY <1>b, <2>3, <3>1, <4>1, Zenon
    <3>3. levels'[1].ws \subseteq Pending BY <1>b, <3>0, <3>2
    <3> QED BY <1>1, <1>4, <1>5, <2>1, <3>0, <3>2, <3>3
  <2>5. CASE ~(InTx /\ driver = "postgres")
    <3>1. levels' = <<Level(0)>> BY <1>5, <2>5 DEF SrvBegin, Answer
    <3>2. Height' = 1 /\ levels'[1] = Level(0) /\ levels'[1].ws = {} BY <3>1 DEF Level
    <3> QED BY <1>1, <1>4, <1>5, <2>1, <3>2
  <2> QED BY <2>4, <2>5
<1>6. CASE SrvSavepoint /\ ~SrvRefuse
  <2>1. op = "savepoint" BY <1>6 DEF SrvSavepoint
  <2>2. Level0 /\ Nest > 0 /\ arg = Nest BY <1>2, <2>1
  <2>3. Height = Nest /\ InTx BY <1>a, <1>b, <2>2 DEF Level0, InTx
  <2>4. levels' = Append(levels, Level(arg)) BY <1>6, <2>3 DEF SrvSavepoint, Answer
  <2>5. arg \in Nat BY <1>a, <2>2
  <2>6. /\ Height' = Height + 1
        /\ \A j \in 1 .. Height : levels'[j] = levels[j]
        /\ levels'[Height + 1].sp = Height /\ levels'[Height + 1].ws = {}
    BY <2>2, <2>3, <2>4, <2>5, PushEffect
  <2> QED BY <1>1, <1>4, <1>6, <2>1, <2>3, <2>6
<1>7. CASE SrvRelease /\ ~SrvRefuse
  <2>1. op = "release" /\ Known BY <1>7 DEF SrvRelease, SrvAccepts, Refused
  <2>2. ~Began
    <3>1. Height = Nest /\ Nest > 1 BY <1>2, <2>1
    <3>2. 1 \in 1 .. Height BY <1>a, <3>1
    <3>3. levels[1].sp = 0 BY <3>2 DEF LevelsInv, NumberInv
    <3> QED BY <3>3 DEF Began
  <2>3. Height' = Newest - 1 BY <1>7, <2>2, ReleaseEffect
  <2> QED BY <1>1, <1>2, <1>4, <1>7, <2>1, <2>2, <2>3
<1>8. CASE SrvRollbackTo /\ ~SrvRefuse
  <2>1. op = "rollback_to" /\ Known BY <1>8 DEF SrvRollbackTo, SrvAccepts, Refused
  <2>2. Height' = Newest BY <1>8, RollbackToEffect
  <2> QED BY <1>1, <1>2, <1>4, <1>8, <2>1, <2>2
<1>9. CASE (SrvCommit \/ SrvRollback) /\ ~SrvRefuse
  <2>1. op \in {"commit", "rollback"} /\ levels' = <<>>
    BY <1>9
       DEF SrvCommit, SrvRollback, Answer
  <2> QED BY <1>1, <1>4, <1>9, <2>1
<1>10. CASE SrvWrite /\ ~SrvRefuse
  <2>1. op = "write" /\ arg \in Writes BY <1>10 DEF SrvWrite, StmtInv
  <2>2. Height' = Height
    <3>1. CASE ~InTx BY <1>10, <3>1 DEF SrvWrite, Answer
    <3>2. CASE InTx
      <4>1. levels' = [levels EXCEPT ![Len(levels)].ws = @ \cup {arg}] /\ levels # <<>>
        BY <1>10, <3>2 DEF SrvWrite, Answer, InTx
      <4> QED BY <2>1, <4>1, WriteEffect
    <3> QED BY <3>1, <3>2
  <2> QED BY <1>1, <1>4, <1>10, <2>1, <2>2
<1> QED BY <1>3, <1>5, <1>6, <1>7, <1>8, <1>9, <1>10 DEF Server

LEMMA NumberStep ==
    ASSUME Dependable, TypeOK, StmtInv, DepthInv, StackInv, LinkInv, Intact, LevelsInv,
           [Next]_vars
    PROVE  NumberInv'
<1> USE DEF Nest, Height
<1>a. Len(frames) \in Nat /\ (frames = <<>> <=> Len(frames) = 0) BY FramesType
<1>b. Len(levels) \in Nat BY LevelsType
<1>c. tx_depth \in Int BY TxAssumption DEF TypeOK
<1>0. NumberInv BY DEF LevelsInv
<1>1. \A i \in 1 .. Height' : levels'[i].sp = i - 1
  <2>1. CASE levels' = levels BY <1>0, <2>1 DEF NumberInv
  <2>2. CASE levels' = <<>>
    <3>1. Height' = 0 BY <2>2
    <3> QED BY <3>1
  <2>3. CASE Server /\ levels' # levels
    <3> HIDE DEF Nest, Height
    <3>1. CASE op = "begin" /\ Height' = 1 /\ levels'[1] = Level(0)
      <4>1. \A i \in 1 .. 1 : i = 1 OBVIOUS
      <4>2. levels'[1].sp = 1 - 1 BY <3>1 DEF Level
      <4> QED BY <3>1, <4>1, <4>2
    <3>2. CASE /\ op = "savepoint" /\ Height = Nest /\ Height' = Height + 1
               /\ \A j \in 1 .. Height : levels'[j] = levels[j]
               /\ levels'[Height + 1].sp = Height
      <4>1. ASSUME NEW i \in 1 .. Height' PROVE levels'[i].sp = i - 1
        <5>1. Height \in Nat BY <1>b DEF Height
        <5>2. i \in 1 .. Height \/ i = Height + 1 BY <3>2, <5>1
        <5>3. CASE i \in 1 .. Height
          <6>1. levels'[i] = levels[i] BY <3>2, <5>1, <5>3
          <6> QED BY <1>0, <5>3, <6>1 DEF NumberInv
        <5>4. CASE i = Height + 1
          <6>1. i - 1 = Height BY <5>1, <5>4
          <6> QED BY <3>2, <5>4, <6>1
        <5> QED BY <5>2, <5>3, <5>4
      <4> QED BY <4>1
    <3>3. CASE SrvRelease /\ ~Began
      <4>1. /\ Newest \in 2 .. Height /\ Height' = Newest - 1
            /\ \A j \in 1 .. Newest - 1 : levels'[j].sp = levels[j].sp
        BY <3>3, ReleaseEffect DEF Height
      <4>2. ASSUME NEW i \in 1 .. Height' PROVE levels'[i].sp = i - 1
        <5>1. i \in 1 .. Newest - 1 /\ i \in 1 .. Height BY <1>b, <4>1 DEF Height
        <5>2. levels'[i].sp = levels[i].sp BY <4>1, <5>1
        <5> QED BY <1>0, <5>1, <5>2 DEF NumberInv
      <4> QED BY <4>2
    <3>4. CASE SrvRollbackTo
      <4>1. /\ Newest \in 2 .. Height /\ Height' = Newest
            /\ \A j \in 1 .. Newest : levels'[j].sp = levels[j].sp
        BY <3>4, RollbackToEffect DEF Height
      <4>2. ASSUME NEW i \in 1 .. Height' PROVE levels'[i].sp = i - 1
        <5>1. i \in 1 .. Newest /\ i \in 1 .. Height BY <1>b, <4>1 DEF Height
        <5>2. levels'[i].sp = levels[i].sp BY <4>1, <5>1
        <5> QED BY <1>0, <5>1, <5>2 DEF NumberInv
      <4> QED BY <4>2
    <3>5. CASE SrvWrite
      <4>1. arg \in Writes BY <3>5 DEF SrvWrite, StmtInv
      <4>2. levels' = [levels EXCEPT ![Len(levels)].ws = @ \cup {arg}] /\ levels # <<>>
        BY <2>3, <3>5 DEF SrvWrite, Answer, InTx
      <4>3. Height' = Height /\ \A j \in 1 .. Height : levels'[j].sp = levels[j].sp
        BY <4>1, <4>2, WriteEffect DEF Height
      <4>4. ASSUME NEW i \in 1 .. Height' PROVE levels'[i].sp = i - 1
        <5>1. i \in 1 .. Height /\ i \in 1 .. Height BY <1>b, <4>3 DEF Height
        <5>2. levels'[i].sp = levels[i].sp BY <4>3, <5>1
        <5> QED BY <1>0, <5>1, <5>2 DEF NumberInv
      <4> QED BY <4>4
    <3> QED BY <2>2, <2>3, <3>1, <3>2, <3>3, <3>4, <3>5, ServerStep
  <2> QED BY <2>1, <2>2, <2>3, LevelsStay
<1>2. \A i \in 1 .. Nest' : (frames'[i].nested <=> i > 1) /\ frames'[i].sp = i - 1
  <2>1. CASE frames' = frames BY <1>0, <2>1 DEF NumberInv
  <2>2. CASE Opened
    <3>1. /\ Len(frames') = Len(frames) + 1
          /\ \A i \in 1 .. Len(frames) : frames'[i] = frames[i]
          /\ frames'[Len(frames) + 1].sp = arg
          /\ frames'[Len(frames) + 1].nested <=> op = "savepoint"
      BY <2>2, OpenedEffect
    <3>2. arg = Nest /\ (op = "savepoint" <=> Nest > 0)
      BY <1>a, <1>c, <2>2 DEF StmtInv, Intact, DepthExact, Opened
    <3>3. ASSUME NEW i \in 1 .. Nest'
          PROVE  (frames'[i].nested <=> i > 1) /\ frames'[i].sp = i - 1
      <4>1. i \in 1 .. Nest \/ i = Nest + 1 BY <1>a, <3>1
      <4>2. CASE i \in 1 .. Nest BY <1>0, <3>1, <4>2 DEF NumberInv
      <4>3. CASE i = Nest + 1
        <5>1. i - 1 = Nest /\ (i > 1 <=> Nest > 0) BY <1>a, <4>3
        <5> QED BY <3>1, <3>2, <4>3, <5>1
      <4> QED BY <4>1, <4>2, <4>3
    <3> QED BY <3>3
  <2>3. CASE Closed \/ Undone
    <3>0. Len(frames) > 0 BY <2>3 DEF Closed, Undone, StmtInv
    <3>1. /\ Len(frames') = Len(frames) - 1
          /\ \A i \in 1 .. Len(frames) - 1 : frames'[i] = frames[i]
      BY <2>3, <3>0, PopEffect DEF Closed, Undone
    <3>2. ASSUME NEW i \in 1 .. Nest'
          PROVE  (frames'[i].nested <=> i > 1) /\ frames'[i].sp = i - 1
      <4>1. i \in 1 .. Nest /\ frames'[i] = frames[i] BY <1>a, <3>1
      <4> QED BY <1>0, <4>1 DEF NumberInv
    <3> QED BY <3>2
  <2> QED BY <2>1, <2>2, <2>3, FramesStay
<1> QED BY <1>1, <1>2 DEF NumberInv

LEMMA HeightStep ==
    ASSUME Dependable, TypeOK, StmtInv, DepthInv, StackInv, LinkInv, Intact, LevelsInv,
           [Next]_vars, ~CloseFails, Caught => frames = <<>> \/ levels # <<>>
    PROVE  HeightInv'
<1> USE DEF Over, Answered, Lost, Done, Level0
<1>0. HeightInv BY DEF LevelsInv
<1>a. Nest \in Nat /\ (frames = <<>> <=> Nest = 0) BY FramesType DEF Nest
<1>b. Height \in Nat /\ (levels = <<>> <=> Height = 0) BY LevelsType DEF Height
<1>c. /\ Pg <=> driver # "sqlite"
      /\ driver # "mysql" /\ (driver = "sqlite" \/ driver = "postgres")
  BY DriverIs
<1>d. /\ in_txn \in BOOLEAN /\ up \in BOOLEAN /\ sock \in BOOLEAN /\ aborted \in BOOLEAN
      /\ at \in {"script", "exec", "opening", "closing", "undoing", "throwing"}
      /\ phase \in Over \cup {"none", "probe", "send", "server", "reply_ok", "reply_error"}
  BY DEF TypeOK
<1>e. /\ frames' = frames => Nest' = Nest
      /\ levels' = levels => Height' = Height
      /\ levels' = <<>> => Height' = 0
      /\ driver' = driver => (Pg' <=> Pg)
  BY DEF Nest, Height, Pg
<1>1. ASSUME NEW w \in Writes, Exec(w) PROVE HeightInv'
  <2>1. Nest' = Nest /\ Height' = Height /\ (Pg' <=> Pg)
    BY <1>1, <1>e
       DEF Exec, client, server
  <2> QED BY <1>0, <1>1, <2>1 DEF Exec, Issue, client, server, HeightInv
<1>2. ASSUME NEW o \in ManualOps, Manual(o) PROVE HeightInv'
  <2>1. Nest' = Nest /\ Height' = Height /\ (Pg' <=> Pg)
    BY <1>2, <1>e
       DEF Manual, client, server
  <2> QED BY <1>0, <1>2, <2>1 DEF Manual, Issue, client, server, HeightInv
<1>3. CASE ExecReturns
  <2>1. Nest' = Nest /\ Height' = Height /\ (Pg' <=> Pg)
    BY <1>3, <1>e
       DEF ExecReturns, client, server
  <2> QED BY <1>0, <1>3, <1>d, <2>1 DEF ExecReturns, Finished, client, server, HeightInv
<1>4. CASE Throw \/ Caught
  <2>1. Nest' = Nest /\ Height' = Height /\ (Pg' <=> Pg)
    BY <1>4, <1>e DEF Throw, Caught, client, server
  <2> QED BY <1>0, <1>4, <1>a, <1>b, <1>c, <2>1
      DEF Throw, Caught, client, server, statement, HeightInv,
             StmtInv
<1>5. CASE Transaction \/ OpenFails
  <2>1. Nest' = Nest /\ Height' = Height /\ (Pg' <=> Pg)
    BY <1>5, <1>e DEF Transaction, OpenFails, client, server
  <2> QED BY <1>0, <1>5, <1>a, <1>d, <2>1
      DEF Transaction, OpenFails, Issue, Finished, client,
             server, HeightInv
<1>6. CASE BodyReturns \/ BodyThrows \/ ReleaseUndone
  <2>1. Nest' = Nest /\ Height' = Height /\ (Pg' <=> Pg)
    BY <1>6, <1>e DEF BodyReturns, BodyThrows, ReleaseUndone, client, script, server
  <2> QED BY <1>0, <1>6, <1>a, <1>d, <2>1
      DEF BodyReturns, BodyThrows, ReleaseUndone, Undo, Issue,
             client, script, server, HeightInv
<1>7. CASE Opened
  <2>1. Nest' = Nest + 1 BY <1>7, OpenedEffect DEF Nest
  <2>2. Height' = Height /\ (Pg' <=> Pg) BY <1>7, <1>e DEF Opened, server
  <2> QED BY <1>0, <1>7, <1>a, <1>b, <1>d, <2>1, <2>2
      DEF Opened, Finished, server, HeightInv
<1>8. CASE Closed \/ Undone
  <2>0. Nest > 0 BY <1>8 DEF Closed, Undone, StmtInv, Nest
  <2>1. Nest' = Nest - 1 BY <1>8, <2>0, PopEffect DEF Closed, Undone, Nest
  <2>2. Height' = Height /\ (Pg' <=> Pg)
    BY <1>8, <1>e
       DEF Closed, Undone, client, server
  <2>3. CASE Closed
    BY <1>0, <1>a, <1>b, <1>d, <2>0, <2>1, <2>2, <2>3
       DEF Closed, Finished, client, server,
       HeightInv
  <2>4. CASE Undone
    <3>1. at = "undoing" /\ at' = "throwing" BY <2>4 DEF Undone
    <3>2. Height = 0 \/ Height = Nest - 1
      BY <1>0, <1>a, <1>b, <2>0, <2>4 DEF Undone, HeightInv, StmtInv
    <3> QED BY <1>a, <1>b, <2>0, <2>1, <2>2, <3>1, <3>2 DEF HeightInv
  <2> QED BY <1>8, <2>3, <2>4
<1>9. CASE Client
  <2>0. UNCHANGED <<driver, frames, at, op>>
    BY <1>9
       DEF Client, ProbeFine, ProbeTxLost, ProbeReconnect, ProbeNoServer, Send,
           SendFails,
          SendAgain, Reply, ReplyLost, Fail, client, script
  <2>1. Nest' = Nest /\ (Pg' <=> Pg) BY <1>e, <2>0
  <2>2. CASE ProbeFine \/ ProbeTxLost \/ ProbeNoServer
    <3>1. Height' = Height
      BY <1>e, <2>2
         DEF ProbeFine, ProbeTxLost, ProbeNoServer, server
    <3> QED BY <1>0, <1>a, <1>b, <1>d, <2>0, <2>1, <2>2, <3>1
        DEF ProbeFine, ProbeTxLost,
               ProbeNoServer, Unusable, Fail, client, server, HeightInv, LinkInv
  <2>3. CASE ProbeReconnect \/ SendAgain
    <3>1. Height = 0 /\ Height' = 0 /\ Pg /\ ~in_txn /\ phase \in {"probe", "send"}
          /\ phase' \in {"send", "server"} /\ ~aborted'
      BY <1>b, <1>c, <1>e, <2>3
         DEF ProbeReconnect, SendAgain, SendBreaks, Resends, MayReplace,
         Unusable, FreshSession, LinkInv, Pg
    <3>2. at \in {"exec", "opening"} => Nest = 0 BY <1>0, <1>a, <3>1 DEF HeightInv
    <3>3. at # "closing" BY <1>0, <1>a, <3>1 DEF HeightInv, StmtInv, Nest
    <3>4. at \notin {"script", "throwing"} BY <3>1 DEF StmtInv
    <3> QED BY <2>0, <2>1, <3>1, <3>2, <3>3, <3>4 DEF HeightInv
  <2>4. CASE Send \/ SendFails
    <3>1. Height' = Height BY <1>e, <2>4 DEF Send, SendFails, server
    <3> QED BY <1>0, <1>a, <1>b, <1>c, <1>d, <2>0, <2>1, <2>4, <3>1 DEF Send, SendFails,
               SendBreaks, Fail, client, server, HeightInv, LinkInv
  <2>5. CASE Reply \/ ReplyLost
    <3>1. Height' = Height BY <1>e, <2>5 DEF Reply, ReplyLost, server
    <3>2. at \notin {"script", "throwing"} BY <2>5 DEF Reply, ReplyLost, StmtInv
    <3>3. CASE Reply
      <4>1. up /\ up' /\ UNCHANGED aborted /\ (phase = "reply_ok" => ~Lost)
            /\ phase \in {"reply_ok", "reply_error"}
            /\ phase' = IF phase = "reply_ok" THEN "ok" ELSE "error"
        BY <3>3 DEF Reply, server
      <4>2. phase = "reply_error" /\ Lost => Lost' BY <3>1, <4>1
      <4> HIDE DEF Lost
      <4> QED BY <1>0, <2>0, <2>1, <3>1, <3>2, <4>1, <4>2 DEF HeightInv
    <3>4. CASE ReplyLost
      <4>1. /\ ~up /\ ~up' /\ Height = 0 /\ ~aborted' /\ phase' = "unanswered" /\ Pg
        BY <1>b, <3>4 DEF ReplyLost, Fail, server, LinkInv
      <4> QED BY <2>0, <2>1, <3>1, <3>2, <4>1 DEF HeightInv
    <3> QED BY <2>5, <3>3, <3>4
  <2> QED BY <1>9, <2>2, <2>3, <2>4, <2>5 DEF Client
<1>10. CASE Server
  <2>1. /\ phase = "server" /\ up /\ UNCHANGED <<client, script, op, arg, up>>
        /\ \/ phase' = "reply_error" /\ levels' = levels /\ SrvRefuse
           \/ phase' = "reply_error" /\ levels' = <<>> /\ SrvRefuse /\ RollsBack
           \/ /\ phase' = "reply_ok" /\ ~Refused
              /\ aborted' = (aborted /\ op \notin {"commit", "rollback", "rollback_to"})
              /\ \/ op = "begin" /\ Height' = 1
                 \/ op = "savepoint" /\ Height = Nest /\ Height' = Height + 1
                 \/ op = "release" /\ Height = Nest /\ Nest > 1 /\ Height' = Nest - 1
                 \/ op = "rollback_to" /\ Height = Nest /\ Nest > 1 /\ Height' = Nest
                 \/ op \in {"commit", "rollback"} /\ Height' = 0
                 \/ op = "write" /\ Height' = Height
    BY <1>10, ServerStep
  <2>2. Nest' = Nest /\ (Pg' <=> Pg) /\ UNCHANGED <<at, op, up>>
    BY <1>e, <2>1
       DEF client, script
  <2>3. /\ at \in {"exec", "opening", "closing", "undoing"}
        /\ at \in {"exec", "opening"} => Level0
        /\ at = "opening" => \/ op = "begin" /\ Nest = 0
                             \/ op = "savepoint" /\ Nest > 0 /\ arg = Nest
        /\ at = "closing" => Height = Nest /\ Nest > 0
        /\ at = "undoing" => Nest > 0 /\ (Height = Nest \/ Height = 0)
        /\ op \in {"release", "rollback_to"} =>
             at \in {"closing", "undoing"} /\ Nest > 1 /\ (Known <=> Height = Nest)
        /\ op = "commit" /\ at = "closing" => Nest = 1
        /\ op = "rollback" /\ at = "undoing" => Nest = 1
        /\ at = "exec" => op = "write" \/ (Nest = 0 /\ op \in {"begin", "commit", "rollback"})
        /\ at = "closing" => op \in {"release", "commit"}
        /\ at = "undoing" => op \in {"release", "rollback_to", "rollback"}
    BY <2>1, AtServer
  <2>4. CASE phase' = "reply_error" /\ levels' = levels /\ SrvRefuse
    <3>1. Height' = Height BY <1>e, <2>4
    <3>2. at # "closing"
      <4>1. ASSUME at = "closing" PROVE FALSE
        <5>1. Refused BY <2>3, <2>4, <4>1 DEF SrvRefuse, Dependable
        <5>2. InTx BY <1>a, <1>b, <2>3, <4>1 DEF InTx
        <5>3. ~aborted BY <2>1, <2>3, <4>1, <1>a DEF LinkInv, Intact
        <5>4. op = "release" => Known BY <2>3, <4>1
        <5> QED BY <2>3, <4>1, <5>1, <5>2, <5>3, <5>4 DEF Refused
      <4> QED BY <4>1
    <3>3. at = "undoing" => Height = 0 /\ ~(aborted' /\ op = "release")
      <4>1. ASSUME at = "undoing" PROVE Height = 0 /\ ~(aborted' /\ op = "release")
        <5>1. Refused BY <2>3, <2>4, <4>1 DEF SrvRefuse, Dependable
        <5>2. op = "release" => ~aborted BY <1>0, <4>1 DEF HeightInv
        <5>3. op \in {"release", "rollback_to"} => ~Known
          BY <2>3, <4>1, <5>1, <5>2
             DEF Refused
        <5>4. op = "rollback" => ~InTx BY <2>3, <4>1, <5>1 DEF Refused
        <5>5. Height = 0 BY <1>b, <2>3, <4>1, <5>3, <5>4 DEF InTx
        <5>6. ~aborted' BY <1>b, <2>4, <5>5 DEF SrvRefuse, InTx
        <5> QED BY <5>5, <5>6
      <4> QED BY <4>1
    <3> QED BY <2>1, <2>2, <2>3, <2>4, <3>1, <3>2, <3>3 DEF HeightInv
  <2>6. CASE phase' = "reply_error" /\ levels' = <<>> /\ SrvRefuse /\ RollsBack
    <3>1. Height' = 0 /\ ~Pg' BY <1>c, <1>e, <2>2, <2>6 DEF RollsBack
    <3>2. at \in {"exec", "opening"} BY <2>3, <2>6 DEF RollsBack, Dependable
    <3> QED BY <2>2, <2>6, <3>1, <3>2 DEF HeightInv
  <2>5. CASE /\ phase' = "reply_ok" /\ ~Refused
             /\ aborted' = (aborted /\ op \notin {"commit", "rollback", "rollback_to"})
    <3>1. CASE at = "exec" BY <1>a, <1>b, <2>1, <2>2, <2>3, <2>5, <3>1 DEF HeightInv
    <3>2. CASE at = "opening" BY <1>a, <1>b, <2>1, <2>2, <2>3, <2>5, <3>2 DEF HeightInv
    <3>3. CASE at = "closing" BY <1>a, <1>b, <2>1, <2>2, <2>3, <2>5, <3>3 DEF HeightInv
    <3>4. CASE at = "undoing"
      <4>1. op = "release" => ~aborted BY <1>0, <3>4 DEF HeightInv
      <4>2. op \in {"release", "rollback_to", "rollback"} BY <2>3, <3>4
      <4>3. Height' = IF op \in {"release", "rollback"} THEN Nest - 1 ELSE Nest
        BY <1>a, <2>1, <2>3, <2>5, <3>4, <4>2
      <4>4. aborted' => op \notin {"release", "rollback_to"} BY <2>5, <4>1
      <4> QED BY <2>2, <2>5, <3>4, <4>3, <4>4 DEF HeightInv
    <3> QED BY <2>3, <3>1, <3>2, <3>3, <3>4
  <2> QED BY <2>1, <2>4, <2>5, <2>6
<1>11. CASE Loss
  <2>1. Nest' = Nest /\ Height' = 0 /\ (Pg' <=> Pg) /\ Pg
    BY <1>11, <1>c, <1>e
       DEF Loss, client, script
  <2> QED BY <1>0, <1>11, <1>a, <1>b, <1>d, <2>1
      DEF Loss, client, script, HeightInv, LinkInv, StmtInv
<1>12. CASE UNCHANGED vars
  BY <1>0, <1>12, <1>e DEF vars, client, script, statement, server, history, HeightInv
<1> QED BY <1>1, <1>2, <1>3, <1>4, <1>5, <1>6, <1>7, <1>8, <1>9, <1>10, <1>11, <1>12
           DEF Next, Script, Wrapper

\* A right depth goes wrong only when closing a call fails.
LEMMA DepthForward ==
    ASSUME TypeOK, StmtInv, DepthInv, [Next]_vars, DepthExact, ~CloseFails
    PROVE  DepthExact'
<1>a. Len(frames) \in Nat /\ (frames = <<>> <=> Len(frames) = 0) BY FramesType
<1>b. tx_depth \in Int BY TxAssumption DEF TypeOK
<1>2. ASSUME UNCHANGED <<frames, tx_depth>>,
             at' \in {"closing", "undoing"} <=> at \in {"closing", "undoing"}
      PROVE  DepthExact'
  BY <1>2 DEF DepthExact
<1>3. ASSUME NEW w \in Writes, Exec(w) PROVE DepthExact' BY <1>2, <1>3 DEF Exec, client
<1>4. ASSUME NEW o \in ManualOps, Manual(o) PROVE DepthExact'
  BY <1>2, <1>4
     DEF Manual, client
<1>5. CASE ExecReturns \/ Throw \/ Caught \/ Transaction \/ OpenFails
  BY <1>2, <1>5 DEF ExecReturns, Throw, Caught, Transaction, OpenFails, client
<1>6. CASE Opened
  <2>1. Len(frames') = Len(frames) + 1 BY <1>6, OpenedEffect
  <2> QED BY <1>6, <1>a, <1>b, <2>1 DEF Opened, DepthExact
<1>7. CASE Closed \/ Undone
  <2>0. Len(frames) > 0 BY <1>7 DEF Closed, Undone, StmtInv
  <2>1. Len(frames') = Len(frames) - 1 BY <1>7, <2>0, PopEffect DEF Closed, Undone
  <2> QED BY <1>7, <1>a, <1>b, <2>1 DEF Closed, Undone, client, DepthExact
<1>8. CASE BodyReturns \/ BodyThrows
  <2>1. tx_depth' = tx_depth - 1 /\ frames' = frames /\ at' \in {"undoing", "closing"}
        /\ at \notin {"undoing", "closing"}
    BY <1>8 DEF BodyReturns, BodyThrows, Undo
  <2> QED BY <1>a, <1>b, <2>1 DEF DepthExact
<1>9. CASE ReleaseUndone \/ Client \/ Server \/ Loss
  <2>1. UNCHANGED <<tx_depth, script>>
    BY <1>9
       DEF ReleaseUndone, Client, ProbeFine, ProbeTxLost, ProbeReconnect, ProbeNoServer,
          Send, SendFails, SendAgain, Reply, ReplyLost, Server, SrvRefuse, SrvBegin,
          SrvSavepoint, SrvRelease, SrvRollbackTo, SrvCommit, SrvRollback, SrvWrite, Answer,
          Loss, client
  <2> QED BY <1>2, <2>1 DEF script
<1>10. CASE UNCHANGED vars BY <1>2, <1>10 DEF vars, script, client
<1> QED BY <1>3, <1>4, <1>5, <1>6, <1>7, <1>8, <1>9, <1>10 DEF Next, Script, Wrapper

LEMMA LossesStep ==
    ASSUME TypeOK, [Next]_vars, losses' = 0
    PROVE  losses = 0
<1>a. losses \in Nat BY TxAssumption DEF TypeOK
<1>1. ASSUME NEW w \in Writes, Exec(w) PROVE losses' = losses BY <1>1 DEF Exec
<1>2. ASSUME NEW o \in ManualOps, Manual(o) PROVE losses' = losses BY <1>2 DEF Manual
<1>3. CASE ExecReturns \/ Throw \/ Caught \/ Wrapper
  BY <1>3
     DEF ExecReturns, Throw, Caught, Wrapper, Transaction, Opened, OpenFails,
         BodyReturns,
        Closed, BodyThrows, CloseFails, ReleaseUndone, Undone, history
<1>4. CASE Client \/ Server
  BY <1>4
     DEF Client, ProbeFine, ProbeTxLost, ProbeReconnect, ProbeNoServer, Send, SendFails,
        SendAgain, Reply, ReplyLost, Server, SrvRefuse, SrvBegin, SrvSavepoint, SrvRelease,
        SrvRollbackTo, SrvCommit, SrvRollback, SrvWrite, Answer, history
<1>5. CASE Loss
  <2>1. losses' = losses + 1 BY <1>5 DEF Loss
  <2> QED BY <1>a, <2>1
<1>6. CASE UNCHANGED vars BY <1>6 DEF vars, history
<1> QED BY <1>1, <1>2, <1>3, <1>4, <1>5, <1>6 DEF Next, Script

(***************************************************************************)
(* What the client counts is what is open.                                 *)
(***************************************************************************)
OpenInv == CallInv /\ LinkInv /\ BaseInv /\ (Intact => LevelsInv) /\ DepthMatches

LEMMA OpenInit ==
    ASSUME Dependable
    PROVE  Init => OpenInv
<1> SUFFICES ASSUME Init PROVE OpenInv OBVIOUS
<1>1. CallInv BY CallInit
<1>2. Nest = 0 /\ Height = 0 /\ (driver = "sqlite" \/ driver = "postgres")
  BY DEF Init, Nest, Height, Dependable
<1>3. LinkInv BY <1>2 DEF LinkInv, Init, Pg, Answered
<1>4. BaseInv BY <1>2 DEF BaseInv, Init, Pg, Answered, Over
<1>5. LevelsInv
  <2>1. NumberInv BY <1>2 DEF NumberInv
  <2>2. HeightInv BY <1>2 DEF HeightInv, Level0, Init
  <2> QED BY <2>1, <2>2 DEF LevelsInv
<1>6. DepthMatches BY <1>2 DEF DepthMatches, DepthExact, Init, Nest
<1> QED BY <1>1, <1>3, <1>4, <1>5, <1>6 DEF OpenInv

LEMMA OpenStep ==
    ASSUME Dependable
    PROVE  OpenInv /\ [Next]_vars => OpenInv'
<1> SUFFICES ASSUME OpenInv, [Next]_vars PROVE OpenInv' OBVIOUS
<1>1. TypeOK /\ StmtInv /\ DepthInv /\ StackInv /\ CallInv BY DEF OpenInv, CallInv
<1>2. LinkInv /\ BaseInv BY DEF OpenInv
<1>3. CallInv' BY <1>1, CallStep
<1>4. LinkInv' BY <1>1, <1>2, LinkStep
<1>5. BaseInv' BY <1>1, <1>2, BaseStep
<1>6. ASSUME Intact' PROVE LevelsInv'
  <2>1. Intact /\ ~CloseFails /\ (Caught => frames = <<>> \/ levels # <<>>)
    BY <1>1, <1>6, IntactBack
  <2>2. LevelsInv BY <2>1 DEF OpenInv
  <2>3. NumberInv' BY <1>1, <1>2, <2>1, <2>2, NumberStep
  <2>4. HeightInv' BY <1>1, <1>2, <2>1, <2>2, HeightStep
  <2> QED BY <2>3, <2>4 DEF LevelsInv
<1>7. ASSUME losses' = 0, ~adrift' PROVE DepthExact'
  <2>1. losses = 0 /\ ~adrift BY <1>1, <1>7, LossesStep, AdriftStays
  <2>2. DepthExact /\ LevelsInv /\ up BY <1>2, <2>1 DEF OpenInv, DepthMatches, Intact, LinkInv
  <2>3. ~CloseFails BY <1>2, <2>2 DEF CloseFails, LevelsInv, HeightInv, LinkInv, Over
  <2> QED BY <1>1, <2>2, <2>3, DepthForward
<1> QED BY <1>3, <1>4, <1>5, <1>6, <1>7 DEF OpenInv, DepthMatches

LEMMA OpenInvariant ==
    ASSUME Dependable
    PROVE  Spec => []OpenInv
BY OpenInit, OpenStep, PTL DEF Spec

\* With SQLite and PostgreSQL tx_depth counts exactly the calls whose body is
\* running as long as no connection was lost and no body went on without its
\* transaction, and a connection whose scripts use db::transaction only goes
\* back to the pool without a transaction, whatever was lost or caught.
THEOREM OpenIsKnown ==
    ASSUME Dependable
    PROVE  Spec => []OpenMatches
<1>1. OpenInv => OpenMatches
  <2> SUFFICES ASSUME OpenInv PROVE OpenMatches OBVIOUS
  <2>1. DepthMatches BY DEF OpenInv
  <2>2. NothingLeftOpen
    <3>1. frames = <<>> => Nest = 0 BY DEF Nest
    <3>2. phase = "none" => at # "opening" BY DEF OpenInv, CallInv, StmtInv
    <3> QED BY <3>1, <3>2 DEF OpenInv, BaseInv, NothingLeftOpen
  <2> QED BY <2>1, <2>2 DEF OpenMatches
<1> QED BY <1>1, OpenInvariant, PTL

-----------------------------------------------------------------------------
(***************************************************************************)
(* Where a write is.                                                       *)
(***************************************************************************)

\* A write of a call is pending only while its outermost call is under way;
\* one that no script has issued is nowhere.
PendInv(w) ==
    /\ w \in Pending /\ inside[w] # {0} => Nest > 0 /\ frames[1].id \in inside[w]
    /\ \/ 0 \in inside[w]
       \/ inside[w] = {} /\ w \notin Pending /\ w \notin committed /\ w \notin acked

\* A write becomes pending by being run and permanent by being run or by
\* having been pending.
LEMMA PendingStep ==
    ASSUME TypeOK, StmtInv, [Next]_vars, NEW w \in Pending'
    PROVE  w \in Pending \/ (SrvWrite /\ w = arg)
<1>a. /\ levels \in Seq(LevelType) /\ Len(levels) \in Nat
      /\ \A v : v \in Pending <=> \E i \in 1 .. Len(levels) : v \in levels[i].ws
  BY LevelsType
<1>b. \E i \in DOMAIN levels' : w \in levels'[i].ws BY DEF Pending
<1>c. ASSUME levels' \in Seq(LevelType) PROVE \E i \in 1 .. Len(levels') : w \in levels'[i].ws
  BY <1>b, <1>c
<1>1. CASE levels' = levels BY <1>1 DEF Pending
<1>2. CASE levels' = <<>> BY <1>2, <1>b
<1>3. CASE SrvBegin /\ levels' # levels
  <2>1. levels' = <<Level(0)>> BY <1>3 DEF SrvBegin, Answer
  <2> QED BY <1>b, <2>1 DEF Level
<1>4. CASE SrvSavepoint /\ levels' # levels
  <2>1. levels' = Append(levels, Level(arg)) \/ levels' = <<Level(arg), Level(arg)>>
    BY <1>4 DEF SrvSavepoint, Answer
  <2>2. CASE levels' = <<Level(arg), Level(arg)>> BY <1>b, <2>2 DEF Level
  <2>3. CASE levels' = Append(levels, Level(arg))
    <3>1. phase = "server" /\ op = "savepoint" BY <1>4 DEF SrvSavepoint, SrvAccepts
    <3>2. tx_depth \in Int /\ at \in {"script", "exec", "opening", "closing", "undoing", "throwing"}
      BY TxAssumption DEF TypeOK
    <3>3. arg \in Nat BY <3>1, <3>2, TxAssumption DEF StmtInv
    <3>4. /\ levels' \in Seq(LevelType) /\ Len(levels') = Len(levels) + 1
          /\ \A j \in 1 .. Len(levels) : levels'[j] = levels[j]
          /\ levels'[Len(levels) + 1].ws = {}
      BY <2>3, <3>3, PushEffect
    <3>5. PICK i \in 1 .. Len(levels') : w \in levels'[i].ws BY <1>c, <3>4
    <3>6. i \in 1 .. Len(levels) BY <1>a, <3>4, <3>5
    <3> QED BY <1>a, <3>4, <3>5, <3>6
  <2> QED BY <2>1, <2>2, <2>3
<1>5. CASE SrvRelease /\ levels' # <<>>
  <2>0. ~Began BY <1>5, BeganEffect
  <2>1. /\ Newest \in 2 .. Len(levels)
        /\ levels' \in Seq(LevelType) /\ Len(levels') = Newest - 1
        /\ \A j \in 1 .. Newest - 2 : levels'[j].ws = levels[j].ws
        /\ \A v : v \in levels'[Newest - 1].ws <=>
                         \E i \in Newest - 1 .. Len(levels) : v \in levels[i].ws
    BY <1>5, <2>0, ReleaseEffect
  <2>2. PICK i \in 1 .. Newest - 1 : w \in levels'[i].ws BY <1>c, <2>1
  <2>3. Newest \in Nat BY <1>a, <2>1
  <2>4. CASE i \in 1 .. Newest - 2
    <3>1. i \in 1 .. Len(levels) BY <1>a, <2>1, <2>3, <2>4
    <3> QED BY <1>a, <2>1, <2>2, <2>4, <3>1
  <2>5. CASE i = Newest - 1
    <3>1. PICK k \in Newest - 1 .. Len(levels) : w \in levels[k].ws BY <2>1, <2>2, <2>5
    <3>2. k \in 1 .. Len(levels) BY <1>a, <2>1, <2>3
    <3> QED BY <1>a, <3>1, <3>2
  <2> QED BY <2>2, <2>3, <2>4, <2>5
<1>6. CASE SrvRollbackTo
  <2>1. /\ Newest \in 2 .. Len(levels)
        /\ levels' \in Seq(LevelType) /\ Len(levels') = Newest
        /\ \A j \in 1 .. Newest - 1 : levels'[j].ws = levels[j].ws
        /\ levels'[Newest].ws = {}
    BY <1>6, RollbackToEffect
  <2>2. PICK i \in 1 .. Newest : w \in levels'[i].ws BY <1>c, <2>1
  <2>3. i \in 1 .. Newest - 1 /\ i \in 1 .. Len(levels) BY <1>a, <2>1, <2>2
  <2> QED BY <1>a, <2>1, <2>2, <2>3
<1>7. CASE SrvWrite /\ levels' # levels
  <2>1. arg \in Writes BY <1>7 DEF SrvWrite, StmtInv
  <2>2. levels' = [levels EXCEPT ![Len(levels)].ws = @ \cup {arg}] /\ levels # <<>>
    BY <1>7 DEF SrvWrite, Answer, InTx
  <2>3. /\ levels' \in Seq(LevelType) /\ Len(levels') = Len(levels)
        /\ \A j \in 1 .. Len(levels) : j # Len(levels) => levels'[j].ws = levels[j].ws
        /\ levels'[Len(levels)].ws = levels[Len(levels)].ws \cup {arg}
    BY <2>1, <2>2, WriteEffect
  <2>4. PICK i \in 1 .. Len(levels) : w \in levels'[i].ws BY <1>c, <2>3
  <2>5. w = arg \/ w \in levels[i].ws BY <2>3, <2>4
  <2> QED BY <1>7, <1>a, <2>4, <2>5
<1>8. CASE SrvRefuse \/ SrvCommit \/ SrvRollback
  BY <1>1, <1>2, <1>8 DEF SrvRefuse, SrvCommit, SrvRollback, Answer
<1> QED BY <1>1, <1>2, <1>3, <1>4, <1>5, <1>6, <1>7, <1>8, LevelsStay DEF Server

LEMMA CommittedStep ==
    ASSUME [Next]_vars, NEW w \in committed', w \notin committed
    PROVE  \/ SrvBegin /\ w \in Pending /\ ~(InTx /\ driver = "postgres")
           \/ SrvCommit /\ w \in Pending
           \/ SrvRelease /\ Began /\ w \in Pending
           \/ SrvWrite /\ w = arg /\ ~InTx
<1>1. ASSUME NEW v \in Writes, Exec(v) PROVE committed' = committed
  BY <1>1
     DEF Exec, server
<1>2. ASSUME NEW o \in ManualOps, Manual(o) PROVE committed' = committed
  BY <1>2
     DEF Manual, server
<1>3. CASE ExecReturns \/ Throw \/ Caught \/ Wrapper
  BY <1>3
     DEF ExecReturns, Throw, Caught, Wrapper, Transaction, Opened, OpenFails,
         BodyReturns,
        Closed, BodyThrows, CloseFails, ReleaseUndone, Undone, server
<1>4. CASE Client \/ Loss
  BY <1>4
     DEF Client, ProbeFine, ProbeTxLost, ProbeReconnect, ProbeNoServer, Send, SendFails,
        SendAgain, Reply, ReplyLost, Loss, server
<1>5. CASE SrvRefuse \/ SrvSavepoint \/ SrvRelease \/ SrvRollbackTo \/ SrvRollback
  BY <1>5 DEF SrvRefuse, SrvSavepoint, SrvRelease, SrvRollbackTo, SrvRollback, Answer
<1>6. CASE SrvBegin BY <1>6 DEF SrvBegin, Answer
<1>7. CASE SrvCommit BY <1>7 DEF SrvCommit, Answer
<1>8. CASE SrvWrite BY <1>8 DEF SrvWrite, Answer
<1>9. CASE UNCHANGED vars BY <1>9 DEF vars, server
<1> QED BY <1>1, <1>2, <1>3, <1>4, <1>5, <1>6, <1>7, <1>8, <1>9 DEF Next, Script, Server

\* The calls a write was issued in are fixed when it is issued.
LEMMA InsideStep ==
    ASSUME TypeOK, [Next]_vars, NEW w \in Writes
    PROVE  /\ ~Exec(w) => inside'[w] = inside[w]
           /\ ExecReturns \/ acked' = acked
<1>1. ASSUME NEW v \in Writes, Exec(v)
      PROVE  (~Exec(w) => inside'[w] = inside[w]) /\ acked' = acked
  <2>1. CASE v = w BY <1>1, <2>1 DEF Exec
  <2>2. CASE v # w BY <1>1, <2>2 DEF Exec, TypeOK
  <2> QED BY <2>1, <2>2
<1>2. ASSUME NEW o \in ManualOps, Manual(o) PROVE UNCHANGED <<inside, acked>>
  BY <1>2
     DEF Manual
<1>3. CASE ExecReturns BY <1>3 DEF ExecReturns
<1>4. CASE Throw \/ Caught \/ Wrapper
  BY <1>4 DEF Throw, Caught, Wrapper, Transaction, Opened, OpenFails, BodyReturns,
        Closed, BodyThrows, CloseFails, ReleaseUndone, Undone, history
<1>5. CASE Client \/ Loss \/ Server
  BY <1>5
     DEF Client, ProbeFine, ProbeTxLost, ProbeReconnect, ProbeNoServer, Send, SendFails,
        SendAgain, Reply, ReplyLost, Loss, Server, SrvRefuse, SrvBegin, SrvSavepoint, SrvRelease,
        SrvRollbackTo, SrvCommit, SrvRollback, SrvWrite, Answer, history
<1>6. CASE UNCHANGED vars BY <1>6 DEF vars, history
<1> QED BY <1>1, <1>2, <1>3, <1>4, <1>5, <1>6 DEF Next, Script

\* An outcome that ends a call is not taken back.
LEMMA OutcomeStep ==
    ASSUME TypeOK, StmtInv, DepthInv, StackInv, [Next]_vars, NEW i \in 1 .. ntx
    PROVE  /\ outcome[i] = "returned" => outcome'[i] = "returned"
           /\ outcome[i] \in {"threw", "unsure"} => outcome'[i] \in {"threw", "unsure"}
           /\ outcome[i] = "threw" => outcome'[i] = "threw"
<1>0. ntx \in Nat /\ ntx <= MaxTx /\ i \in Calls /\ i # ntx + 1
  BY TxAssumption DEF TypeOK, Calls
<1>1. ASSUME outcome' = outcome
      PROVE  /\ outcome[i] = "returned" => outcome'[i] = "returned"
             /\ outcome[i] \in {"threw", "unsure"} => outcome'[i] \in {"threw", "unsure"}
             /\ outcome[i] = "threw" => outcome'[i] = "threw"
  BY <1>1
<1>2. ASSUME NEW v \in Writes, Exec(v) PROVE outcome' = outcome BY <1>2 DEF Exec
<1>3. ASSUME NEW o \in ManualOps, Manual(o) PROVE outcome' = outcome BY <1>3 DEF Manual
<1>4. CASE ExecReturns \/ Throw \/ Caught \/ Transaction \/ OpenFails \/ BodyReturns
           \/ ReleaseUndone \/ Undone
  BY <1>1, <1>4 DEF ExecReturns, Throw, Caught, Transaction, OpenFails, BodyReturns,
        ReleaseUndone, Undone, history
<1>5. CASE Opened
  <2>1. outcome'[i] = outcome[i] BY <1>0, <1>5 DEF Opened, TypeOK
  <2> QED BY <2>1
<1>6. CASE Closed \/ BodyThrows \/ CloseFails
  <2>0. Len(frames) > 0 /\ at # "undoing" /\ Len(frames) \in 1 .. Len(frames)
    BY <1>6, FramesType DEF Closed, BodyThrows, CloseFails, StmtInv
  <2>1. outcome[Top.id] = "open" BY <2>0 DEF StackInv, Top
  <2>2. \E o : outcome' = [outcome EXCEPT ![Top.id] = o]
    BY <1>6 DEF Closed, BodyThrows, CloseFails
  <2>3. i # Top.id => outcome'[i] = outcome[i] BY <1>0, <2>2 DEF TypeOK
  <2> QED BY <2>1, <2>3
<1>7. CASE Client \/ Loss \/ Server
  BY <1>1, <1>7
     DEF Client, ProbeFine, ProbeTxLost, ProbeReconnect, ProbeNoServer, Send, SendFails,
        SendAgain, Reply, ReplyLost, Loss, Server, SrvRefuse, SrvBegin, SrvSavepoint, SrvRelease,
        SrvRollbackTo, SrvCommit, SrvRollback, SrvWrite, Answer, history
<1>8. CASE UNCHANGED vars BY <1>1, <1>8 DEF vars, history
<1> QED BY <1>1, <1>2, <1>3, <1>4, <1>5, <1>6, <1>7, <1>8 DEF Next, Script, Wrapper

\* The outermost call stays where it is until it has ended, and when it has
\* the transaction is closed.
LEMMA OutermostStep ==
    ASSUME TypeOK, StmtInv, DepthInv, StackInv, BaseInv, [Next]_vars, Nest > 0
    PROVE  \/ Nest' > 0 /\ frames'[1] = frames[1]
           \/ (Closed \/ Undone) /\ Nest = 1 /\ Nest' = 0 /\ levels = <<>> /\ Top = frames[1]
<1>a. Len(frames) \in Nat BY FramesType
<1>1. CASE frames' = frames BY <1>1 DEF Nest
<1>2. CASE Opened
  <2>1. Len(frames') = Len(frames) + 1 /\ \A i \in 1 .. Len(frames) : frames'[i] = frames[i]
    BY <1>2, OpenedEffect
  <2> QED BY <1>a, <2>1 DEF Nest
<1>3. CASE Closed \/ Undone
  <2>1. /\ Len(frames') = Len(frames) - 1
        /\ \A i \in 1 .. Len(frames) - 1 : frames'[i] = frames[i]
    BY <1>3, PopEffect DEF Closed, Undone, Nest
  <2>2. CASE Len(frames) > 1 BY <1>a, <2>1, <2>2 DEF Nest
  <2>3. CASE ~(Len(frames) > 1)
    <3>1. Len(frames) = 1
      <4>1. \A k \in Nat : k > 0 /\ ~(k > 1) => k = 1 OBVIOUS
      <4>2. Len(frames) > 0 BY DEF Nest
      <4> QED BY <1>a, <2>3, <4>1, <4>2, Zenon
    <3>2. Top = frames[1] /\ ~Top.nested BY <3>1 DEF Top, StackInv
    <3>3. levels = <<>> BY <1>3, <3>2 DEF Closed, Undone, StmtInv, BaseInv
    <3> QED BY <1>3, <2>1, <3>1, <3>2, <3>3 DEF Nest
  <2> QED BY <2>2, <2>3
<1> QED BY <1>1, <1>2, <1>3, FramesStay

\* The calls of the write under way.
LEMMA WriteScope ==
    ASSUME TypeOK, StmtInv, op = "write"
    PROVE  /\ arg \in Writes /\ 0 \in inside[arg]
           /\ \A i \in 1 .. Nest : frames[i].id \in inside[arg]
           /\ \A i \in inside[arg] \ {0} : \E m \in 1 .. Nest : frames[m].id = i
           /\ inside[arg] # {0} => Nest > 0
<1>a. Len(frames) \in Nat /\ DOMAIN frames = 1 .. Len(frames) BY FramesType
<1>1. arg \in Writes /\ inside[arg] = {0} \cup {frames[i].id : i \in DOMAIN frames}
  BY DEF StmtInv
<1>2. inside[arg] # {0} => \E i \in DOMAIN frames : TRUE BY <1>1
<1> QED BY <1>1, <1>2, <1>a DEF Nest

LEMMA PendStep ==
    ASSUME TypeOK, StmtInv, DepthInv, StackInv, BaseInv, [Next]_vars, NEW w \in Writes, PendInv(w)
    PROVE  PendInv(w)'
<1>a. Len(frames) \in Nat /\ DOMAIN frames = 1 .. Len(frames) BY FramesType
<1>1. CASE Exec(w)
  <2>1. w \notin Pending BY <1>1 DEF Exec, PendInv
  <2>2. w \notin Pending' BY <1>1, <2>1 DEF Exec, server, Pending
  <2>3. 0 \in inside'[w] BY <1>1 DEF Exec, TypeOK
  <2> QED BY <2>2, <2>3 DEF PendInv
<1>2. CASE ~Exec(w)
  <2>0. inside'[w] = inside[w] BY <1>2, InsideStep
  <2>1. ASSUME w \in Pending', inside[w] # {0}
        PROVE  Nest' > 0 /\ frames'[1].id \in inside[w]
    <3>1. CASE w \in Pending
      <4>1. Nest > 0 /\ frames[1].id \in inside[w] BY <2>1, <3>1 DEF PendInv
      <4>2. levels # <<>> BY <3>1 DEF Pending
      <4> QED BY <4>1, <4>2, OutermostStep
    <3>2. CASE SrvWrite /\ w = arg
      <4>1. op = "write" /\ frames' = frames BY <3>2 DEF SrvWrite, Answer, script
      <4>2. Nest > 0 /\ \A i \in 1 .. Nest : frames[i].id \in inside[w]
        BY <2>1, <3>2, <4>1, WriteScope
      <4>3. 1 \in 1 .. Nest BY <1>a, <4>2 DEF Nest
      <4> QED BY <4>1, <4>2, <4>3 DEF Nest
    <3> QED BY <2>1, <3>1, <3>2, PendingStep
  <2>2. ASSUME 0 \notin inside[w]
        PROVE  inside[w] = {} /\ w \notin Pending' /\ w \notin committed' /\ w \notin acked'
    <3>1. inside[w] = {} /\ w \notin Pending /\ w \notin committed /\ w \notin acked
      BY <2>2 DEF PendInv
    <3>2. op = "write" => w # arg BY <2>2, WriteScope
    <3>3. w \notin Pending' BY <3>1, <3>2, PendingStep DEF SrvWrite
    <3>4. w \notin committed' BY <3>1, <3>2, CommittedStep DEF SrvWrite
    <3>5. w \notin acked' BY <3>1, <3>2, InsideStep DEF ExecReturns
    <3> QED BY <3>1, <3>3, <3>4, <3>5
  <2> QED BY <2>0, <2>1, <2>2 DEF PendInv
<1> QED BY <1>1, <1>2

-----------------------------------------------------------------------------
(***************************************************************************)
(* While the depth is right: a write on level j was issued in call j, and  *)
(* each of its calls has returned or is one of the first j.                *)
(***************************************************************************)
PrefixInv(w) ==
    \A i, j \in 1 .. Nest : i < j /\ frames[j].id \in inside[w] => frames[i].id \in inside[w]

HeldAt(w, j) ==
    /\ inside[w] # {0} => j <= Nest /\ frames[j].id \in inside[w]
    /\ \A i \in inside[w] \ {0} :
         \/ outcome[i] = "returned"
         \/ \E m \in 1 .. Nest : m <= j /\ frames[m].id = i
         \/ at = "closing" /\ Done /\ i = Top.id

HeldInv(w) == \A j \in 1 .. Height : w \in levels[j].ws => HeldAt(w, j)

\* What ROLLBACK TO has undone is not there for RELEASE to keep.
EmptyInv(w) ==
    (/\ at = "undoing" /\ Height = Nest
     /\ op = "release" \/ (op = "rollback_to" /\ phase \in {"reply_ok", "ok"}))
    => w \notin levels[Nest].ws

LEMMA PrefixStep ==
    ASSUME TypeOK, StmtInv, DepthInv, StackInv, [Next]_vars, NEW w \in Writes, PrefixInv(w)
    PROVE  PrefixInv(w)'
<1>a. Len(frames) \in Nat /\ DOMAIN frames = 1 .. Len(frames) BY FramesType
<1>b. ntx \in Nat /\ inside[w] \subseteq 0 .. ntx BY DEF TypeOK, StackInv
<1>1. CASE Exec(w)
  <2>1. inside'[w] = {0} \cup {frames[i].id : i \in DOMAIN frames} /\ frames' = frames
    BY <1>1 DEF Exec, TypeOK
  <2> QED BY <1>a, <2>1 DEF PrefixInv, Nest
<1>2. CASE ~Exec(w)
  <2>0. inside'[w] = inside[w] BY <1>2, InsideStep
  <2>1. CASE frames' = frames BY <2>0, <2>1 DEF PrefixInv, Nest
  <2>2. CASE Opened
    <3>1. /\ Len(frames') = Len(frames) + 1
          /\ \A i \in 1 .. Len(frames) : frames'[i] = frames[i]
          /\ frames'[Len(frames) + 1].id = ntx + 1
      BY <2>2, OpenedEffect
    <3>2. ntx + 1 \notin inside[w] BY <1>b
    <3>3. ASSUME NEW i \in 1 .. Nest', NEW j \in 1 .. Nest', i < j, frames'[j].id \in inside[w]
          PROVE  frames'[i].id \in inside[w]
      <4>1. j # Len(frames) + 1 BY <3>1, <3>2, <3>3
      <4>2. j \in 1 .. Len(frames) /\ i \in 1 .. Len(frames)
        BY <1>a, <3>1, <3>3, <4>1
           DEF Nest
      <4> QED BY <3>1, <3>3, <4>2 DEF PrefixInv, Nest
    <3> QED BY <2>0, <3>3 DEF PrefixInv
  <2>3. CASE Closed \/ Undone
    <3>1. /\ Len(frames') = Len(frames) - 1
          /\ \A i \in 1 .. Len(frames) - 1 : frames'[i] = frames[i]
      BY <2>3, PopEffect DEF Closed, Undone, StmtInv
    <3>2. ASSUME NEW i \in 1 .. Nest', NEW j \in 1 .. Nest', i < j, frames'[j].id \in inside[w]
          PROVE  frames'[i].id \in inside[w]
      <4>1. j \in 1 .. Len(frames) /\ i \in 1 .. Len(frames) BY <1>a, <3>1 DEF Nest
      <4>2. frames'[i] = frames[i] /\ frames'[j] = frames[j] BY <3>1 DEF Nest
      <4> QED BY <3>2, <4>1, <4>2 DEF PrefixInv, Nest
    <3> QED BY <2>0, <3>2 DEF PrefixInv
  <2> QED BY <2>1, <2>2, <2>3, FramesStay
<1> QED BY <1>1, <1>2

\* A COMMIT or RELEASE that has been carried out stays so until the client
\* has heard of it.
LEMMA DoneStays ==
    ASSUME TypeOK, StmtInv, LinkInv, [Next]_vars, at = "closing", Done, ~Closed, levels' # <<>>
    PROVE  at' = "closing" /\ Done'
<1> USE DEF Done, Over
<1>0. phase \in {"reply_ok", "ok"} /\ up
  BY LevelsStay
     DEF LinkInv, Server, SrvRefuse, SrvBegin, SrvSavepoint, SrvRelease, SrvRollbackTo,
     SrvCommit, SrvRollback, SrvWrite, SrvAccepts
<1>1. ASSUME NEW v \in Writes, Exec(v) PROVE FALSE BY <1>1 DEF Exec
<1>2. ASSUME NEW o \in ManualOps, Manual(o) PROVE FALSE BY <1>2 DEF Manual
<1>3. CASE ExecReturns \/ Throw \/ Caught \/ Wrapper
  BY <1>0, <1>3
     DEF ExecReturns, Throw, Caught, Wrapper, Transaction, Opened, OpenFails,
         BodyReturns,
        BodyThrows, CloseFails, ReleaseUndone, Undone
<1>4. CASE Client
  BY <1>0, <1>4
     DEF Client, ProbeFine, ProbeTxLost, ProbeReconnect, ProbeNoServer, Send, SendFails,
        SendAgain, SendBreaks, Reply, ReplyLost, script, server
<1>5. CASE Server
  BY <1>0, <1>5 DEF Server, SrvRefuse, SrvBegin, SrvSavepoint, SrvRelease,
        SrvRollbackTo, SrvCommit, SrvRollback, SrvWrite, SrvAccepts
<1>6. CASE Loss BY <1>6 DEF Loss
<1>7. CASE UNCHANGED vars BY <1>7 DEF vars, script, statement, server
<1> QED BY <1>1, <1>2, <1>3, <1>4, <1>5, <1>6, <1>7 DEF Next, Script

\* A level keeps its writes while nothing happens on the server.
LEMMA HeldStays ==
    ASSUME Dependable, TypeOK, StmtInv, DepthInv, StackInv, LinkInv, LevelsInv, [Next]_vars,
           NEW w \in Writes, PendInv(w), NEW j \in 1 .. Height, w \in levels[j].ws, HeldAt(w, j),
           levels' # <<>>, levels' = levels \/ Server, phase = "server" => ~(at = "closing" /\ Done)
    PROVE  HeldAt(w, j)'
<1>a. Nest \in Nat /\ DOMAIN frames = 1 .. Nest BY FramesType DEF Nest
<1>b. ntx \in Nat /\ inside[w] \subseteq 0 .. ntx BY DEF TypeOK, StackInv
<1>c. Height \in Nat /\ w \in Pending BY LevelsType DEF Height
<1>0. ~Exec(w) BY <1>c DEF Exec, PendInv
<1>1. inside'[w] = inside[w] BY <1>0, InsideStep
<1>2. ASSUME NEW i \in inside[w] \ {0}, outcome[i] = "returned" PROVE outcome'[i] = "returned"
  <2>1. i \in 1 .. ntx BY <1>b, <1>2
  <2> QED BY <1>2, <2>1, OutcomeStep
<1>3. CASE frames' = frames /\ ~Closed
  <2>1. Nest' = Nest /\ Top' = Top BY <1>3 DEF Nest, Top
  <2>2. ASSUME NEW i \in inside[w] \ {0}
        PROVE  \/ outcome'[i] = "returned"
               \/ \E m \in 1 .. Nest : m <= j /\ frames'[m].id = i
               \/ at' = "closing" /\ Done' /\ i = Top.id
    BY <1>2, <1>3, DoneStays DEF HeldAt
  <2> QED BY <1>1, <1>3, <2>1, <2>2 DEF HeldAt
<1>4. CASE Opened
  <2>1. Len(frames') = Len(frames) + 1 /\ \A i \in 1 .. Len(frames) : frames'[i] = frames[i]
    BY <1>4, OpenedEffect
  <2>2. at # "closing" BY <1>4 DEF Opened
  <2>3. Nest' = Nest + 1 /\ \A i \in 1 .. Nest : frames'[i] = frames[i] /\ i \in 1 .. Nest'
    BY <1>a, <2>1 DEF Nest
  <2>4. ASSUME NEW i \in inside[w] \ {0}
        PROVE  outcome'[i] = "returned" \/ \E m \in 1 .. Nest' : m <= j /\ frames'[m].id = i
    <3>1. CASE outcome[i] = "returned" BY <1>2, <3>1
    <3>2. CASE outcome[i] # "returned"
      <4>1. PICK m \in 1 .. Nest : m <= j /\ frames[m].id = i BY <2>2, <3>2 DEF HeldAt
      <4> QED BY <2>3, <4>1
    <3> QED BY <3>1, <3>2
  <2>5. ASSUME inside[w] # {0} PROVE j <= Nest' /\ frames'[j].id \in inside[w]
    <3>1. j <= Nest /\ frames[j].id \in inside[w] BY <2>5 DEF HeldAt
    <3>2. j \in 1 .. Nest BY <1>a, <1>c, <3>1
    <3> QED BY <1>a, <1>c, <2>3, <3>1, <3>2
  <2> QED BY <1>1, <2>4, <2>5 DEF HeldAt
<1>5. CASE Closed \/ Undone
  <2>0. Nest > 0 BY <1>5 DEF Closed, Undone, StmtInv, Nest
  <2>1. /\ Len(frames') = Len(frames) - 1
        /\ \A i \in 1 .. Len(frames) - 1 : frames'[i] = frames[i]
    BY <1>5, PopEffect DEF Closed, Undone, StmtInv
  <2>2. Nest' = Nest - 1 /\ \A i \in 1 .. Nest - 1 : frames'[i] = frames[i] /\ i \in 1 .. Nest'
    BY <1>a, <2>1 DEF Nest
  <2>3. Height <= Nest - 1
    <3>1. Height = 0 \/ Height = Nest - 1
      BY <1>5 DEF Closed, Undone, LevelsInv, HeightInv, StmtInv, Lost, Done, Over
    <3> QED BY <1>a, <2>0, <3>1
  <2>4. j \in 1 .. Nest - 1 /\ j <= Nest' BY <1>a, <1>c, <2>2, <2>3
  <2>5. ASSUME NEW i \in inside[w] \ {0}
        PROVE  outcome'[i] = "returned" \/ \E m \in 1 .. Nest' : m <= j /\ frames'[m].id = i
    <3>1. CASE outcome[i] = "returned" BY <1>2, <3>1
    <3>2. CASE at = "closing" /\ Done /\ i = Top.id
      <4>1. Closed BY <1>5, <3>2 DEF Undone
      <4>2. i \in Calls BY <2>0, <3>2, <1>a, FramesType DEF Top, Nest
      <4> QED BY <3>2, <4>1, <4>2 DEF Closed, TypeOK
    <3>3. CASE \E m \in 1 .. Nest : m <= j /\ frames[m].id = i
      <4>1. PICK m \in 1 .. Nest : m <= j /\ frames[m].id = i BY <3>3
      <4>2. m \in 1 .. Nest - 1 BY <1>a, <2>4, <4>1
      <4> QED BY <2>2, <4>1, <4>2
    <3> QED BY <3>1, <3>2, <3>3 DEF HeldAt
  <2>6. inside[w] # {0} => frames'[j].id \in inside[w] BY <2>2, <2>4 DEF HeldAt
  <2> QED BY <1>1, <2>4, <2>5, <2>6 DEF HeldAt
<1> QED BY <1>3, <1>4, <1>5, FramesStay

LEMMA EmptyStep ==
    ASSUME Dependable, TypeOK, StmtInv, DepthInv, StackInv, LinkInv, Intact, LevelsInv,
           [Next]_vars, ~CloseFails, NEW w \in Writes, EmptyInv(w)
    PROVE  EmptyInv(w)'
<1> USE DEF Over
<1>a. Nest \in Nat BY FramesType DEF Nest
<1>b. Height \in Nat /\ (levels = <<>> <=> Height = 0) BY LevelsType DEF Height
<1>1. ASSUME at' # "undoing" PROVE EmptyInv(w)' BY <1>1 DEF EmptyInv
<1>2. ASSUME levels' = levels, frames' = frames, op' = op, at' = at,
             op = "rollback_to" /\ phase' \in {"reply_ok", "ok"} => phase \in {"reply_ok", "ok"}
      PROVE  EmptyInv(w)'
  BY <1>2 DEF EmptyInv, Nest, Height
<1>3. ASSUME levels' = <<>>, frames' = frames, at' = at PROVE EmptyInv(w)'
  <2>1. Height' = 0 /\ Nest' = Nest /\ (at = "undoing" => Nest > 0)
    BY <1>3 DEF Height, Nest, StmtInv
  <2>2. at = "undoing" => Nest # 0 BY <1>a, <2>1
  <2> QED BY <1>3, <2>1, <2>2 DEF EmptyInv
<1>4. ASSUME NEW v \in Writes, Exec(v) PROVE EmptyInv(w)' BY <1>1, <1>4 DEF Exec
<1>5. ASSUME NEW o \in ManualOps, Manual(o) PROVE EmptyInv(w)' BY <1>1, <1>5 DEF Manual
<1>6. CASE ExecReturns \/ Throw \/ Caught \/ Transaction \/ Opened \/ OpenFails \/ BodyReturns
           \/ Closed \/ Undone
  BY <1>1, <1>6
     DEF ExecReturns, Throw, Caught, Transaction, Opened, OpenFails, BodyReturns,
     Closed, Undone
<1>7. CASE BodyThrows BY <1>7 DEF BodyThrows, Undo, Issue, EmptyInv
<1>8. CASE ReleaseUndone
  BY <1>8 DEF ReleaseUndone, Issue, script, server, EmptyInv, Nest, Height
<1>9. CASE Client
  <2>1. UNCHANGED <<frames, at, op>>
    BY <1>9
       DEF Client, ProbeFine, ProbeTxLost, ProbeReconnect, ProbeNoServer, Send,
           SendFails,
          SendAgain, Reply, ReplyLost, Fail, script
  <2>2. CASE ProbeReconnect \/ SendAgain
    BY <1>3, <2>1, <2>2 DEF ProbeReconnect, SendAgain, FreshSession
  <2>3. CASE Send
    <3>1. CASE up BY <1>2, <2>1, <2>3, <3>1 DEF Send, server
    <3>2. CASE ~up
      <4>1. levels' = <<>> BY <2>3, <3>2 DEF Send, server, LinkInv
      <4> QED BY <1>3, <2>1, <4>1
    <3> QED BY <3>1, <3>2
  <2>4. CASE ProbeFine \/ ProbeTxLost \/ ProbeNoServer \/ SendFails \/ Reply \/ ReplyLost
    BY <1>2, <2>1, <2>4
       DEF ProbeFine, ProbeTxLost, ProbeNoServer, SendFails, Reply, ReplyLost,
       Fail, server
  <2> QED BY <1>9, <2>2, <2>3, <2>4 DEF Client
<1>10. CASE Server
  <2>1. /\ phase = "server" /\ UNCHANGED <<client, script, op, arg, up>>
        /\ \/ phase' = "reply_error" /\ levels' \in {levels, <<>>}
           \/ /\ phase' = "reply_ok"
              /\ \/ op = "begin"
                 \/ op = "savepoint"
                 \/ op = "release" /\ Height = Nest /\ Nest > 1 /\ Height' = Nest - 1
                 \/ /\ op = "rollback_to" /\ Height' = Nest /\ SrvRollbackTo /\ Newest = Nest
                 \/ op \in {"commit", "rollback"}
                 \/ op = "write"
    BY <1>10, ServerStep
  <2>2. Nest' = Nest /\ frames' = frames /\ at' = at BY <2>1 DEF script, Nest
  <2>3. CASE phase' = "reply_error" /\ levels' \in {levels, <<>>}
    <3>1. CASE levels' = levels BY <1>2, <2>1, <2>2, <2>3, <3>1
    <3>2. CASE levels' = <<>> BY <1>3, <2>2, <3>2
    <3> QED BY <2>3, <3>1, <3>2
  <2>4. CASE op \notin {"release", "rollback_to"} BY <2>1, <2>4 DEF EmptyInv
  <2>5. CASE op = "release" /\ Height' = Nest - 1
    <3>1. Height' # Nest' BY <1>a, <2>2, <2>5
    <3> QED BY <3>1 DEF EmptyInv
  <2>6. CASE op = "rollback_to" /\ Height' = Nest /\ SrvRollbackTo /\ Newest = Nest
    <3>1. levels'[Nest].ws = {} BY <2>6, RollbackToEffect
    <3> QED BY <2>2, <3>1 DEF EmptyInv
  <2> QED BY <2>1, <2>3, <2>4, <2>5, <2>6
<1>11. CASE Loss BY <1>3, <1>11 DEF Loss, script
<1>12. CASE UNCHANGED vars BY <1>2, <1>12 DEF vars, script, statement, server
<1> QED BY <1>4, <1>5, <1>6, <1>7, <1>8, <1>9, <1>10, <1>11, <1>12
    DEF Next, Script, Wrapper

LEMMA HeldStep ==
    ASSUME Dependable, TypeOK, StmtInv, DepthInv, StackInv, LinkInv, Intact, LevelsInv,
           [Next]_vars, ~CloseFails, NEW w \in Writes, PendInv(w), PrefixInv(w), EmptyInv(w),
           HeldInv(w)
    PROVE  HeldInv(w)'
<1>a. Nest \in Nat BY FramesType DEF Nest
<1>b. Height \in Nat /\ (levels = <<>> <=> Height = 0) BY LevelsType DEF Height
<1>0. phase = "server" => ~Done BY DEF Done
<1>1. CASE levels' = <<>>
  <2>1. Height' = 0 BY <1>1 DEF Height
  <2> QED BY <2>1 DEF HeldInv
<1>2. CASE levels' = levels /\ levels' # <<>>
  <2>1. Height' = Height BY <1>2 DEF Height
  <2>2. ASSUME NEW j \in 1 .. Height', w \in levels'[j].ws PROVE HeldAt(w, j)'
    <3>1. j \in 1 .. Height /\ w \in levels[j].ws BY <1>2, <2>1, <2>2
    <3>2. HeldAt(w, j) BY <3>1 DEF HeldInv
    <3> QED BY <1>0, <1>2, <3>1, <3>2, HeldStays
  <2> QED BY <2>2 DEF HeldInv
<1>3. CASE Server /\ levels' # levels /\ levels' # <<>>
  <2>1. /\ phase = "server" /\ up /\ UNCHANGED <<client, script, op, arg, up>>
        /\ phase' = "reply_ok"
        /\ \/ op = "begin" /\ Height' = 1 /\ levels'[1] = Level(0)
           \/ /\ op = "savepoint" /\ Height = Nest /\ Height' = Height + 1
              /\ \A j \in 1 .. Height : levels'[j] = levels[j]
              /\ levels'[Height + 1].ws = {}
           \/ /\ op = "release" /\ Height = Nest /\ Nest > 1 /\ Height' = Nest - 1
              /\ SrvRelease /\ ~Began /\ Newest = Nest
           \/ /\ op = "rollback_to" /\ Height = Nest /\ Nest > 1 /\ Height' = Nest
              /\ SrvRollbackTo /\ Newest = Nest
           \/ op = "write" /\ SrvWrite /\ Height' = Height
    BY <1>3, ServerStep
  <2>2. /\ Nest' = Nest /\ frames' = frames /\ at' = at /\ Top' = Top
        /\ UNCHANGED <<inside, outcome>> /\ up'
    BY <1>3, <2>1
       DEF script, Nest, Top, Server, SrvRefuse, SrvBegin, SrvSavepoint, SrvRelease,
        SrvRollbackTo, SrvCommit, SrvRollback, SrvWrite, Answer, history
  <2>3. ASSUME NEW j \in 1 .. Height, w \in levels[j].ws PROVE HeldAt(w, j)'
    <3>1. HeldAt(w, j) BY <2>3 DEF HeldInv
    <3> QED BY <1>0, <1>3, <2>3, <3>1, HeldStays
  <2>4. CASE op = "begin" /\ Height' = 1 /\ levels'[1] = Level(0)
    <3>1. \A j \in 1 .. Height' : j = 1 BY <2>4
    <3>2. levels'[1].ws = {} BY <2>4 DEF Level
    <3> QED BY <2>4, <3>1, <3>2 DEF HeldInv
  <2>5. CASE /\ op = "savepoint" /\ Height' = Height + 1
             /\ \A j \in 1 .. Height : levels'[j] = levels[j]
             /\ levels'[Height + 1].ws = {}
    <3>1. ASSUME NEW j \in 1 .. Height', w \in levels'[j].ws PROVE HeldAt(w, j)'
      <4>1. j \in 1 .. Height BY <1>b, <2>5, <3>1
      <4>2. w \in levels[j].ws BY <2>5, <3>1, <4>1
      <4> QED BY <2>3, <4>1, <4>2
    <3> QED BY <3>1 DEF HeldInv
  <2>6. CASE /\ op = "release" /\ Height = Nest /\ Nest > 1 /\ Height' = Nest - 1
             /\ SrvRelease /\ ~Began /\ Newest = Nest
    <3>1. /\ \A j \in 1 .. Nest - 2 : levels'[j].ws = levels[j].ws
          /\ \A v : v \in levels'[Nest - 1].ws <=>
                         \E i \in Nest - 1 .. Height : v \in levels[i].ws
      BY <2>6, ReleaseEffect DEF Height
    <3>2. ASSUME NEW j \in 1 .. Height', w \in levels'[j].ws PROVE HeldAt(w, j)'
      <4>1. j \in 1 .. Height BY <1>a, <2>6
      <4>2. CASE w \in levels[j].ws BY <2>3, <4>1, <4>2
      <4>3. CASE w \notin levels[j].ws
        <5>1. j = Nest - 1 /\ w \in levels[Nest].ws
          <6>1. j \notin 1 .. Nest - 2 BY <3>1, <3>2, <4>3
          <6>2. j = Nest - 1 BY <1>a, <2>6, <6>1
          <6>3. PICK i \in Nest - 1 .. Height : w \in levels[i].ws BY <3>1, <3>2, <6>2
          <6>4. i # Nest - 1 BY <4>3, <6>2, <6>3
          <6>5. i = Nest BY <1>a, <2>6, <6>3, <6>4
          <6> QED BY <6>2, <6>3, <6>5
        <5>2. Nest \in 1 .. Height /\ Nest \in 1 .. Nest /\ j \in 1 .. Nest /\ j < Nest
          BY <1>a, <2>6, <5>1
        <5>3. HeldAt(w, Nest) BY <5>1, <5>2 DEF HeldInv
        <5>4. at = "closing"
          <6>1. at \in {"closing", "undoing"} BY <2>1, <2>6, AtServer
          <6>2. at # "undoing" BY <2>6, <5>1 DEF EmptyInv
          <6> QED BY <6>1, <6>2
        <5>5. Done' BY <2>1, <2>2 DEF Done
        <5>6. inside[w] # {0} => frames[j].id \in inside[w]
          BY <5>2, <5>3 DEF HeldAt, PrefixInv
        <5>7. ASSUME NEW i \in inside[w] \ {0}
              PROVE  \/ outcome[i] = "returned"
                     \/ \E m \in 1 .. Nest : m <= j /\ frames[m].id = i
                     \/ i = Top.id
          <6>1. CASE outcome[i] = "returned" BY <6>1
          <6>2. CASE outcome[i] # "returned"
            <7>1. PICK m \in 1 .. Nest : frames[m].id = i
              BY <1>0, <2>1, <5>3, <6>2
                 DEF HeldAt
            <7>2. CASE m = Nest BY <7>1, <7>2 DEF Top, Nest
            <7>3. CASE m # Nest
              <8>1. m <= j BY <1>a, <5>1, <7>3
              <8> QED BY <7>1, <8>1
            <7> QED BY <7>2, <7>3
          <6> QED BY <6>1, <6>2
        <5>8. j <= Nest BY <1>a, <5>2
        <5> QED BY <2>2, <5>4, <5>5, <5>6, <5>7, <5>8 DEF HeldAt
      <4> QED BY <4>2, <4>3
    <3> QED BY <3>2 DEF HeldInv
  <2>7. CASE /\ op = "rollback_to" /\ Height = Nest /\ Nest > 1 /\ Height' = Nest
             /\ SrvRollbackTo /\ Newest = Nest
    <3>1. /\ \A j \in 1 .. Nest - 1 : levels'[j].ws = levels[j].ws
          /\ levels'[Nest].ws = {}
      BY <2>7, RollbackToEffect
    <3>2. ASSUME NEW j \in 1 .. Height', w \in levels'[j].ws PROVE HeldAt(w, j)'
      <4>1. j \in 1 .. Height /\ j \in 1 .. Nest - 1 BY <1>a, <2>7, <3>1, <3>2
      <4>2. w \in levels[j].ws BY <3>1, <3>2, <4>1
      <4> QED BY <2>3, <4>1, <4>2
    <3> QED BY <3>2 DEF HeldInv
  <2>8. CASE op = "write" /\ SrvWrite /\ Height' = Height
    <3>1. levels' = [levels EXCEPT ![Len(levels)].ws = @ \cup {arg}] /\ levels # <<>>
      BY <1>3, <2>8 DEF SrvWrite, Answer, InTx
    <3>2. /\ arg \in Writes
          /\ \A i \in 1 .. Nest : frames[i].id \in inside[arg]
          /\ \A i \in inside[arg] \ {0} : \E m \in 1 .. Nest : frames[m].id = i
          /\ inside[arg] # {0} => Nest > 0
      BY <2>8, WriteScope
    <3>3. /\ \A j \in 1 .. Height : j # Height => levels'[j].ws = levels[j].ws
          /\ levels'[Height].ws = levels[Height].ws \cup {arg}
      BY <3>1, <3>2, WriteEffect DEF Height
    <3>4. ASSUME NEW j \in 1 .. Height', w \in levels'[j].ws PROVE HeldAt(w, j)'
      <4>1. j \in 1 .. Height BY <2>8
      <4>2. CASE w \in levels[j].ws BY <2>3, <4>1, <4>2
      <4>3. CASE w \notin levels[j].ws
        <5>1. j = Height /\ w = arg BY <3>3, <3>4, <4>1, <4>3
        <5>2. at = "exec" BY <2>8 DEF StmtInv
        <5>3. Level0 BY <2>1, <5>2, AtServer
        <5>4. Nest > 0 => j = Nest BY <1>a, <5>1, <5>3 DEF Level0
        <5>5. inside[w] # {0} => j <= Nest /\ frames[j].id \in inside[w]
          <6>1. ASSUME inside[w] # {0} PROVE j <= Nest /\ frames[j].id \in inside[w]
            <7>1. Nest > 0 BY <3>2, <5>1, <6>1
            <7>2. j = Nest /\ j \in 1 .. Nest BY <1>a, <5>4, <7>1
            <7> QED BY <1>a, <3>2, <5>1, <7>2
          <6> QED BY <6>1
        <5>6. ASSUME NEW i \in inside[w] \ {0}
              PROVE  \E m \in 1 .. Nest : m <= j /\ frames[m].id = i
          <6>1. PICK m \in 1 .. Nest : frames[m].id = i BY <3>2, <5>1
          <6>2. j = Nest BY <1>a, <5>4, <6>1
          <6> QED BY <1>a, <6>1, <6>2
        <5> QED BY <2>2, <5>5, <5>6 DEF HeldAt
      <4> QED BY <4>2, <4>3
    <3> QED BY <3>4 DEF HeldInv
  <2> QED BY <2>1, <2>4, <2>5, <2>6, <2>7, <2>8
<1> QED BY <1>1, <1>2, <1>3, LevelsStay

\* A write is permanent only when every call it was issued in has returned,
\* or the outermost one is about to.
CommitInv(w) ==
    w \in committed => \A i \in inside[w] \ {0} :
        \/ outcome[i] = "returned"
        \/ /\ Nest = 1 /\ i = frames[1].id /\ at = "closing"
           /\ phase \in {"reply_ok", "ok", "unanswered"}

LEMMA ClosingStays ==
    ASSUME TypeOK, [Next]_vars, at = "closing", phase \in {"reply_ok", "ok", "unanswered"},
           ~Closed, ~CloseFails
    PROVE  at' = "closing" /\ frames' = frames /\ phase' \in {"reply_ok", "ok", "unanswered"}
<1> USE DEF Over
<1>1. ASSUME NEW v \in Writes, Exec(v) PROVE FALSE BY <1>1 DEF Exec
<1>2. ASSUME NEW o \in ManualOps, Manual(o) PROVE FALSE BY <1>2 DEF Manual
<1>3. CASE ExecReturns \/ Throw \/ Caught \/ Wrapper
  BY <1>3
     DEF ExecReturns, Throw, Caught, Wrapper, Transaction, Opened, OpenFails,
         BodyReturns,
        BodyThrows, ReleaseUndone, Undone
<1>4. CASE Client
  BY <1>4
     DEF Client, ProbeFine, ProbeTxLost, ProbeReconnect, ProbeNoServer, Send, SendFails,
        SendAgain, SendBreaks, Reply, ReplyLost, Fail, script
<1>5. CASE Server
  BY <1>5 DEF Server, SrvRefuse, SrvBegin, SrvSavepoint, SrvRelease,
        SrvRollbackTo, SrvCommit, SrvRollback, SrvWrite, SrvAccepts
<1>6. CASE Loss BY <1>6 DEF Loss, script
<1>7. CASE UNCHANGED vars BY <1>7 DEF vars, script, statement
<1> QED BY <1>1, <1>2, <1>3, <1>4, <1>5, <1>6, <1>7 DEF Next, Script

LEMMA CommitStep ==
    ASSUME Dependable, TypeOK, StmtInv, DepthInv, StackInv, LinkInv, Intact, LevelsInv,
           [Next]_vars, ~CloseFails, NEW w \in Writes, PendInv(w), HeldInv(w), CommitInv(w)
    PROVE  CommitInv(w)'
<1>a. Nest \in Nat BY FramesType DEF Nest
<1>b. /\ Height \in Nat /\ (levels = <<>> <=> Height = 0)
      /\ \A v : v \in Pending <=> \E i \in 1 .. Height : v \in levels[i].ws
  BY LevelsType DEF Height
<1>c. ntx \in Nat /\ inside[w] \subseteq 0 .. ntx BY DEF TypeOK, StackInv
<1>1. CASE Exec(w)
  <2>1. w \notin committed' BY <1>1 DEF Exec, server, PendInv
  <2> QED BY <2>1 DEF CommitInv
<1>2. CASE ~Exec(w) /\ w \in committed
  <2>0. inside'[w] = inside[w] BY <1>2, InsideStep
  <2>1. ASSUME NEW i \in inside[w] \ {0}
        PROVE  \/ outcome'[i] = "returned"
               \/ /\ Nest' = 1 /\ i = frames'[1].id /\ at' = "closing"
                  /\ phase' \in {"reply_ok", "ok", "unanswered"}
    <3>1. i \in 1 .. ntx BY <1>c, <2>1
    <3>2. CASE outcome[i] = "returned" BY <3>1, <3>2, OutcomeStep
    <3>3. CASE /\ Nest = 1 /\ i = frames[1].id /\ at = "closing"
               /\ phase \in {"reply_ok", "ok", "unanswered"}
      <4>1. CASE Closed
        <5>1. i \in Calls BY <3>3, FramesType DEF Nest
        <5>2. i = Top.id BY <3>3 DEF Top, Nest
        <5> QED BY <4>1, <5>1, <5>2 DEF Closed, TypeOK
      <4>2. CASE ~Closed BY <3>3, <4>2, ClosingStays DEF Nest
      <4> QED BY <4>1, <4>2
    <3> QED BY <1>2, <3>2, <3>3 DEF CommitInv
  <2> QED BY <2>0, <2>1 DEF CommitInv
<1>3. CASE ~Exec(w) /\ w \in committed' /\ w \notin committed
  <2>0. inside'[w] = inside[w] BY <1>3, InsideStep
  <2>1. CASE SrvBegin /\ w \in Pending /\ ~(InTx /\ driver = "postgres")
    <3>1. levels # <<>> BY <2>1 DEF Pending
    <3>2. driver = "sqlite" BY <2>1, <3>1, DriverIs DEF InTx
    <3> QED BY <2>1, <3>1, <3>2 DEF SrvBegin, SrvAccepts, Refused, InTx
  <2>2. CASE SrvCommit /\ w \in Pending
    <3>1. phase = "server" /\ op = "commit" /\ phase' = "reply_ok" /\ UNCHANGED <<script, outcome>>
      BY <2>2 DEF SrvCommit, SrvAccepts, Answer
    <3>2. at = "exec" \/ at = "closing" BY <3>1, AtServer
    <3>3. CASE at = "exec"
      <4>1. Nest = 0 BY <3>1, <3>3, AtServer
      <4>2. inside[w] = {0} BY <2>2, <4>1 DEF PendInv
      <4> QED BY <2>0, <4>2 DEF CommitInv
    <3>4. CASE at = "closing"
      <4>1. Nest = 1 /\ Height = 1 BY <3>1, <3>4, AtServer
      <4>2. w \in levels[1].ws BY <1>b, <2>2, <4>1
      <4>3. HeldAt(w, 1) BY <4>1, <4>2 DEF HeldInv
      <4>4. ASSUME NEW i \in inside[w] \ {0} PROVE outcome[i] = "returned" \/ i = frames[1].id
        BY <3>1, <4>1, <4>3 DEF HeldAt, Done
      <4>5. Nest' = 1 /\ frames' = frames /\ at' = "closing"
        BY <3>1, <3>4, <4>1
           DEF script, Nest
      <4> QED BY <2>0, <3>1, <4>4, <4>5 DEF CommitInv
    <3> QED BY <3>2, <3>3, <3>4
  <2>3. CASE SrvWrite /\ w = arg /\ ~InTx
    <3>1. op = "write" /\ phase = "server" BY <2>3 DEF SrvWrite, SrvAccepts
    <3>2. at = "exec" BY <3>1 DEF StmtInv
    <3>3. Level0 /\ Height = 0 BY <1>b, <2>3, <3>1, <3>2, AtServer DEF InTx
    <3>4. Nest = 0 BY <1>a, <3>3 DEF Level0
    <3>5. \A i \in inside[w] \ {0} : \E m \in 1 .. Nest : frames[m].id = i
      BY <2>3, <3>1, WriteScope
    <3>6. inside[w] \ {0} = {} BY <3>4, <3>5
    <3> QED BY <2>0, <3>6 DEF CommitInv
  <2>4. ~(SrvRelease /\ Began)
    <3> SUFFICES ASSUME SrvRelease, Began PROVE FALSE OBVIOUS
    <3>1. Server /\ op = "release" /\ phase' = "reply_ok"
      BY DEF Server, SrvRelease, Answer
    <3> QED BY <3>1, ServerStep
  <2> QED BY <1>3, <2>1, <2>2, <2>3, <2>4, CommittedStep
<1>4. CASE w \notin committed' BY <1>4 DEF CommitInv
<1> QED BY <1>1, <1>2, <1>3, <1>4

-----------------------------------------------------------------------------
(***************************************************************************)
(* A write the script was told of is kept.                                 *)
(***************************************************************************)
Told(w) == w \in acked \/ (op = "write" /\ arg = w /\ phase \in {"reply_ok", "ok"})

\* The transaction of the calls under way is gone, and not by a COMMIT: the
\* server has rolled it back after an error or with the link.
Gone == Height = 0 /\ ~(op = "commit" /\ Done)

KeptInv(w) ==
    Told(w) /\ inside[w] # {0} =>
        \/ w \in committed \/ w \in Pending
        \/ \E i \in inside[w] \ {0} : outcome[i] \in {"threw", "unsure"}
        \/ Gone /\ Nest > 0 /\ frames[1].id \in inside[w]

\* A COMMIT is carried out by the server.
LEMMA CommitDone ==
    ASSUME [Next]_vars, op' = "commit", Done'
    PROVE  (op = "commit" /\ Done) \/ SrvCommit
<1> USE DEF Done, Over
<1>1. ASSUME NEW v \in Writes, Exec(v) PROVE FALSE BY <1>1 DEF Exec, Issue
<1>2. ASSUME NEW o \in ManualOps, Manual(o) PROVE FALSE BY <1>2 DEF Manual, Issue
<1>3. CASE ExecReturns \/ Throw \/ Caught
  BY <1>3 DEF ExecReturns, Throw, Caught, Finished, statement, server
<1>4. CASE Wrapper
  BY <1>4
     DEF Wrapper, Transaction, Opened, OpenFails, BodyReturns, Closed, BodyThrows,
         CloseFails,
        ReleaseUndone, Undone, Undo, Issue, Finished
<1>5. CASE Client
  BY <1>5
     DEF Client, ProbeFine, ProbeTxLost, ProbeReconnect, ProbeNoServer, Send, SendFails,
        SendAgain, Reply, ReplyLost, Fail, server
<1>6. CASE Server
  BY <1>6
     DEF Server, SrvRefuse, SrvBegin, SrvSavepoint, SrvRelease, SrvRollbackTo,
         SrvRollback,
        SrvWrite, Answer
<1>7. CASE Loss BY <1>7 DEF Loss
<1>8. CASE UNCHANGED vars BY <1>8 DEF vars, statement, server
<1> QED BY <1>1, <1>2, <1>3, <1>4, <1>5, <1>6, <1>7, <1>8 DEF Next, Script

\* A transaction that is gone stays so until the outermost call has ended:
\* nothing opens one in its place.
LEMMA GoneStep ==
    ASSUME Dependable, TypeOK, StmtInv, DepthInv, StackInv, LinkInv, Intact, LevelsInv,
           [Next]_vars, Gone, Nest > 0
    PROVE  Gone'
<1>a. Nest \in Nat BY FramesType DEF Nest
<1>b. levels = <<>> /\ Height = 0 BY LevelsType DEF Gone, Height
<1>1. Height' = 0
  <2>1. CASE levels' = levels \/ levels' = <<>> BY <1>b, <2>1 DEF Height
  <2>2. CASE Server
    <3>1. /\ phase = "server"
          /\ \/ levels' = levels \/ levels' = <<>>
             \/ op = "begin" \/ Height = Nest
             \/ op = "write" /\ Height' = Height
      BY <2>2, ServerStep
    <3>2. op # "begin"
      <4>1. at \in {"exec", "opening", "closing", "undoing"} BY <3>1, AtServer
      <4>2. Nest # 0 BY <1>a
      <4> QED BY <3>1, <4>1, <4>2, AtServer
    <3> QED BY <1>a, <1>b, <2>1, <3>1, <3>2
  <2> QED BY <2>1, <2>2, LevelsStay
<1>2. ~(op' = "commit" /\ Done')
  <2> SUFFICES ASSUME op' = "commit", Done' PROVE FALSE OBVIOUS
  <2>1. SrvCommit BY CommitDone DEF Gone
  <2>2. phase = "server" /\ op = "commit" BY <2>1 DEF SrvCommit, SrvAccepts
  <2>3. at \in {"exec", "closing"} BY <2>2, AtServer
  <2>4. Nest = 0 \/ Height = Nest BY <2>2, <2>3, AtServer
  <2> QED BY <1>a, <1>b, <2>4
<1> QED BY <1>1, <1>2 DEF Gone

\* A script is told of a write that the server has run, or will learn that
\* the connection, and the transaction with it, is gone.
LEMMA ToldStep ==
    ASSUME Dependable, TypeOK, StmtInv, LinkInv, [Next]_vars, NEW w \in Writes, ~Told(w), Told(w)'
    PROVE  /\ op = "write" /\ arg = w /\ UNCHANGED <<frames, inside>>
           /\ SrvWrite \/ Gone'
<1> USE DEF Over, Answered, Told
<1>a. ASSUME levels' = <<>>, op' = "write" PROVE Gone' BY <1>a DEF Gone, Height
<1>1. ASSUME NEW v \in Writes, Exec(v) PROVE FALSE BY <1>1 DEF Exec, Issue
<1>2. ASSUME NEW o \in ManualOps, Manual(o) PROVE FALSE BY <1>2 DEF Manual, Issue
<1>3. CASE ExecReturns \/ Throw \/ Caught
  BY <1>3 DEF ExecReturns, Throw, Caught, Finished, statement, history
<1>4. CASE Wrapper
  BY <1>4
     DEF Wrapper, Transaction, Opened, OpenFails, BodyReturns, Closed, BodyThrows,
         CloseFails,
        ReleaseUndone, Undone, Undo, Issue, Finished, history
<1>5. CASE Send
  <2>1. /\ op = "write" /\ arg = w /\ UNCHANGED <<frames, inside>> /\ ~up /\ op' = op
        /\ levels' = levels
    BY <1>5 DEF Send, script, server, history
  <2> QED BY <1>a, <2>1 DEF LinkInv
<1>6. CASE Client /\ ~Send
  BY <1>6 DEF Client, ProbeFine, ProbeTxLost, ProbeReconnect, ProbeNoServer, SendFails,
        SendAgain, Reply, ReplyLost, Fail, history
<1>7. CASE SrvWrite
  BY <1>7 DEF SrvWrite, Answer, script
<1>8. CASE Server /\ ~SrvWrite
  BY <1>8
     DEF Server, SrvRefuse, SrvBegin, SrvSavepoint, SrvRelease, SrvRollbackTo,
         SrvCommit,
        SrvRollback, Answer, history
<1>9. CASE Loss
  <2>1. /\ op = "write" /\ arg = w /\ UNCHANGED <<frames, inside>> /\ op' = op /\ levels' = <<>>
    BY <1>9 DEF Loss, script
  <2> QED BY <1>a, <2>1
<1>10. CASE UNCHANGED vars BY <1>10 DEF vars, statement, history
<1> QED BY <1>1, <1>2, <1>3, <1>4, <1>5, <1>6, <1>7, <1>8, <1>9, <1>10 DEF Next, Script

\* A pending write stays pending or becomes permanent, unless the session
\* ends or it is rolled back, by a statement or with an error.
LEMMA PendingLeaves ==
    ASSUME TypeOK, StmtInv, LinkInv, [Next]_vars, NEW w \in Pending
    PROVE  \/ w \in Pending' \/ w \in committed'
           \/ Loss \/ SrvRollback \/ SrvRollbackTo \/ (SrvCommit /\ aborted)
           \/ SrvRefuse /\ levels' = <<>>
<1>a. /\ levels \in Seq(LevelType) /\ Len(levels) \in Nat /\ DOMAIN levels = 1 .. Len(levels)
      /\ \A v : v \in Pending <=> \E i \in 1 .. Len(levels) : v \in levels[i].ws
  BY LevelsType
<1>b. PICK k \in 1 .. Len(levels) : w \in levels[k].ws BY <1>a
<1>c. levels # <<>> BY <1>a, <1>b
<1>d. ASSUME levels' \in Seq(LevelType), NEW j \in 1 .. Len(levels'), w \in levels'[j].ws
      PROVE  w \in Pending'
  BY <1>d DEF Pending
<1>1. CASE levels' = levels BY <1>1 DEF Pending
<1>2. CASE SrvBegin BY <1>1, <1>2 DEF SrvBegin, Answer
<1>3. CASE SrvSavepoint
  <2>1. levels' = Append(levels, Level(arg))
    BY <1>3, <1>c
       DEF SrvSavepoint, Answer, InTx
  <2>2. phase = "server" /\ op = "savepoint" BY <1>3 DEF SrvSavepoint, SrvAccepts
  <2>3. tx_depth \in Int /\ at \in {"script", "exec", "opening", "closing", "undoing", "throwing"}
    BY TxAssumption DEF TypeOK
  <2>4. arg \in Nat BY <2>2, <2>3, TxAssumption DEF StmtInv
  <2>5. /\ levels' \in Seq(LevelType) /\ Len(levels') = Len(levels) + 1
        /\ \A j \in 1 .. Len(levels) : levels'[j] = levels[j]
    BY <2>1, <2>4, PushEffect
  <2>6. k \in 1 .. Len(levels') /\ w \in levels'[k].ws BY <1>a, <1>b, <2>5
  <2> QED BY <1>d, <2>5, <2>6
<1>4. CASE SrvRelease /\ ~Began
  <2>1. /\ Newest \in 2 .. Len(levels)
        /\ levels' \in Seq(LevelType) /\ Len(levels') = Newest - 1
        /\ \A j \in 1 .. Newest - 2 : levels'[j].ws = levels[j].ws
        /\ \A v : v \in levels'[Newest - 1].ws <=>
                         \E i \in Newest - 1 .. Len(levels) : v \in levels[i].ws
    BY <1>4, ReleaseEffect
  <2>2. Newest \in Nat BY <1>a, <2>1
  <2>3. CASE k \in 1 .. Newest - 2
    <3>1. k \in 1 .. Len(levels') /\ w \in levels'[k].ws BY <1>b, <2>1, <2>2, <2>3
    <3> QED BY <1>d, <2>1, <3>1
  <2>4. CASE k \in Newest - 1 .. Len(levels)
    <3>1. Newest - 1 \in 1 .. Len(levels') BY <1>a, <2>1, <2>2
    <3>2. w \in levels'[Newest - 1].ws BY <1>b, <2>1, <2>4
    <3> QED BY <1>d, <2>1, <3>1, <3>2
  <2> QED BY <1>a, <1>b, <2>2, <2>3, <2>4
<1>5. CASE SrvWrite
  <2>1. arg \in Writes BY <1>5 DEF SrvWrite, StmtInv
  <2>2. levels' = [levels EXCEPT ![Len(levels)].ws = @ \cup {arg}]
    BY <1>5, <1>c DEF SrvWrite, Answer, InTx
  <2>3. /\ levels' \in Seq(LevelType) /\ Len(levels') = Len(levels)
        /\ \A j \in 1 .. Len(levels) : j # Len(levels) => levels'[j].ws = levels[j].ws
        /\ levels'[Len(levels)].ws = levels[Len(levels)].ws \cup {arg}
    BY <1>c, <2>1, <2>2, WriteEffect
  <2>4. k \in 1 .. Len(levels') /\ w \in levels'[k].ws BY <1>b, <2>3
  <2> QED BY <1>d, <2>3, <2>4
<1>6. CASE SrvCommit BY <1>6 DEF SrvCommit, Answer
<1>7. CASE SrvRefuse BY <1>1, <1>7 DEF SrvRefuse
<1>13. CASE SrvRelease /\ Began BY <1>13, BeganEffect
<1>8. CASE Client
  <2>1. up BY <1>c DEF LinkInv
  <2>2. sock BY <2>1 DEF LinkInv
  <2>3. levels' = levels
    BY <1>8, <2>1, <2>2
       DEF Client, ProbeFine, ProbeTxLost, ProbeReconnect, ProbeNoServer, Send,
          SendFails, SendAgain, SendBreaks, MayReplace, Unusable, Reply, ReplyLost, server
  <2> QED BY <1>1, <2>3
<1>9. ASSUME NEW v \in Writes, Exec(v) PROVE levels' = levels BY <1>9 DEF Exec, server
<1>10. ASSUME NEW o \in ManualOps, Manual(o) PROVE levels' = levels
  BY <1>10
     DEF Manual, server
<1>11. CASE ExecReturns \/ Throw \/ Caught \/ Wrapper
  <2>1. levels' = levels
    BY <1>11
       DEF ExecReturns, Throw, Caught, Wrapper, Transaction, Opened, OpenFails,
           BodyReturns,
        Closed, BodyThrows, CloseFails, ReleaseUndone, Undone, server
  <2> QED BY <1>1, <2>1
<1>12. CASE UNCHANGED vars BY <1>1, <1>12 DEF vars, server
<1> QED BY <1>1, <1>2, <1>3, <1>4, <1>5, <1>6, <1>7, <1>8, <1>9, <1>10, <1>11, <1>12, <1>13
           DEF Next, Script, Server

\* What is permanent stays so.
LEMMA CommittedGrows ==
    ASSUME [Next]_vars
    PROVE  committed \subseteq committed'
<1>1. ASSUME NEW v \in Writes, Exec(v) PROVE committed' = committed
  BY <1>1
     DEF Exec, server
<1>2. ASSUME NEW o \in ManualOps, Manual(o) PROVE committed' = committed
  BY <1>2
     DEF Manual, server
<1>3. CASE ExecReturns \/ Throw \/ Caught \/ Wrapper
  BY <1>3
     DEF ExecReturns, Throw, Caught, Wrapper, Transaction, Opened, OpenFails,
         BodyReturns,
        Closed, BodyThrows, CloseFails, ReleaseUndone, Undone, server
<1>4. CASE Client \/ Loss
  BY <1>4
     DEF Client, ProbeFine, ProbeTxLost, ProbeReconnect, ProbeNoServer, Send, SendFails,
        SendAgain, Reply, ReplyLost, Loss, server
<1>5. CASE Server
  BY <1>5
     DEF Server, SrvRefuse, SrvBegin, SrvSavepoint, SrvRelease, SrvRollbackTo,
         SrvCommit,
     SrvRollback, SrvWrite, Answer
<1>6. CASE UNCHANGED vars BY <1>6 DEF vars, server
<1> QED BY <1>1, <1>2, <1>3, <1>4, <1>5, <1>6 DEF Next, Script

LEMMA WriteLands ==
    ASSUME TypeOK, StmtInv, SrvWrite
    PROVE  arg \in Pending' \/ arg \in committed'
<1>1. CASE ~InTx BY <1>1 DEF SrvWrite, Answer
<1>2. CASE InTx
  <2>1. arg \in Writes /\ levels # <<>> BY <1>2 DEF SrvWrite, StmtInv, InTx
  <2>2. levels' = [levels EXCEPT ![Len(levels)].ws = @ \cup {arg}]
    BY <1>2
       DEF SrvWrite, Answer
  <2>3. /\ levels' \in Seq(LevelType) /\ Len(levels') = Len(levels)
        /\ levels'[Len(levels)].ws = levels[Len(levels)].ws \cup {arg}
    BY <2>1, <2>2, WriteEffect
  <2>4. Len(levels) \in 1 .. Len(levels) BY <2>1, LevelsType
  <2> QED BY <2>3, <2>4 DEF Pending
<1> QED BY <1>1, <1>2

LEMMA KeptStep ==
    ASSUME Dependable, TypeOK, StmtInv, DepthInv, StackInv, LinkInv, BaseInv, Intact, LevelsInv,
           [Next]_vars, NEW w \in Writes, HeldInv(w), PendInv(w), KeptInv(w)
    PROVE  KeptInv(w)'
<1> DEFINE Taken == \E i \in inside[w] \ {0} : outcome'[i] \in {"threw", "unsure"}
<1>a. Nest \in Nat BY FramesType DEF Nest
<1>b. /\ Height \in Nat /\ levels \in Seq(LevelType)
      /\ \A v : v \in Pending <=> \E i \in 1 .. Height : v \in levels[i].ws
  BY LevelsType DEF Height
<1>c. ntx \in Nat /\ inside[w] \subseteq 0 .. ntx BY DEF TypeOK, StackInv
<1>1. CASE Exec(w)
  <2>1. ~Told(w)' BY <1>1 DEF Exec, Issue, Told
  <2> QED BY <2>1 DEF KeptInv
<1>2. CASE ~Exec(w) /\ Told(w)' /\ inside[w] # {0}
  <2>0. inside'[w] = inside[w] BY <1>2, InsideStep
  <2> SUFFICES \/ w \in committed' \/ w \in Pending'
               \/ Taken
               \/ Gone' /\ Nest' > 0 /\ frames'[1].id \in inside[w]
    BY <2>0 DEF KeptInv
  <2>1. CASE ~Told(w)
    <3>1. /\ op = "write" /\ arg = w /\ frames' = frames
          /\ SrvWrite \/ Gone'
      BY <1>2, <2>1, ToldStep
    <3>2. Nest > 0 /\ \A i \in 1 .. Nest : frames[i].id \in inside[w]
      BY <1>2, <3>1, WriteScope
    <3>3. 1 \in 1 .. Nest BY <1>a, <3>2
    <3>4. Nest' > 0 /\ frames'[1].id \in inside[w] BY <3>1, <3>2, <3>3 DEF Nest
    <3> QED BY <3>1, <3>4, WriteLands
  <2>2. CASE w \in committed BY <2>2, CommittedGrows
  <2>3. CASE \E i \in inside[w] \ {0} : outcome[i] \in {"threw", "unsure"}
    <3>1. PICK i \in inside[w] \ {0} : outcome[i] \in {"threw", "unsure"} BY <2>3
    <3>2. i \in 1 .. ntx BY <1>c
    <3>3. outcome'[i] \in {"threw", "unsure"} BY <3>1, <3>2, OutcomeStep
    <3> QED BY <3>3
  <2>4. CASE Gone /\ Nest > 0 /\ frames[1].id \in inside[w]
    <3>1. Gone' BY <2>4, GoneStep
    <3>2. CASE Nest' > 0 /\ frames'[1] = frames[1] BY <2>4, <3>1, <3>2
    <3>3. CASE (Closed \/ Undone) /\ Nest = 1 /\ Top = frames[1]
      <4>1. ~Closed
        <5> SUFFICES ASSUME Closed PROVE FALSE OBVIOUS
        <5>1. ~Top.nested BY <3>3 DEF StackInv, Nest
        <5>2. op = "commit" /\ phase = "ok" /\ at = "closing"
          BY <5>1 DEF Closed, StmtInv
        <5> QED BY <2>4, <5>2 DEF Gone, Done
      <4>2. at = "undoing" /\ outcome' = outcome BY <3>3, <4>1 DEF Undone, history
      <4>3. outcome'[frames[1].id] \in {"threw", "unsure"} BY <3>3, <4>2 DEF StackInv
      <4>4. frames[1].id # 0
        <5>1. frames[1].id \in Calls BY <3>3, FramesType DEF Nest
        <5> QED BY <5>1 DEF Calls
      <4> QED BY <2>4, <4>3, <4>4
    <3> QED BY <2>4, <3>2, <3>3, OutermostStep
  <2>5. CASE w \in Pending
    <3>0. Nest > 0 /\ frames[1].id \in inside[w] BY <1>2, <2>5 DEF PendInv
    <3>1. CASE Loss
      <4>1. levels # <<>> BY <2>5 DEF Pending
      <4>2. /\ frames' = frames /\ Height' = 0 /\ op' = op /\ ~up'
            /\ phase' = IF phase = "server" THEN "reply_ok" ELSE phase
        BY <3>1 DEF Loss, script, Height
      <4>3. ~(op' = "commit" /\ Done') BY <4>1, <4>2 DEF BaseInv, Done
      <4> QED BY <3>0, <4>2, <4>3 DEF Nest, Gone
    <3>4. CASE SrvRefuse /\ levels' = <<>>
      <4>1. frames' = frames /\ Height' = 0 /\ phase' = "reply_error"
        BY <3>4 DEF SrvRefuse, script, Height
      <4> QED BY <3>0, <4>1 DEF Nest, Gone, Done
    <3>2. CASE SrvCommit /\ aborted
      <4>1. phase = "server" /\ op = "commit" BY <3>2 DEF SrvCommit, SrvAccepts
      <4>2. at \in {"throwing", "undoing"} BY <1>a, <3>0, <3>2, <4>1 DEF LinkInv, Intact
      <4> QED BY <4>1, <4>2 DEF StmtInv
    <3>3. CASE SrvRollback \/ SrvRollbackTo
      <4>1. /\ phase = "server" /\ op \in {"rollback", "rollback_to"}
            /\ UNCHANGED <<client, script, outcome>>
        BY <3>3 DEF SrvRollback, SrvRollbackTo, SrvAccepts, Answer
      <4>2. at = "undoing"
        <5>1. at \in {"exec", "opening", "closing", "undoing"}
          BY <4>1 DEF StmtInv, TypeOK
        <5>2. at # "exec"
          <6>1. frames # <<>> BY <3>0 DEF Nest
          <6> QED BY <4>1, <6>1 DEF StmtInv
        <5> QED BY <4>1, <5>1, <5>2 DEF StmtInv
      <4>3. outcome'[Top.id] \in {"threw", "unsure"} BY <4>1, <4>2 DEF StackInv
      <4>4. Top.id # 0
        <5>1. Nest \in 1 .. Nest BY <1>a, <3>0
        <5>2. Top.id \in Calls BY <5>1, FramesType DEF Top, Nest
        <5> QED BY <5>2 DEF Calls
      <4>5. ASSUME Top.id \in inside[w] PROVE Taken BY <4>3, <4>4, <4>5
      <4>6. CASE SrvRollback
        <5>1. op = "rollback" BY <4>6 DEF SrvRollback
        <5>2. Nest = 1 BY <4>1, <4>2, <5>1, AtServer
        <5> QED BY <3>0, <4>5, <5>2 DEF Top, Nest
      <4>7. CASE SrvRollbackTo
        <5>1. op = "rollback_to" /\ Known
          BY <4>7 DEF SrvRollbackTo, SrvAccepts, Refused
        <5>2. Height = Nest /\ Newest = Nest BY <4>1, <4>2, <5>1, AtServer
        <5>3. /\ levels' \in Seq(LevelType) /\ Len(levels') = Nest
              /\ \A j \in 1 .. Nest - 1 : levels'[j].ws = levels[j].ws
          BY <4>7, <5>2, RollbackToEffect
        <5>4. PICK k \in 1 .. Height : w \in levels[k].ws BY <1>b, <2>5
        <5>5. CASE k = Nest
          <6>1. HeldAt(w, k) BY <5>4 DEF HeldInv
          <6>2. Top.id \in inside[w] BY <1>2, <5>5, <6>1 DEF HeldAt, Top, Nest
          <6> QED BY <4>5, <6>2
        <5>6. CASE k # Nest
          <6>1. k \in 1 .. Nest - 1 BY <1>a, <5>2, <5>4, <5>6
          <6>2. k \in 1 .. Len(levels') /\ w \in levels'[k].ws
            BY <1>a, <5>3, <5>4, <6>1
          <6>3. w \in Pending' BY <5>3, <6>2 DEF Pending
          <6> QED BY <6>3
        <5> QED BY <5>5, <5>6
      <4> QED BY <3>3, <4>6, <4>7
    <3> QED BY <2>5, <3>1, <3>2, <3>3, <3>4, PendingLeaves
  <2> QED BY <1>2, <2>1, <2>2, <2>3, <2>4, <2>5 DEF KeptInv
<1>3. CASE ~Exec(w) /\ ~(Told(w)' /\ inside[w] # {0})
  <2>0. inside'[w] = inside[w] BY <1>3, InsideStep
  <2> QED BY <1>3, <2>0 DEF KeptInv
<1> QED BY <1>1, <1>2, <1>3

-----------------------------------------------------------------------------
(***************************************************************************)
(* All or nothing.                                                         *)
(***************************************************************************)
PlacedInv(w) == PrefixInv(w) /\ EmptyInv(w) /\ HeldInv(w) /\ CommitInv(w)

FateInv(w) == PendInv(w) /\ (Intact => PlacedInv(w) /\ KeptInv(w))

AtomicInv == OpenInv /\ \A w \in Writes : FateInv(w)

LEMMA AtomicInit ==
    ASSUME Dependable
    PROVE  Init => AtomicInv
<1> SUFFICES ASSUME Init PROVE AtomicInv OBVIOUS
<1>1. OpenInv BY OpenInit
<1>2. Nest = 0 /\ Height = 0 /\ levels = <<>> BY DEF Init, Nest, Height
<1>3. \A w : w \notin Pending BY <1>2 DEF Pending
<1>4. ASSUME NEW w \in Writes PROVE FateInv(w)
  <2>1. inside[w] = {} /\ w \notin acked /\ w \notin committed /\ at = "script" /\ op = "none"
    BY DEF Init
  <2>2. PendInv(w) BY <1>3, <2>1 DEF PendInv
  <2>3. KeptInv(w) BY <2>1 DEF KeptInv, Told
  <2>4. PrefixInv(w) BY <1>2 DEF PrefixInv
  <2>5. EmptyInv(w) BY <2>1 DEF EmptyInv
  <2>6. HeldInv(w) BY <1>2 DEF HeldInv
  <2>7. CommitInv(w) BY <2>1 DEF CommitInv
  <2> QED BY <2>2, <2>3, <2>4, <2>5, <2>6, <2>7 DEF FateInv, PlacedInv
<1> QED BY <1>1, <1>4 DEF AtomicInv

LEMMA AtomicStep ==
    ASSUME Dependable
    PROVE  AtomicInv /\ [Next]_vars => AtomicInv'
<1> SUFFICES ASSUME AtomicInv, [Next]_vars PROVE AtomicInv' OBVIOUS
<1>1. OpenInv' BY OpenStep DEF AtomicInv
<1>2. /\ TypeOK /\ StmtInv /\ DepthInv /\ StackInv /\ LinkInv /\ BaseInv
      /\ Intact => LevelsInv
  BY DEF AtomicInv, OpenInv, CallInv
<1>3. ASSUME NEW w \in Writes PROVE FateInv(w)'
  <2>1. FateInv(w) BY DEF AtomicInv
  <2>2. PendInv(w)' BY <1>2, <2>1, PendStep DEF FateInv
  <2>3. ASSUME Intact' PROVE PlacedInv(w)' /\ KeptInv(w)'
    <3>1. Intact /\ ~CloseFails BY <1>2, <2>3, IntactBack
    <3>2. /\ LevelsInv /\ PendInv(w) /\ PrefixInv(w) /\ EmptyInv(w) /\ HeldInv(w) /\ CommitInv(w)
          /\ KeptInv(w)
      BY <1>2, <2>1, <3>1 DEF FateInv, PlacedInv
    <3>3. PrefixInv(w)' BY <1>2, <3>2, PrefixStep
    <3>4. EmptyInv(w)' BY <1>2, <3>1, <3>2, EmptyStep
    <3>5. HeldInv(w)' BY <1>2, <3>1, <3>2, HeldStep
    <3>6. CommitInv(w)' BY <1>2, <3>1, <3>2, CommitStep
    <3>7. KeptInv(w)' BY <1>2, <3>1, <3>2, KeptStep
    <3> QED BY <3>3, <3>4, <3>5, <3>6, <3>7 DEF PlacedInv
  <2> QED BY <2>2, <2>3 DEF FateInv
<1> QED BY <1>1, <1>3 DEF AtomicInv

LEMMA AtomicInvariant ==
    ASSUME Dependable
    PROVE  Spec => []AtomicInv
BY AtomicInit, AtomicStep, PTL DEF Spec

\* The outermost call that is under way has not returned, and a call being
\* undone never does.
LEMMA UnderWay ==
    ASSUME TypeOK, StackInv, Nest > 0
    PROVE  outcome[frames[1].id] # "returned" /\ frames[1].id # 0
<1>a. Nest \in Nat /\ 1 \in 1 .. Nest BY FramesType DEF Nest
<1>1. frames[1].id \in Calls BY <1>a, FramesType DEF Nest
<1>2. frames[1].id # 0 BY <1>1 DEF Calls
<1>3. outcome[frames[1].id] = "open" \/ (Nest = 1 /\ at = "undoing")
  BY <1>a
     DEF StackInv, Nest
<1>4. ASSUME Nest = 1, at = "undoing" PROVE outcome[frames[1].id] \in {"threw", "unsure"}
  BY <1>4 DEF StackInv, Top, Nest
<1> QED BY <1>2, <1>3, <1>4

\* With SQLite and PostgreSQL, whatever the scripts catch: until a COMMIT or
\* RELEASE has failed on the connection or a body has gone on without its
\* transaction (Intact), a db::transaction that throws leaves none of its
\* writes behind and one that returns has kept every write its body was told
\* of; and no write is ever run twice.
THEOREM CallsAreAtomic ==
    ASSUME Dependable
    PROVE  Spec => []AllOrNothing
<1>1. AtomicInv => AllOrNothing
  <2> SUFFICES ASSUME AtomicInv PROVE AllOrNothing OBVIOUS
  <2>0. /\ TypeOK /\ StackInv /\ committed \subseteq Writes /\ acked \subseteq Writes
        /\ \A w \in Writes : OnceInv(w)
    BY DEF AtomicInv, OpenInv, CallInv, TypeOK
  <2>1. ThrownLeavesNothing
    <3> SUFFICES ASSUME Intact, NEW w \in committed, NEW i \in inside[w] \ {0}
                 PROVE  outcome[i] # "threw"
      BY DEF ThrownLeavesNothing, RollbackOnThrow
    <3>1. w \in Writes BY <2>0
    <3>2. CommitInv(w) BY <3>1 DEF AtomicInv, FateInv, PlacedInv
    <3>3. CASE outcome[i] = "returned" BY <3>3
    <3>4. CASE Nest = 1 /\ i = frames[1].id /\ at = "closing"
      <4>1. outcome[i] = "open" BY <2>0, <3>4 DEF StackInv, Nest
      <4> QED BY <4>1
    <3> QED BY <3>2, <3>3, <3>4 DEF CommitInv
  <2>2. ReturnedKeepsAll
    <3> SUFFICES ASSUME Intact, NEW w \in acked, inside[w] # {0},
                        \A i \in inside[w] \ {0} : outcome[i] = "returned"
                 PROVE  w \in committed
      BY DEF ReturnedKeepsAll, CommitOnSuccess
    <3>1. w \in Writes BY <2>0
    <3>2. KeptInv(w) /\ PendInv(w) BY <3>1 DEF AtomicInv, FateInv
    <3>3. Told(w) BY DEF Told
    <3>4. ASSUME Nest > 0, frames[1].id \in inside[w] PROVE FALSE
      BY <2>0, <3>4, UnderWay
    <3> QED BY <3>2, <3>3, <3>4 DEF KeptInv, PendInv
  <2>3. AtMostOnce BY <2>0 DEF OnceInv, AtMostOnce
  <2> QED BY <2>1, <2>2, <2>3 DEF AllOrNothing
<1> QED BY <1>1, AtomicInvariant, PTL

\* With SQLite and PostgreSQL, until a COMMIT or RELEASE has failed on the
\* connection or a body has gone on without its transaction (Intact), no write
\* of a body is permanent before the COMMIT of its outermost call: after a
\* lost connection or an error that rolled the transaction back nothing is
\* written in autocommit.
THEOREM CommitIsLast ==
    ASSUME Dependable
    PROVE  Spec => []NoEarlyCommit
<1>1. AtomicInv => NoEarlyCommit
  <2> SUFFICES ASSUME AtomicInv, Intact, NEW w \in committed, inside[w] # {0}
               PROVE  outcome[Outermost(w)] # "open" \/ (at = "closing" /\ Len(frames) = 1)
    BY DEF NoEarlyCommit
  <2>0. TypeOK /\ w \in Writes BY DEF AtomicInv, OpenInv, CallInv, TypeOK
  <2>1. CommitInv(w) /\ PendInv(w) BY <2>0 DEF AtomicInv, FateInv, PlacedInv
  <2>2. Outermost(w) \in inside[w] \ {0}
    <3>1. inside[w] \subseteq 0 .. MaxTx /\ MaxTx \in Nat
      BY <2>0, TxAssumption
         DEF TypeOK
    <3>2. inside[w] \ {0} # {} BY <2>1 DEF PendInv
    <3>3. \E i \in inside[w] \ {0} : \A j \in inside[w] \ {0} : i <= j
      <4> DEFINE S == {MaxTx - i : i \in inside[w] \ {0}}
      <4>1. S \in SUBSET (0 .. MaxTx) BY <3>1
      <4>2. S # {} BY <3>2
      <4>3. PICK x \in S : \A y \in S : y <= x BY <3>1, <4>1, <4>2, Largest
      <4>4. PICK i \in inside[w] \ {0} : x = MaxTx - i BY <4>3
      <4>5. ASSUME NEW j \in inside[w] \ {0} PROVE i <= j
        <5>1. MaxTx - j \in S OBVIOUS
        <5>2. MaxTx - j <= MaxTx - i BY <4>3, <4>4, <5>1
        <5>3. i \in Int /\ j \in Int BY <3>1
        <5> QED BY <3>1, <5>2, <5>3
      <4> QED BY <4>5
    <3> QED BY <3>3 DEF Outermost
  <2> QED BY <2>1, <2>2 DEF CommitInv, Nest
<1> QED BY <1>1, AtomicInvariant, PTL

=============================================================================
