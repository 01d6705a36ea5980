------------------------ MODULE SessionMemoryProofs ------------------------
(***************************************************************************)
(* Proofs about SessionMemory, for any number of processes and sessions,   *)
(* any window and any number of turns: message lists are whole turns, and  *)
(* every history implements SlidingWindow.                                 *)
(*                                                                         *)
(* A trim by messages is a trim by turns only because a list is never more *)
(* than one turn too long and never holds half a turn. So the refinement   *)
(* rests on WholeTurns, and WholeTurns on the turns in the lists being     *)
(* older than the next one.                                                *)
(***************************************************************************)
EXTENDS SessionMemory, SequenceTheorems, TLAPS

-----------------------------------------------------------------------------
(* The inductive invariant *)

\* A list of whole turns.
Whole(l) ==
    /\ Len(l) % 2 = 0
    /\ \A i \in 1..Len(l) : l[i].role = IF i % 2 = 1 THEN "user" ELSE "assistant"
    /\ \A i \in 1..Len(l) : i % 2 = 1 => l[i + 1].turn = l[i].turn
    /\ \A i, j \in 1..Len(l) : i < j => l[i].turn <= l[j].turn

\* A list add_turn may find: whole turns, within the window, all before turn t.
Older(l, t) ==
    /\ Whole(l) /\ (Window = 0 \/ Len(l) <= 2 * Window)
    /\ \A i \in 1..Len(l) : l[i].turn < t

Inv == TypeOK /\ \A x \in Stores, s \in Sessions : Older(store[x][s], nextTurn)

-----------------------------------------------------------------------------
(* Message lists *)

\* The messages of a list have turns.
LEMMA MessageFields ==
    ASSUME NEW l \in Seq(Message), NEW i \in 1..Len(l)
    PROVE  l[i] \in Message /\ l[i].turn \in Nat /\ l[i].turn \in 1..MaxTurns
<1>1. l[i] \in Message
  OBVIOUS
<1> QED
  BY <1>1, MemoryAssumption DEF Message

\* Odd and even alternate.
LEMMA Parity ==
    ASSUME NEW n \in Nat, n % 2 = 0
    PROVE  (n + 1) % 2 = 1 /\ (n + 2) % 2 = 0
  OBVIOUS

\* What pushing the two messages of a turn does.
LEMMA Pushed ==
    ASSUME NEW l \in Seq(Message), NEW t \in 1..MaxTurns
    PROVE  /\ l \o MessagesOf(t) \in Seq(Message) /\ Len(l \o MessagesOf(t)) = Len(l) + 2
           /\ \A i \in 1..Len(l) : (l \o MessagesOf(t))[i] = l[i]
           /\ (l \o MessagesOf(t))[Len(l) + 1] = [role |-> "user", turn |-> t]
           /\ (l \o MessagesOf(t))[Len(l) + 2] = [role |-> "assistant", turn |-> t]
  BY DEF MessagesOf, Message

\* A turn pushed behind older ones.
LEMMA PushedWhole ==
    ASSUME NEW l \in Seq(Message), NEW t \in 1..MaxTurns, Older(l, t),
           NEW m, m = l \o MessagesOf(t), NEW n, n = Len(l)
    PROVE  /\ m \in Seq(Message) /\ Len(m) = n + 2
           /\ Whole(m) /\ (Window = 0 \/ Len(m) <= 2 * Window + 2)
           /\ \A i \in 1..(n + 2) : m[i].turn <= t
<1>0. /\ n \in Nat /\ m \in Seq(Message) /\ Len(m) = n + 2 /\ \A i \in 1..n : m[i] = l[i]
      /\ m[n + 1] = [role |-> "user", turn |-> t] /\ m[n + 2] = [role |-> "assistant", turn |-> t]
  BY Pushed
<1>1. t \in Nat /\ Window \in Nat /\ n % 2 = 0 /\ (Window = 0 \/ n <= 2 * Window)
  BY MemoryAssumption DEF Older, Whole
<1>a. /\ \A i \in 1..n : m[i].role = IF i % 2 = 1 THEN "user" ELSE "assistant"
      /\ \A i \in 1..n : i % 2 = 1 => l[i + 1].turn = l[i].turn
      /\ \A i, j \in 1..n : i < j => m[i].turn <= m[j].turn
  BY <1>0 DEF Older, Whole
<1>b. /\ m[n + 1].role = "user" /\ m[n + 1].turn = t
      /\ m[n + 2].role = "assistant" /\ m[n + 2].turn = t
  BY <1>0
<1>2. \A i \in 1..(n + 2) : i \in 1..n \/ i = n + 1 \/ i = n + 2
  BY <1>0
<1>3. \A i \in 1..n : m[i].turn \in Nat /\ m[i].turn < t
  BY <1>0, MessageFields DEF Older
<1>4. (n + 1) % 2 = 1 /\ (n + 2) % 2 = 0
  BY <1>0, <1>1, Parity
<1>5. \A i \in 1..(n + 2) : m[i].role = IF i % 2 = 1 THEN "user" ELSE "assistant"
  BY <1>a, <1>b, <1>2, <1>4
<1>6. \A i \in 1..(n + 2) : i % 2 = 1 => m[i + 1].turn = m[i].turn
  <2> SUFFICES ASSUME NEW i \in 1..(n + 2), i % 2 = 1 PROVE m[i + 1].turn = m[i].turn
    OBVIOUS
  <2>1. CASE i \in 1..n
    <3>1. i + 1 \in 1..n
      BY <1>0, <1>1, <2>1
    <3> QED
      BY <1>0, <1>a, <2>1, <3>1
  <2>2. CASE i = n + 1
    <3>1. i + 1 = n + 2
      BY <1>0, <2>2
    <3> QED
      BY <1>b, <2>2, <3>1
  <2> QED
    BY <1>2, <1>4, <2>1, <2>2
<1>7. \A i \in 1..(n + 2) : m[i].turn <= t
  <2> SUFFICES ASSUME NEW i \in 1..(n + 2) PROVE m[i].turn <= t
    OBVIOUS
  <2>1. CASE i \in 1..n
    BY <1>1, <1>3, <2>1
  <2>2. CASE i = n + 1 \/ i = n + 2
    <3>1. m[i].turn = t
      BY <1>b, <2>2
    <3> QED
      BY <1>1, <3>1
  <2> QED
    BY <1>2, <2>1, <2>2
<1>8. \A i, j \in 1..(n + 2) : i < j => m[i].turn <= m[j].turn
  <2> SUFFICES ASSUME NEW i \in 1..(n + 2), NEW j \in 1..(n + 2), i < j PROVE m[i].turn <= m[j].turn
    OBVIOUS
  <2>1. CASE j \in 1..n
    <3>1. i \in 1..n
      BY <1>0, <2>1
    <3> QED
      BY <1>a, <2>1, <3>1
  <2>2. CASE j = n + 1 \/ j = n + 2
    BY <1>b, <1>7, <2>2
  <2> QED
    BY <1>2, <2>1, <2>2
<1>9. Whole(m)
  <2> DEFINE k == n + 2
  <2>1. Len(m) = k /\ k % 2 = 0
    BY <1>0, <1>4
  <2>2. /\ \A i \in 1..k : m[i].role = IF i % 2 = 1 THEN "user" ELSE "assistant"
        /\ \A i \in 1..k : i % 2 = 1 => m[i + 1].turn = m[i].turn
        /\ \A i, j \in 1..k : i < j => m[i].turn <= m[j].turn
    BY <1>5, <1>6, <1>8
  <2> HIDE DEF k
  <2> QED
    BY <2>1, <2>2 DEF Whole
<1> QED
  BY <1>0, <1>1, <1>7, <1>9

\* LTRIM of a list that is one turn too long drops its first turn.
LEMMA Dropped ==
    ASSUME NEW m \in Seq(Message), Window # 0, Len(m) > 2 * Window, Len(m) <= 2 * Window + 2, Len(m) % 2 = 0
    PROVE  /\ Trim(m) \in Seq(Message) /\ Len(m) = 2 * Window + 2 /\ Len(Trim(m)) = 2 * Window
           /\ \A i \in 1..(2 * Window) : Trim(m)[i] = m[i + 2]
<1>1. Len(m) \in Nat /\ Window \in Nat
  BY MemoryAssumption
<1>2. Len(m) = 2 * Window + 2
  BY <1>1
<1>3. Trim(m) = SubSeq(m, 3, Len(m))
  BY <1>1, <1>2 DEF Trim
<1>4. \A i \in 3..Len(m) : m[i] \in Message
  BY <1>1
<1>5. /\ SubSeq(m, 3, Len(m)) \in Seq(Message)
      /\ Len(SubSeq(m, 3, Len(m))) = IF 3 <= Len(m) THEN Len(m) - 3 + 1 ELSE 0
      /\ \A i \in 1..(Len(m) - 3 + 1) : SubSeq(m, 3, Len(m))[i] = m[3 + i - 1]
  <2> DEFINE lo == 3  hi == Len(m)
  <2>1. lo \in Int /\ hi \in Int /\ \A i \in lo..hi : m[i] \in Message
    BY <1>1, <1>4
  <2> HIDE DEF lo, hi
  <2>2. /\ SubSeq(m, lo, hi) \in Seq(Message)
        /\ Len(SubSeq(m, lo, hi)) = IF lo <= hi THEN hi - lo + 1 ELSE 0
        /\ \A i \in 1..(hi - lo + 1) : SubSeq(m, lo, hi)[i] = m[lo + i - 1]
    BY <2>1, SubSeqProperties
  <2> QED
    BY <2>2 DEF lo, hi
<1>6. MaxTurns \in Nat /\ Window >= 1
  BY MemoryAssumption
<1> QED
  BY <1>1, <1>2, <1>3, <1>5, <1>6

\* add_turn leaves a list that the next add_turn may find.
LEMMA Trimmed ==
    ASSUME NEW l \in Seq(Message), NEW t \in 1..MaxTurns, Older(l, t),
           NEW r, r = Trim(l \o MessagesOf(t))
    PROVE  r \in Seq(Message) /\ Older(r, t + 1)
<1> DEFINE n == Len(l)  m == l \o MessagesOf(t)
<1>1. /\ m \in Seq(Message) /\ Len(m) = n + 2 /\ Whole(m) /\ (Window = 0 \/ Len(m) <= 2 * Window + 2)
      /\ \A i \in 1..(n + 2) : m[i].turn <= t
  BY PushedWhole
<1>2. r = Trim(m) /\ t \in Nat /\ Window \in Nat /\ Len(m) \in Nat
  BY <1>1, MemoryAssumption
<1> HIDE DEF m, n
<1>3. \A i \in 1..Len(m) : m[i].turn \in Nat /\ m[i].turn < t + 1
  BY <1>1, <1>2, MessageFields
<1>4. CASE Window = 0 \/ Len(m) <= 2 * Window
  <2>1. r = m
    BY <1>2, <1>4 DEF Trim
  <2> QED
    BY <1>1, <1>3, <1>4, <2>1 DEF Older
<1>5. CASE Window # 0 /\ Len(m) > 2 * Window
  <2> DEFINE k == 2 * Window
  <2>1. /\ r \in Seq(Message) /\ Len(m) = k + 2 /\ Len(r) = k /\ k \in Nat /\ k % 2 = 0
        /\ \A i \in 1..k : r[i] = m[i + 2]
    <3>1. Len(m) % 2 = 0 /\ Len(m) <= 2 * Window + 2
      BY <1>1, <1>5 DEF Whole
    <3>2. /\ Trim(m) \in Seq(Message) /\ Len(m) = 2 * Window + 2 /\ Len(Trim(m)) = 2 * Window
          /\ \A i \in 1..(2 * Window) : Trim(m)[i] = m[i + 2]
      BY <1>1, <1>5, <3>1, Dropped
    <3>3. k \in Nat /\ k % 2 = 0
      BY <1>2
    <3> QED
      BY <1>2, <3>2, <3>3
  <2> HIDE DEF k
  <2>2. /\ \A i \in 1..(k + 2) : m[i].role = IF i % 2 = 1 THEN "user" ELSE "assistant"
        /\ \A i \in 1..(k + 2) : i % 2 = 1 => m[i + 1].turn = m[i].turn
        /\ \A i, j \in 1..(k + 2) : i < j => m[i].turn <= m[j].turn
        /\ \A i \in 1..(k + 2) : m[i].turn < t + 1
    BY <1>1, <1>3, <2>1 DEF Whole
  <2>3. \A i \in 1..k : i + 2 \in 1..(k + 2) /\ ((i + 2) % 2 = 1 <=> i % 2 = 1)
    BY <2>1
  <2>4. \A i \in 1..k : r[i].role = IF i % 2 = 1 THEN "user" ELSE "assistant"
    BY <2>1, <2>2, <2>3
  <2>5. \A i \in 1..k : i % 2 = 1 => r[i + 1].turn = r[i].turn
    <3> SUFFICES ASSUME NEW i \in 1..k, i % 2 = 1 PROVE r[i + 1].turn = r[i].turn
      OBVIOUS
    <3>1. i + 1 \in 1..k /\ (i + 1) + 2 = (i + 2) + 1
      BY <2>1
    <3>2. r[i + 1] = m[(i + 2) + 1] /\ r[i] = m[i + 2]
      BY <2>1, <3>1
    <3> QED
      BY <2>2, <2>3, <3>2
  <2>6. \A i, j \in 1..k : i < j => r[i].turn <= r[j].turn
    <3> SUFFICES ASSUME NEW i \in 1..k, NEW j \in 1..k, i < j PROVE r[i].turn <= r[j].turn
      OBVIOUS
    <3>1. i + 2 \in 1..(k + 2) /\ j + 2 \in 1..(k + 2) /\ i + 2 < j + 2
      BY <2>1
    <3> QED
      BY <2>1, <2>2, <3>1
  <2>7. \A i \in 1..k : r[i].turn < t + 1
    BY <2>1, <2>2, <2>3
  <2>8. Whole(r)
    BY <2>1, <2>4, <2>5, <2>6 DEF Whole
  <2>9. Window = 0 \/ Len(r) <= 2 * Window
    BY <1>2, <2>1 DEF k
  <2> QED
    BY <2>1, <2>7, <2>8, <2>9 DEF Older
<1> QED
  BY <1>2, <1>4, <1>5

-----------------------------------------------------------------------------
(* The turns of a message list *)

\* A function on 1..k is a sequence of length k.
LEMMA FunctionIsSeq ==
    ASSUME NEW S, NEW k \in Nat, NEW f \in [1..k -> S]
    PROVE  f \in Seq(S) /\ Len(f) = k
  OBVIOUS

\* Whole turns: half as many turns as messages, each that of its second message.
LEMMA TurnsOfWhole ==
    ASSUME NEW l \in Seq(Message), Len(l) % 2 = 0
    PROVE  /\ TurnsOf(l) \in Seq(1..MaxTurns) /\ Len(l) = 2 * Len(TurnsOf(l))
           /\ \A i \in 1..Len(TurnsOf(l)) : TurnsOf(l)[i] = l[2 * i].turn
<1> DEFINE k == Len(l) \div 2
<1>1. Len(l) \in Nat /\ k \in Nat /\ Len(l) = 2 * k
  OBVIOUS
<1> HIDE DEF k
<1>2. TurnsOf(l) = [i \in 1..k |-> l[2 * i].turn]
  BY DEF TurnsOf, k
<1>3. \A i \in 1..k : l[2 * i].turn \in 1..MaxTurns
  <2> SUFFICES ASSUME NEW i \in 1..k PROVE l[2 * i].turn \in 1..MaxTurns
    OBVIOUS
  <2>1. 2 * i \in 1..Len(l)
    BY <1>1
  <2> QED
    BY <2>1, MessageFields
<1>4. TurnsOf(l) \in [1..k -> 1..MaxTurns]
  BY <1>2, <1>3
<1>5. TurnsOf(l) \in Seq(1..MaxTurns) /\ Len(TurnsOf(l)) = k
  <2>1. k \in Nat
    BY <1>1
  <2> QED
    BY <1>4, <2>1, FunctionIsSeq
<1> QED
  BY <1>1, <1>2, <1>5

\* Sequences with the same elements are equal.
LEMMA SameElements ==
    ASSUME NEW S, NEW a \in Seq(S), NEW b \in Seq(S), Len(a) = Len(b),
           \A i \in 1..Len(a) : a[i] = b[i]
    PROVE  a = b
  OBVIOUS

\* A trim of messages is the window of turns.
LEMMA TrimIsWindow ==
    ASSUME NEW l \in Seq(Message), NEW t \in 1..MaxTurns, Older(l, t),
           NEW r, r = Trim(l \o MessagesOf(t))
    PROVE  TurnsOf(r) = Windows!LastN(Append(TurnsOf(l), t), Window)
<1> DEFINE m == l \o MessagesOf(t)  u == TurnsOf(l)  v == TurnsOf(m)  k == Len(u)
<1>1. /\ m \in Seq(Message) /\ Len(m) = Len(l) + 2 /\ Whole(m) /\ (Window = 0 \/ Len(m) <= 2 * Window + 2)
  BY PushedWhole
<1>2. r = Trim(m) /\ t \in Nat /\ Window \in Nat /\ Len(m) % 2 = 0 /\ Len(l) % 2 = 0
  BY <1>1, MemoryAssumption DEF Older, Whole
<1>3. /\ u \in Seq(1..MaxTurns) /\ k \in Nat /\ Len(l) = 2 * k
      /\ \A i \in 1..k : u[i] = l[2 * i].turn
  BY <1>2, TurnsOfWhole
<1>5. /\ \A i \in 1..Len(l) : m[i] = l[i]
      /\ m[Len(l) + 2] = [role |-> "assistant", turn |-> t]
  BY Pushed
<1> HIDE DEF m, u, k
<1>4. /\ v \in Seq(1..MaxTurns) /\ Len(m) = 2 * Len(v) /\ Len(v) \in Nat
      /\ \A i \in 1..Len(v) : v[i] = m[2 * i].turn
  <2>1. m \in Seq(Message) /\ Len(m) % 2 = 0
    BY <1>1, <1>2
  <2>2. /\ v \in Seq(1..MaxTurns) /\ Len(m) = 2 * Len(v)
        /\ \A i \in 1..Len(v) : v[i] = m[2 * i].turn
    BY <2>1, TurnsOfWhole
  <2>3. v \in Seq(1..MaxTurns)
    BY <2>2
  <2> HIDE DEF v
  <2>4. Len(v) \in Nat
    BY <2>3
  <2> QED
    BY <2>2, <2>4
<1> HIDE DEF v
<1>6. Len(v) = k + 1
  BY <1>1, <1>3, <1>4
<1>7. Append(u, t) \in Seq(1..MaxTurns) /\ Len(Append(u, t)) = k + 1
      /\ Append(u, t)[k + 1] = t /\ \A i \in 1..k : Append(u, t)[i] = u[i]
  BY <1>3 DEF k
<1>8. v = Append(u, t)
  <2>1. ASSUME NEW i \in 1..(k + 1) PROVE v[i] = Append(u, t)[i]
    <3>1. CASE i \in 1..k
      <4>1. 2 * i \in 1..Len(l)
        BY <1>3, <3>1
      <4> QED
        BY <1>3, <1>4, <1>5, <1>6, <1>7, <3>1, <4>1
    <3>2. CASE i = k + 1
      <4>1. 2 * i = Len(l) + 2
        BY <1>3, <3>2
      <4>2. m[2 * i].turn = t
        BY <1>5, <4>1
      <4> QED
        BY <1>4, <1>6, <1>7, <3>2, <4>2
    <3>3. k \in Nat
      BY <1>3
    <3>4. i \in 1..k \/ i = k + 1
      BY <3>3
    <3> QED
      BY <3>1, <3>2, <3>4
  <2> QED
    BY <1>4, <1>6, <1>7, <2>1, SameElements
<1>9. CASE Window = 0 \/ Len(m) <= 2 * Window
  <2>0. Len(v) \in Nat /\ (Window = 0 \/ 2 * Len(v) <= 2 * Window) /\ Window \in Nat
    BY <1>2, <1>4, <1>9
  <2>1. r = m /\ (Window = 0 \/ Len(v) <= Window)
    BY <1>2, <1>9, <2>0 DEF Trim
  <2>2. Windows!LastN(v, Window) = v
    BY <2>1 DEF Windows!LastN
  <2> QED
    BY <1>8, <2>1, <2>2 DEF u, v
<1>10. CASE Window # 0 /\ Len(m) > 2 * Window
  <2>1. /\ r \in Seq(Message) /\ Len(m) = 2 * Window + 2 /\ Len(r) = 2 * Window
        /\ \A i \in 1..(2 * Window) : r[i] = m[i + 2]
    BY <1>1, <1>2, <1>10, Dropped
  <2>2. Len(v) = Window + 1 /\ Len(r) % 2 = 0
    BY <1>2, <1>4, <2>1
  <2>3. /\ TurnsOf(r) \in Seq(1..MaxTurns) /\ Len(r) = 2 * Len(TurnsOf(r))
        /\ \A i \in 1..Len(TurnsOf(r)) : TurnsOf(r)[i] = r[2 * i].turn
    BY <2>1, <2>2, TurnsOfWhole
  <2>4. Len(TurnsOf(r)) = Window
    BY <1>2, <2>1, <2>3
  <2>5. Windows!LastN(v, Window) = SubSeq(v, 2, Window + 1)
    BY <1>2, <1>10, <2>2 DEF Windows!LastN
  <2>6. /\ SubSeq(v, 2, Window + 1) \in Seq(1..MaxTurns) /\ Len(SubSeq(v, 2, Window + 1)) = Window
        /\ \A i \in 1..Window : SubSeq(v, 2, Window + 1)[i] = v[i + 1]
    <3> DEFINE lo == 2  hi == Window + 1
    <3>1. lo \in Int /\ hi \in Int /\ \A i \in lo..hi : v[i] \in 1..MaxTurns
      <4>0. v \in Seq(1..MaxTurns)
        BY <1>4
      <4>1. \A i \in 1..Len(v) : v[i] \in 1..MaxTurns
        BY <4>0, ElementOfSeq
      <4>2. \A i \in 2..(Window + 1) : i \in 1..Len(v)
        BY <1>2, <2>2
      <4> QED
        BY <1>2, <4>1, <4>2
    <3> HIDE DEF lo, hi
    <3>2. /\ SubSeq(v, lo, hi) \in Seq(1..MaxTurns)
          /\ Len(SubSeq(v, lo, hi)) = IF lo <= hi THEN hi - lo + 1 ELSE 0
          /\ \A i \in 1..(hi - lo + 1) : SubSeq(v, lo, hi)[i] = v[lo + i - 1]
      BY <3>1, SubSeqProperties
    <3>3. lo <= hi /\ hi - lo + 1 = Window /\ \A i \in 1..Window : lo + i - 1 = i + 1
      BY <1>10, MemoryAssumption DEF lo, hi
    <3>4. /\ SubSeq(v, lo, hi) \in Seq(1..MaxTurns) /\ Len(SubSeq(v, lo, hi)) = Window
          /\ \A i \in 1..Window : SubSeq(v, lo, hi)[i] = v[i + 1]
      BY <3>2, <3>3
    <3> QED
      BY <3>4 DEF lo, hi
  <2>7. ASSUME NEW i \in 1..Window PROVE TurnsOf(r)[i] = SubSeq(v, 2, Window + 1)[i]
    <3>1. 2 * i \in 1..(2 * Window) /\ i + 1 \in 1..(Window + 1) /\ 2 * (i + 1) = 2 * i + 2
      BY <1>2
    <3>2. TurnsOf(r)[i] = m[2 * i + 2].turn
      BY <2>1, <2>3, <2>4, <3>1
    <3>3. v[i + 1] = m[2 * i + 2].turn
      BY <1>4, <2>2, <3>1
    <3> QED
      BY <2>6, <3>2, <3>3
  <2> QED
    BY <1>8, <2>3, <2>4, <2>5, <2>6, <2>7, SameElements DEF u
<1> QED
  BY <1>2, <1>4, <1>9, <1>10

-----------------------------------------------------------------------------
(* Invariance *)

\* A list whose turns are older than t is older than t + 1; an empty list is.
LEMMA OlderStays ==
    ASSUME NEW l \in Seq(Message), NEW t \in Nat
    PROVE  (Older(l, t) => Older(l, t + 1)) /\ Older(<<>>, t)
<1>1. Older(<<>>, t)
  BY MemoryAssumption DEF Older, Whole
<1>2. ASSUME Older(l, t) PROVE Older(l, t + 1)
  <2>1. \A i \in 1..Len(l) : l[i].turn \in Nat /\ l[i].turn < t
    BY <1>2, MessageFields DEF Older
  <2>2. \A i \in 1..Len(l) : l[i].turn < t + 1
    BY <2>1
  <2> QED
    BY <1>2, <2>2 DEF Older
<1> QED
  BY <1>1, <1>2

\* Writing one list.
LEMMA ListSet ==
    ASSUME NEW st \in [Stores -> [Sessions -> Seq(Message)]], NEW x \in Stores, NEW s \in Sessions,
           NEW r \in Seq(Message), NEW new, new = [st EXCEPT ![x][s] = r]
    PROVE  /\ new \in [Stores -> [Sessions -> Seq(Message)]] /\ new[x][s] = r
           /\ \A y \in Stores, z \in Sessions : <<y, z>> # <<x, s>> => new[y][z] = st[y][z]
<1>1. new = [st EXCEPT ![x] = [st[x] EXCEPT ![s] = r]]
  OBVIOUS
<1>2. [st[x] EXCEPT ![s] = r] \in [Sessions -> Seq(Message)]
  OBVIOUS
<1> QED
  BY <1>1, <1>2

\* A process' store is a store.
LEMMA HomeIsStore ==
    ASSUME NEW p \in Processes
    PROVE  Home(p) \in Stores
  BY DEF Home, Stores

LEMMA InitInv == Init => Inv
<1> SUFFICES ASSUME Init PROVE Inv
  OBVIOUS
<1>1. TypeOK
  BY MemoryAssumption DEF Init, TypeOK, Message
<1>2. ASSUME NEW x \in Stores, NEW s \in Sessions PROVE Older(store[x][s], nextTurn)
  <2>1. store[x][s] = <<>> /\ nextTurn \in Nat
    BY DEF Init
  <2>2. <<>> \in Seq(Message)
    OBVIOUS
  <2> QED
    BY <2>1, <2>2, OlderStays
<1> QED
  BY <1>1, <1>2 DEF Inv

\* Every action writes lists that are older than the next turn.
LEMMA NextInv ==
    ASSUME Inv, [Next]_vars
    PROVE  Inv'
<1>0. TypeOK /\ (\A x \in Stores, s \in Sessions : Older(store[x][s], nextTurn)) /\ nextTurn \in Nat
  BY DEF Inv, TypeOK
<1>1. CASE UNCHANGED vars
  BY <1>0, <1>1 DEF vars, Inv, TypeOK
<1>2. CASE Outage
  BY <1>0, <1>2 DEF Outage, Inv, TypeOK
<1>3. ASSUME NEW p \in Processes, Resolve(p) PROVE Inv'
  BY <1>0, <1>3 DEF Resolve, Inv, TypeOK
<1>4. ASSUME NEW p \in Processes, Raise(p) PROVE Inv'
  BY <1>0, <1>4 DEF Raise, Inv, TypeOK
<1>5. ASSUME NEW p \in Processes, Restart(p) PROVE Inv'
  <2>1. TypeOK'
    BY <1>0, <1>5 DEF Restart, TypeOK, Stores
  <2>2. ASSUME NEW x \in Stores, NEW s \in Sessions PROVE Older(store[x][s], nextTurn)'
    <3>1. store'[x][s] = store[x][s] \/ store'[x][s] = <<>>
      BY <1>0, <1>5 DEF Restart, TypeOK
    <3>2. nextTurn' = nextTurn /\ store[x][s] \in Seq(Message)
      BY <1>0, <1>5 DEF Restart, TypeOK
    <3> QED
      BY <1>0, <3>1, <3>2, OlderStays
  <2> QED
    BY <2>1, <2>2 DEF Inv
<1>6. ASSUME NEW x \in Stores, NEW s \in Sessions, store' = [store EXCEPT ![x][s] = <<>>],
             UNCHANGED <<up, client, nextTurn, raised>>
      PROVE  Inv'
  <2>0. <<>> \in Seq(Message) /\ store \in [Stores -> [Sessions -> Seq(Message)]]
    BY <1>0 DEF TypeOK
  <2>1. /\ store' \in [Stores -> [Sessions -> Seq(Message)]] /\ store'[x][s] = <<>>
        /\ \A y \in Stores, z \in Sessions : <<y, z>> # <<x, s>> => store'[y][z] = store[y][z]
    BY <1>6, <2>0, ListSet
  <2>2. TypeOK'
    BY <1>0, <1>6, <2>1 DEF TypeOK
  <2>3. ASSUME NEW y \in Stores, NEW z \in Sessions PROVE Older(store[y][z], nextTurn)'
    <3>1. store'[y][z] = store[y][z] \/ store'[y][z] = <<>>
      BY <2>1
    <3> QED
      BY <1>0, <1>6, <2>0, <3>1, OlderStays
  <2> QED
    BY <2>2, <2>3 DEF Inv
<1>7. ASSUME NEW s \in Sessions, Expire(s) PROVE Inv'
  BY <1>6, <1>7 DEF Expire, Stores
<1>8. ASSUME NEW p \in Processes, NEW s \in Sessions, Clear(p, s) PROVE Inv'
  BY <1>4, <1>6, <1>8, HomeIsStore DEF Clear
<1>9. ASSUME NEW p \in Processes, NEW s \in Sessions, AddTurn(p, s) PROVE Inv'
  <2>1. CASE ~Reaches(p) /\ Raise(p)
    BY <1>4, <2>1
  <2>2. CASE /\ Reaches(p) /\ nextTurn <= MaxTurns
             /\ store' = [store EXCEPT ![Home(p)][s] = Trim(@ \o MessagesOf(nextTurn))]
             /\ nextTurn' = nextTurn + 1
             /\ UNCHANGED <<up, client, raised>>
    <3> DEFINE x == Home(p)  r == Trim(store[x][s] \o MessagesOf(nextTurn))
    <3>1. x \in Stores
      BY HomeIsStore
    <3> HIDE DEF x
    <3>2. nextTurn \in 1..MaxTurns /\ nextTurn + 1 \in 1..(MaxTurns + 1)
      BY <1>0, <2>2, MemoryAssumption DEF TypeOK
    <3>3. store[x][s] \in Seq(Message) /\ Older(store[x][s], nextTurn)
      BY <1>0, <3>1 DEF TypeOK
    <3>4. r \in Seq(Message) /\ Older(r, nextTurn + 1)
      BY <3>2, <3>3, Trimmed
    <3>5. store' = [store EXCEPT ![x][s] = r] /\ store \in [Stores -> [Sessions -> Seq(Message)]]
      BY <1>0, <2>2 DEF x, TypeOK
    <3> HIDE DEF r
    <3>6. /\ store' \in [Stores -> [Sessions -> Seq(Message)]] /\ store'[x][s] = r
          /\ \A y \in Stores, z \in Sessions : <<y, z>> # <<x, s>> => store'[y][z] = store[y][z]
      BY <3>1, <3>4, <3>5, ListSet
    <3>7. TypeOK'
      BY <1>0, <2>2, <3>2, <3>6 DEF TypeOK
    <3>8. ASSUME NEW y \in Stores, NEW z \in Sessions PROVE Older(store[y][z], nextTurn)'
      <4>1. CASE <<y, z>> = <<x, s>>
        BY <2>2, <3>4, <3>6, <4>1
      <4>2. CASE <<y, z>> # <<x, s>>
        <5>1. store[y][z] \in Seq(Message)
          BY <3>5
        <5> QED
          BY <1>0, <2>2, <3>6, <4>2, <5>1, OlderStays
      <4> QED
        BY <4>1, <4>2
    <3> QED
      BY <3>7, <3>8 DEF Inv
  <2> QED
    BY <1>9, <2>1, <2>2 DEF AddTurn
<1>10. ASSUME NEW p \in Processes, Read(p) PROVE Inv'
  BY <1>4, <1>10 DEF Read
<1> QED
  BY <1>1, <1>2, <1>3, <1>5, <1>7, <1>8, <1>9, <1>10 DEF Next

\* Inv is an invariant of the managers.
LEMMA MemoryInvariant == Spec => []Inv
<1>1. Inv /\ [Next]_vars => Inv'
  BY NextInv
<1> QED
  BY InitInv, <1>1, PTL DEF Spec

\* A process keeps one backend, and every store holds a list of messages for each
\* session, whatever order outages, restarts and calls come in.
THEOREM MemoryTypeCorrect == Spec => []TypeOK
<1>1. Inv => TypeOK
  BY DEF Inv
<1> QED
  BY MemoryInvariant, <1>1, PTL

\* No history ever holds half a turn, a turn in the wrong order, or more than the
\* window: RPUSH, LTRIM and the in-process trim cut between turns (session_memory.py).
THEOREM TurnsStayWhole == Spec => []WholeTurns
<1>1. Inv => WholeTurns
  BY DEF Inv, Older, Whole, WholeTurns
<1> QED
  BY MemoryInvariant, <1>1, PTL

-----------------------------------------------------------------------------
(* The refinement *)

\* The history that a pair of a store and a session stands for.
HistoryOf(st) == [h \in Stores \X Sessions |-> TurnsOf(st[h[1]][h[2]])]

\* The abstract steps, in terms of HistoryOf.
LEMMA MappedAdd ==
    ASSUME NEW x \in Stores, NEW s \in Sessions, NEW t \in 1..MaxTurns,
           HistoryOf(store') = [HistoryOf(store) EXCEPT ![<<x, s>>] = Windows!LastN(Append(@, t), Window)]
    PROVE  Windows!Next
<1>1. <<x, s>> \in Stores \X Sessions
  OBVIOUS
<1>2. Windows!AddTurn(<<x, s>>, t)
  BY DEF Windows!AddTurn, HistoryOf
<1> QED
  BY <1>1, <1>2 DEF Windows!Next

LEMMA MappedForget ==
    ASSUME NEW H \in SUBSET (Stores \X Sessions),
           HistoryOf(store') = [h \in Stores \X Sessions |-> IF h \in H THEN <<>> ELSE HistoryOf(store)[h]]
    PROVE  Windows!Next
<1>1. Windows!Forget(H)
  BY DEF Windows!Forget, HistoryOf
<1> QED
  BY <1>1 DEF Windows!Next

\* An empty list is no turns.
LEMMA NoTurns == TurnsOf(<<>>) = <<>>
  BY DEF TurnsOf

LEMMA InitMapped == Init => Windows!Init
<1> SUFFICES ASSUME Init PROVE Windows!Init
  OBVIOUS
<1>1. \A h \in Stores \X Sessions : store[h[1]][h[2]] = <<>>
  BY DEF Init
<1> QED
  BY <1>1, NoTurns DEF Windows!Init

\* An untouched store is a stuttering step.
LEMMA MappedStutter ==
    ASSUME store' = store
    PROVE  [Windows!Next]_(HistoryOf(store))
  BY DEF HistoryOf

\* Every step of the managers is an added turn, a forgotten history or nothing.
LEMMA StepMapped ==
    ASSUME Inv, [Next]_vars
    PROVE  [Windows!Next]_(HistoryOf(store))
<1>0. store \in [Stores -> [Sessions -> Seq(Message)]]
  BY DEF Inv, TypeOK
<1>1. CASE UNCHANGED vars \/ Outage \/ \E p \in Processes : Resolve(p) \/ Read(p) \/ Raise(p)
  BY <1>1, MappedStutter DEF vars, Outage, Resolve, Read, Raise
<1>2. ASSUME NEW x \in Stores, NEW s \in Sessions, store' = [store EXCEPT ![x][s] = <<>>]
      PROVE  Windows!Next
  <2>1. <<>> \in Seq(Message)
    OBVIOUS
  <2>2. /\ store'[x][s] = <<>>
        /\ \A y \in Stores, z \in Sessions : <<y, z>> # <<x, s>> => store'[y][z] = store[y][z]
    BY <1>0, <1>2, <2>1, ListSet
  <2>3. ASSUME NEW h \in Stores \X Sessions
        PROVE  TurnsOf(store'[h[1]][h[2]]) = IF h \in {<<x, s>>} THEN <<>> ELSE HistoryOf(store)[h]
    <3>1. CASE h = <<x, s>>
      BY <2>2, <3>1, NoTurns
    <3>2. CASE h # <<x, s>>
      BY <2>2, <3>2 DEF HistoryOf
    <3> QED
      BY <3>1, <3>2
  <2>4. HistoryOf(store') = [h \in Stores \X Sessions |-> IF h \in {<<x, s>>} THEN <<>> ELSE HistoryOf(store)[h]]
    BY <2>3 DEF HistoryOf
  <2>5. {<<x, s>>} \in SUBSET (Stores \X Sessions)
    OBVIOUS
  <2> QED
    BY <2>4, <2>5, MappedForget
<1>3. ASSUME NEW p \in Processes, Restart(p) PROVE Windows!Next
  <2> DEFINE H == {h \in Stores \X Sessions : h[1] = p}
  <2>1. ASSUME NEW h \in Stores \X Sessions
        PROVE  TurnsOf(store'[h[1]][h[2]]) = IF h \in H THEN <<>> ELSE HistoryOf(store)[h]
    <3>1. CASE h[1] = p
      <4>1. store'[h[1]][h[2]] = <<>>
        BY <1>0, <1>3, <3>1 DEF Restart, Stores
      <4> QED
        BY <3>1, <4>1, NoTurns
    <3>2. CASE h[1] # p
      <4>1. store'[h[1]] = store[h[1]]
        BY <1>0, <1>3, <3>2 DEF Restart
      <4> QED
        BY <3>2, <4>1 DEF HistoryOf
    <3> QED
      BY <3>1, <3>2
  <2> HIDE DEF H
  <2>2. HistoryOf(store') = [h \in Stores \X Sessions |-> IF h \in H THEN <<>> ELSE HistoryOf(store)[h]]
    BY <2>1 DEF HistoryOf
  <2>3. H \in SUBSET (Stores \X Sessions)
    BY DEF H
  <2> QED
    BY <2>2, <2>3, MappedForget
<1>4. ASSUME NEW p \in Processes, NEW s \in Sessions, Clear(p, s)
      PROVE  [Windows!Next]_(HistoryOf(store))
  BY <1>1, <1>2, <1>4, HomeIsStore DEF Clear
<1>5. ASSUME NEW s \in Sessions, Expire(s) PROVE Windows!Next
  BY <1>2, <1>5 DEF Expire, Stores
<1>6. ASSUME NEW p \in Processes, NEW s \in Sessions, AddTurn(p, s)
      PROVE  [Windows!Next]_(HistoryOf(store))
  <2>1. CASE ~Reaches(p) /\ Raise(p)
    BY <1>1, <2>1
  <2>2. CASE Reaches(p) /\ nextTurn <= MaxTurns
             /\ store' = [store EXCEPT ![Home(p)][s] = Trim(@ \o MessagesOf(nextTurn))]
    <3> DEFINE x == Home(p)  t == nextTurn  r == Trim(store[x][s] \o MessagesOf(t))
               new == Windows!LastN(Append(TurnsOf(store[x][s]), t), Window)
    <3>1. x \in Stores
      BY HomeIsStore
    <3>2. t \in 1..MaxTurns
      BY <2>2, MemoryAssumption DEF Inv, TypeOK
    <3>3. store' = [store EXCEPT ![x][s] = r]
      BY <1>0, <2>2
    <3> HIDE DEF x, t
    <3>4. store[x][s] \in Seq(Message) /\ Older(store[x][s], t)
      BY <1>0, <3>1 DEF Inv, t
    <3>5. r \in Seq(Message) /\ TurnsOf(r) = new
      BY <3>2, <3>4, Trimmed, TrimIsWindow
    <3> HIDE DEF r
    <3>6. /\ store'[x][s] = r
          /\ \A y \in Stores, z \in Sessions : <<y, z>> # <<x, s>> => store'[y][z] = store[y][z]
      BY <1>0, <3>1, <3>3, <3>5, ListSet
    <3>7. HistoryOf(store)[<<x, s>>] = TurnsOf(store[x][s])
      BY <3>1 DEF HistoryOf
    <3> HIDE DEF new
    <3>8. ASSUME NEW h \in Stores \X Sessions
          PROVE  TurnsOf(store'[h[1]][h[2]]) = IF h = <<x, s>> THEN new ELSE HistoryOf(store)[h]
      <4>1. CASE h = <<x, s>>
        BY <3>5, <3>6, <4>1
      <4>2. CASE h # <<x, s>>
        BY <3>6, <4>2 DEF HistoryOf
      <4> QED
        BY <4>1, <4>2
    <3>9. HistoryOf(store') = [HistoryOf(store) EXCEPT ![<<x, s>>] = new]
      BY <3>8 DEF HistoryOf
    <3>10. HistoryOf(store') =
             [HistoryOf(store) EXCEPT ![<<x, s>>] = Windows!LastN(Append(@, t), Window)]
      BY <3>7, <3>9 DEF new
    <3> QED
      BY <3>1, <3>2, <3>10, MappedAdd
  <2> QED
    BY <1>6, <2>1, <2>2 DEF AddTurn
<1> QED
  BY <1>1, <1>3, <1>4, <1>5, <1>6 DEF Next

\* Redis lists and in-process dicts implement sliding windows of whole turns: each
\* history is the last Window turns added to it since it was created, cleared or lost
\* (session_memory.py add_turn, clear_session, _trim_memory).
THEOREM MemoryImplementsWindow == Spec => ImplementsWindow
<1>1. Inv /\ [Next]_vars => [Windows!Next]_(HistoryOf(store))
  BY StepMapped
<1>2. Inv /\ [Next]_vars => [Windows!Next]_([h \in Stores \X Sessions |-> TurnsOf(store[h[1]][h[2]])])
  BY <1>1 DEF HistoryOf
<1> QED
  BY InitMapped, MemoryInvariant, <1>2, PTL DEF Spec, ImplementsWindow, Windows!Spec
=============================================================================
