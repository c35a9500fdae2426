------------------------- MODULE ConversationProofs -------------------------
(***************************************************************************)
(* Proofs about Conversation: what a request is made of, whatever the      *)
(* model answered and whatever was compacted, stopped, asked or reset, for *)
(* every window, digest and set of answers.                                *)
(***************************************************************************)
EXTENDS Conversation, SequenceTheorems, WellFoundedInduction, TLAPS

---------------------------------------------------------------------------
(* The invariant *)

\* An item of the history: who calls tools is the assistant, with no more calls than the
\* boundary looks back, and who has the result of a call is a tool.
Message ==
    {m \in [n : Nat, role : {"user", "assistant", "tool"}, text : BOOLEAN, calls : Seq(STRING),
            of : {<<>>} \cup (Nat \X Nat)] :
        /\ m.role # "assistant" => m.calls = <<>>
        /\ m.role = "assistant" => m.text \/ m.calls # <<>>
        /\ m.role = "tool" <=> m.of # <<>>
        /\ Len(m.calls) <= ScanBack}

Call == [id : Nat \X Nat, tool : STRING]

Bundle == [digest : Seq(Nat), history : Seq(Message), task : Nat]

TypeOK ==
    /\ history \in Seq(Message) /\ digest \in Seq(Nat) /\ bundle \in Bundle
    /\ pc \in {"idle", "top", "chat", "receive", "reply", "tool", "append", "summary"}
    /\ calls \in Seq(Call)
    /\ n \in Nat /\ tasks \in Nat /\ base \in Nat
    /\ task \in BOOLEAN /\ final \in BOOLEAN /\ stopped \in BOOLEAN /\ waiting \in BOOLEAN
    /\ raced \in BOOLEAN
    /\ abandoned \subseteq Nat \X Nat

\* Where the loop is says what is left of an answer and of a task.
Control ==
    /\ pc \in {"tool", "append"} <=> calls # <<>>
    /\ pc \in {"reply", "tool", "append", "summary"} \/ final => ~task
    /\ task => tasks > 0
    /\ waiting => pc = "idle"
    /\ pc = "append" => calls[1].tool # "ask"
    /\ pc = "idle" => ~final

\* Items are numbered without a gap up to the newest, and at least the window is kept.
Numbered(h, d, newest, gone) ==
    /\ gone + Len(h) <= newest
    /\ \A i \in 1..Len(h) : h[i].n = newest - Len(h) + i
    /\ gone + Len(h) < newest => Len(h) >= Window
    /\ d = <<>> => gone + Len(h) = newest

\* The digest goes from the oldest item to the last one before the history, with remarks
\* that follow a bullet.
DigestFits(d, last, gone) ==
    /\ \A i \in 1..Len(d) :
          /\ d[i] = 0 => i > 1 /\ d[i - 1] # 0
          /\ d[i] # 0 =>
                /\ d[i] <= last
                /\ i = 1 => d[i] = gone + 1
                /\ i > 1 => d[i] = d[i - 1] + 1 \/ (d[i - 1] = 0 /\ i > 2 /\ d[i] > d[i - 2])
    /\ d # <<>> => d[Len(d)] \in {0, last}

\* A result follows the message with its call, and only results of earlier calls of the
\* same message are in between.
ResultOf(h, i, j) ==
    /\ h[j].of[1] = h[i].n /\ h[j].of[2] \in (j - i)..Len(h[i].calls)
    /\ \A k \in (i + 1)..j : h[k].role = "tool"
    /\ \A k \in (i + 1)..(j - 1) : h[k].of[2] < h[j].of[2]

Paired(h) ==
    \A j \in 1..Len(h) : h[j].role = "tool" => \E i \in 1..(j - 1) : ResultOf(h, i, j)

\* A call has its result, has still to run, or was given up.
Answered(h, given, left) ==
    \A i \in 1..Len(h) : \A q \in 1..Len(h[i].calls) :
        \/ <<h[i].n, q>> \in given
        \/ \E j \in (i + 1)..Len(h) : h[j].of = <<h[i].n, q>>
        \/ \E k \in 1..Len(left) : left[k].id = <<h[i].n, q>>

\* The end of the history is the item i and the results of its first calls, no question
\* among them.
Answering(h, i) ==
    /\ i \in 1..Len(h)
    /\ Len(h) - i < Len(h[i].calls)
    /\ \A k \in 1..(Len(h) - i) :
          h[i + k].role = "tool" /\ h[i + k].of = <<h[i].n, k>> /\ h[i].calls[k] # "ask"

\* The calls that are left are those of the last answer that have no result.
Running(h, left) ==
    left # <<>> =>
        \E i \in 1..Len(h) :
            /\ Answering(h, i)
            /\ Len(left) = Len(h[i].calls) - (Len(h) - i)
            /\ \A k \in 1..Len(left) :
                  left[k] = [id   |-> <<h[i].n, Len(h) - i + k>>,
                             tool |-> h[i].calls[Len(h) - i + k]]

\* The next call is a question.
Asking(h) ==
    \E i \in 1..Len(h) : Answering(h, i) /\ h[i].calls[Len(h) - i + 1] = "ask"

\* The user speaks first, or the digest does, and the assistant is always answered.
TakesTurns(h, d) ==
    /\ h # <<>> /\ d = <<>> => h[1].role = "user"
    /\ \A i \in 1..(Len(h) - 1) : ~(h[i].role = "assistant" /\ h[i + 1].role = "assistant")

EndsWithUser(h) == h # <<>> /\ h[Len(h)].role # "assistant"

\* The assistant is asked only after the user or a tool has spoken.
Heard ==
    /\ pc \in {"top", "chat", "receive", "summary"} /\ ~task => EndsWithUser(history)
    /\ pc = "reply" => EndsWithUser(history) \/ (history = <<>> /\ digest # <<>>)

\* The request under way tells what the engine knows.
Current ==
    pc = "chat" => bundle = [digest |-> digest, history |-> history,
                             task |-> IF task THEN MaxItems + tasks ELSE 0]

Kept(h, d, newest, gone) == Numbered(h, d, newest, gone) /\ DigestFits(d, newest - Len(h), gone)

\* What a reset in the middle of a run undoes.
Exchange ==
    /\ Paired(history) /\ Answered(history, abandoned, calls)
    /\ Running(history, calls) /\ (waiting => Asking(history))
    /\ TakesTurns(history, digest) /\ Heard /\ Current

IInv == TypeOK /\ Control /\ Kept(history, digest, n, base) /\ (~raced => Exchange)

---------------------------------------------------------------------------
(* Induction and loops.  A set of numbers has a least member, so a set     *)
(* that has 0 and with each number the next has all of them; and a loop    *)
(* over the positions of a sequence has a result.                          *)

LEMMA Least == ASSUME NEW S, S \subseteq Nat, S # {} PROVE \E x \in S : \A y \in S : x <= y
<1> DEFINE R == {ss \in Nat \X Nat : ss[1] < ss[2]}
<1>1. IsWellFoundedOn(R, Nat)
  BY NatLessThanWellFounded DEF OpToRel
<1>2. \E x \in S : \A y \in S : ~ (<<y, x>> \in R)
  <2> HIDE DEF R
  <2> QED BY <1>1, WFMin
<1>3. PICK x \in S : \A y \in S : ~ (<<y, x>> \in R)
  BY <1>2
<1>4. ASSUME NEW y \in S PROVE x <= y
  <2>1. <<y, x>> \in Nat \X Nat /\ (y < x => <<y, x>> \in R)
    OBVIOUS
  <2> QED BY <1>3, <2>1
<1> QED BY <1>4

LEMMA Greatest ==
    ASSUME NEW S, NEW N \in Nat, S \subseteq 0..N, S # {} PROVE \E x \in S : \A y \in S : x >= y
<1> DEFINE T == {N - y : y \in S}
<1>1. T \subseteq Nat /\ T # {}
  <2> SUFFICES ASSUME NEW p \in S PROVE N - p \in Nat
    OBVIOUS
  <2> QED BY p \in 0..N
<1>2. PICK t \in T : \A u \in T : t <= u
  <2> HIDE DEF T
  <2> QED BY <1>1, Least
<1>3. PICK x \in S : t = N - x
  OBVIOUS
<1>4. ASSUME NEW y \in S PROVE x >= y
  <2>1. N - x <= N - y
    BY <1>2, <1>3
  <2> QED BY <2>1, x \in 0..N, y \in 0..N
<1> QED BY <1>4

LEMMA MaxIs ==
    ASSUME NEW S, NEW N \in Nat, S \subseteq 0..N, S # {} PROVE Max(S) \in S /\ \A y \in S : Max(S) >= y
BY Greatest DEF Max

LEMMA MinIs == ASSUME NEW S, S \subseteq Nat, S # {} PROVE Min(S) \in S /\ \A y \in S : Min(S) <= y
BY Least DEF Min

LEMMA Induct ==
    ASSUME NEW N \in Nat, NEW T, 0 \in T, \A i \in 1..N : i - 1 \in T => i \in T
    PROVE  \A i \in 0..N : i \in T
<1> DEFINE S == {i \in 0..N : i \notin T}
<1>1. SUFFICES ASSUME S # {} PROVE FALSE
  OBVIOUS
<1>2. PICK x \in S : \A y \in S : x <= y
  <2>1. S \subseteq Nat
    OBVIOUS
  <2> HIDE DEF S
  <2> QED BY <1>1, <2>1, Least
<1>3. x \in 1..N /\ x - 1 \in 0..N /\ x - 1 \in Nat /\ ~(x <= x - 1)
  BY <1>2
<1>4. x - 1 \in T
  BY <1>2, <1>3
<1> QED BY <1>2, <1>3, <1>4

\* f goes from start over the steps 1 to N.
IsLoop(f, N, S, start, next) ==
    f \in [0..N -> S] /\ f[0] = start /\ \A i \in 1..N : f[i] = next[<<f[i - 1], i>>]

LEMMA Loop ==
    ASSUME NEW N \in Nat, NEW S, NEW start \in S, NEW next, next \in [S \X (1..N) -> S]
    PROVE  \E f : IsLoop(f, N, S, start, next)
<1> DEFINE Done(k) == \E f \in [0..k -> S] : f[0] = start /\ \A i \in 1..k : f[i] = next[<<f[i - 1], i>>]
           T == {k \in 0..N : Done(k)}
<1>1. 0 \in T
  <2>1. [i \in 0..0 |-> start] \in [0..0 -> S] /\ [i \in 0..0 |-> start][0] = start /\ 1..0 = {}
    OBVIOUS
  <2>2. Done(0)
    BY <2>1
  <2> QED BY <2>2
<1>2. ASSUME NEW k \in 1..N, k - 1 \in T PROVE k \in T
  <2>1. PICK f \in [0..(k - 1) -> S] : f[0] = start /\ \A i \in 1..(k - 1) : f[i] = next[<<f[i - 1], i>>]
    BY <1>2
  <2>2. k - 1 \in 0..(k - 1) /\ k \in 0..k /\ 0 \in 0..(k - 1)
    OBVIOUS
  <2>3. PICK v : v = next[<<f[k - 1], k>>]
    OBVIOUS
  <2>4. v \in S
    BY <2>2, <2>3
  <2>5. PICK g : g = [i \in 0..k |-> IF i = k THEN v ELSE f[i]]
    OBVIOUS
  <2>6. g \in [0..k -> S]
    BY <2>4, <2>5
  <2>7. \A i \in 0..(k - 1) : g[i] = f[i]
    BY <2>5
  <2>8. ASSUME NEW i \in 1..k PROVE g[i] = next[<<g[i - 1], i>>]
    <3>1. i - 1 \in 0..(k - 1) /\ g[i - 1] = f[i - 1]
      BY <2>7
    <3>2. CASE i = k
      <4>1. g[i] = v
        BY <2>2, <2>5, <3>2
      <4> QED BY <2>3, <3>1, <3>2, <4>1
    <3>3. CASE i # k
      <4>1. i \in 1..(k - 1) /\ i \in 0..(k - 1)
        BY <3>3
      <4> QED BY <2>1, <2>7, <3>1, <4>1
    <3> QED BY <3>2, <3>3
  <2>9. g[0] = start
    BY <2>1, <2>2, <2>7
  <2>10. Done(k)
    BY <2>6, <2>8, <2>9
  <2> QED BY <2>10
<1>3. N \in T
  <2> HIDE DEF T
  <2>1. N \in 0..N
    OBVIOUS
  <2> QED BY <1>1, <1>2, <2>1, Induct
<1> QED BY <1>3 DEF IsLoop


---------------------------------------------------------------------------
(* Flattening a sequence of sequences *)

LEMMA FlattenEmpty == FlattenSeq(<<>>) = <<>>
BY DEF FlattenSeq

\* FlattenSeq goes through the sequence and appends.
LEMMA FlattenIs ==
    ASSUME NEW A, NEW ss \in Seq(Seq(A))
    PROVE  \E f \in [0..Len(ss) -> Seq(A)] :
               /\ f[0] = <<>> /\ \A i \in 1..Len(ss) : f[i] = f[i - 1] \o ss[i]
               /\ FlattenSeq(ss) = f[Len(ss)]
<1>1. PICK N \in Nat : N = Len(ss) /\ \A i \in 1..N : ss[i] \in Seq(A)
  OBVIOUS
<1>2. PICK next : next = [p \in Seq(A) \X (1..N) |-> p[1] \o ss[p[2]]]
  OBVIOUS
<1>3. next \in [Seq(A) \X (1..N) -> Seq(A)] /\ <<>> \in Seq(A)
  <2>1. ASSUME NEW p \in Seq(A) \X (1..N) PROVE p[1] \o ss[p[2]] \in Seq(A)
    <3>1. p[1] \in Seq(A) /\ ss[p[2]] \in Seq(A)
      BY <1>1
    <3> QED BY <3>1
  <2> QED BY <1>2, <2>1
<1>4. PICK f \in [0..N -> Seq(A)] : f[0] = <<>> /\ \A i \in 1..N : f[i] = next[<<f[i - 1], i>>]
  <2>1. PICK S : S = Seq(A)
    OBVIOUS
  <2>2. PICK e \in S : e = <<>>
    BY <1>3, <2>1
  <2>3. next \in [S \X (1..N) -> S]
    BY <1>3, <2>1
  <2>4. PICK f : IsLoop(f, N, S, e, next)
    BY <2>3, Loop, Zenon
  <2> QED BY <2>1, <2>2, <2>4 DEF IsLoop
<1>5. ASSUME NEW i \in 1..N PROVE f[i - 1] \in Seq(A) /\ f[i] = f[i - 1] \o ss[i]
  <2>1. i - 1 \in 0..N
    OBVIOUS
  <2>2. f[i - 1] \in Seq(A) /\ <<f[i - 1], i>> \in Seq(A) \X (1..N)
    BY <2>1
  <2>3. next[<<f[i - 1], i>>] = f[i - 1] \o ss[i]
    BY <1>2, <2>2
  <2> QED BY <1>4, <2>2, <2>3
<1>6. CASE N = 0
  <2>1. ss = <<>>
    <3>1. Len(ss) \notin Nat \ {0}
      BY <1>1, <1>6
    <3> QED BY <3>1, EmptySeq, Zenon
  <2>2. FlattenSeq(ss) = <<>>
    BY <2>1, FlattenEmpty, Zenon
  <2> QED BY <1>1, <1>4, <1>5, <1>6, <2>2
<1>7. CASE N # 0
  <2> DEFINE Solves(c) == c = [i \in 1..N |-> IF i = 1 THEN ss[i] ELSE c[i - 1] \o ss[i]]
  <2>1. PICK g : g = [i \in 1..N |-> f[i]]
    OBVIOUS
  <2>2. ASSUME NEW i \in 1..N PROVE g[i] = IF i = 1 THEN ss[i] ELSE g[i - 1] \o ss[i]
    <3>1. CASE i = 1
      <4>1. f[0] \o ss[1] = ss[1] /\ f[i - 1] = f[0]
        BY <1>1, <1>4, <3>1, ConcatEmptySeq
      <4> QED BY <1>5, <2>1, <3>1, <4>1
    <3>2. CASE i # 1
      <4>1. i - 1 \in 1..N
        BY <3>2
      <4> QED BY <1>5, <2>1, <3>2, <4>1
    <3> QED BY <3>1, <3>2
  <2>3. Solves(g)
    <3>1. PICK g2 : g2 = [i \in 1..N |-> IF i = 1 THEN ss[i] ELSE g[i - 1] \o ss[i]]
      OBVIOUS
    <3>2. g = g2
      BY <2>1, <2>2, <3>1
    <3> QED BY <3>1, <3>2
  <2>4. PICK c : Solves(c) /\ FlattenSeq(ss) = c[N]
    BY <1>1, <1>7, <2>3 DEF FlattenSeq
  <2>5. \A i \in 1..N : c[i] = IF i = 1 THEN ss[i] ELSE c[i - 1] \o ss[i]
    BY <2>4
  <2> DEFINE T == {i \in 0..N : i = 0 \/ c[i] = f[i]}
  <2>6. 0 \in T
    OBVIOUS
  <2>7. ASSUME NEW i \in 1..N, i - 1 \in T PROVE i \in T
    <3>1. CASE i = 1
      <4>1. f[i] = ss[i]
        BY <2>1, <2>2, <3>1
      <4> QED BY <2>5, <3>1, <4>1
    <3>2. CASE i # 1
      <4>1. c[i - 1] = f[i - 1]
        BY <2>7, <3>2
      <4>2. c[i] = c[i - 1] \o ss[i]
        BY <2>5, <3>2, Zenon
      <4>3. c[i] = f[i]
        BY <1>5, <4>1, <4>2, Zenon
      <4> QED BY <4>3
    <3> QED BY <3>1, <3>2
  <2>8. N \in T
    <3> HIDE DEF T
    <3>1. N \in 0..N
      OBVIOUS
    <3> QED BY <2>6, <2>7, <3>1, Induct
  <2> QED BY <1>1, <1>4, <1>5, <1>7, <2>4, <2>8
<1> QED BY <1>6, <1>7

LEMMA FlattenType == ASSUME NEW A, NEW ss \in Seq(Seq(A)) PROVE FlattenSeq(ss) \in Seq(A)
<1>1. Len(ss) \in 0..Len(ss)
  OBVIOUS
<1>2. PICK f \in [0..Len(ss) -> Seq(A)] : FlattenSeq(ss) = f[Len(ss)]
  BY FlattenIs
<1> QED BY <1>1, <1>2

LEMMA FlattenAppend ==
    ASSUME NEW A, NEW ss \in Seq(Seq(A)), NEW s \in Seq(A)
    PROVE  FlattenSeq(Append(ss, s)) = FlattenSeq(ss) \o s
<1>1. PICK N \in Nat : N = Len(ss)
  OBVIOUS
<1>2. PICK tt \in Seq(Seq(A)) : tt = Append(ss, s) /\ Len(tt) = N + 1 /\ tt[N + 1] = s /\ \A i \in 1..N : tt[i] = ss[i]
  <2>1. PICK tt : tt = Append(ss, s)
    OBVIOUS
  <2>2. PICK S : S = Seq(A)
    OBVIOUS
  <2>3. ss \in Seq(S) /\ s \in S
    BY <2>2
  <2>4. tt \in Seq(S) /\ Len(tt) = Len(ss) + 1 /\ tt[Len(ss) + 1] = s /\ \A i \in 1..Len(ss) : tt[i] = ss[i]
    BY <2>1, <2>3, AppendProperties
  <2> QED BY <1>1, <2>1, <2>2, <2>4
<1>3. PICK f : f[0] = <<>> /\ (\A i \in 1..N : f[i] = f[i - 1] \o ss[i]) /\ FlattenSeq(ss) = f[N]
  BY <1>1, FlattenIs
<1>4. PICK g : g[0] = <<>> /\ (\A i \in 1..(N + 1) : g[i] = g[i - 1] \o tt[i]) /\ FlattenSeq(tt) = g[N + 1]
  <2>1. \E g \in [0..Len(tt) -> Seq(A)] :
               /\ g[0] = <<>> /\ \A i \in 1..Len(tt) : g[i] = g[i - 1] \o tt[i]
               /\ FlattenSeq(tt) = g[Len(tt)]
    BY <1>2, FlattenIs, Zenon
  <2> QED BY <1>2, <2>1, Zenon
<1> DEFINE T == {i \in 0..N : f[i] = g[i]}
<1>5. ASSUME NEW i \in 1..N, i - 1 \in T PROVE i \in T
  <2>1. i \in 1..(N + 1) /\ i \in 0..N /\ f[i - 1] = g[i - 1]
    BY <1>5
  <2>2. f[i] = g[i]
    BY <1>2, <1>3, <1>4, <2>1, Zenon
  <2> QED BY <2>1, <2>2
<1>6. f[N] = g[N]
  <2>1. 0 \in T /\ N \in 0..N
    BY <1>3, <1>4
  <2>2. \A i \in 0..N : i \in T
    <3> HIDE DEF T
    <3> QED BY <1>5, <2>1, Induct
  <2> QED BY <2>1, <2>2
<1>7. N + 1 \in 1..(N + 1) /\ (N + 1) - 1 = N
  OBVIOUS
<1>8. g[N + 1] = g[N] \o s
  BY <1>2, <1>4, <1>7
<1> QED BY <1>2, <1>3, <1>4, <1>6, <1>8

LEMMA FlattenOne == ASSUME NEW A, NEW s \in Seq(A) PROVE FlattenSeq(<<s>>) = s
<1>1. Append(<<>>, s) = <<s>> /\ <<>> \in Seq(Seq(A))
  OBVIOUS
<1>2. FlattenSeq(<<s>>) = <<>> \o s
  BY <1>1, FlattenAppend, FlattenEmpty
<1> QED BY <1>2, ConcatEmptySeq, Zenon

\* Appending sequences of sequences appends what they flatten to.
LEMMA FlattenConcat ==
    ASSUME NEW A, NEW ss \in Seq(Seq(A)), NEW tt \in Seq(Seq(A))
    PROVE  FlattenSeq(ss \o tt) = FlattenSeq(ss) \o FlattenSeq(tt)
<1>1. PICK N \in Nat : N = Len(tt) /\ \A i \in 1..N : tt[i] \in Seq(A)
  OBVIOUS
<1> DEFINE Pre(i) == SubSeq(tt, 1, i)
           T == {i \in 0..N : FlattenSeq(ss \o Pre(i)) = FlattenSeq(ss) \o FlattenSeq(Pre(i))}
<1>2. ASSUME NEW i \in 0..N PROVE Pre(i) \in Seq(Seq(A))
  BY <1>1, SubSeqProperties
<1>3. 0 \in T
  <2>1. Pre(0) = <<>> /\ ss \o <<>> = ss
    BY <1>1, ConcatEmptySeq
  <2>2. FlattenSeq(ss) \o <<>> = FlattenSeq(ss)
    BY FlattenType, ConcatEmptySeq
  <2>3. 0 \in 0..N
    OBVIOUS
  <2>4. FlattenSeq(ss \o Pre(0)) = FlattenSeq(ss) \o FlattenSeq(Pre(0))
    BY <2>1, <2>2, FlattenEmpty, Zenon
  <2> QED BY <2>3, <2>4
<1>4. ASSUME NEW i \in 1..N, i - 1 \in T PROVE i \in T
  <2>1. PICK p, t : p = Pre(i - 1) /\ t = tt[i]
    OBVIOUS
  <2>2. p \in Seq(Seq(A)) /\ t \in Seq(A)
    BY <1>1, <1>2, <2>1, i - 1 \in 0..N
  <2>3. Pre(i) = Append(p, t)
    <3>1. Pre(i) \in Seq(Seq(A)) /\ Append(p, t) \in Seq(Seq(A))
      <4>1. i \in 0..N
        OBVIOUS
      <4>2. Append(p, t) \in Seq(Seq(A))
        BY <2>2, AppendProperties, Zenon
      <4> QED BY <1>2, <4>1, <4>2, Zenon
    <3>2. /\ Len(Pre(i)) = i /\ \A k \in 1..i : Pre(i)[k] = tt[k]
          /\ Len(p) = i - 1 /\ \A k \in 1..(i - 1) : p[k] = tt[k]
      BY <1>1, <2>1, SubSeqProperties
    <3> HIDE DEF Pre
    <3>3. Len(Append(p, t)) = i /\ \A k \in 1..i : Append(p, t)[k] = tt[k]
      BY <2>1, <2>2, <3>2
    <3> QED BY <3>1, <3>2, <3>3, SeqEqual, ZenonT(40)
  <2> HIDE DEF Pre
  <2>4. ss \o Pre(i) = Append(ss \o p, t) /\ ss \o p \in Seq(Seq(A))
    BY <2>2, <2>3, SMTT(40)
  <2>5. FlattenSeq(ss \o Pre(i)) = (FlattenSeq(ss) \o FlattenSeq(p)) \o t
    BY <1>4, <2>1, <2>2, <2>4, FlattenAppend, ZenonT(40)
  <2>6. FlattenSeq(Pre(i)) = FlattenSeq(p) \o t
    BY <2>2, <2>3, FlattenAppend
  <2>7. (FlattenSeq(ss) \o FlattenSeq(p)) \o t = FlattenSeq(ss) \o (FlattenSeq(p) \o t)
    BY <2>2, FlattenType, ConcatAssociative, SMTT(40)
  <2>8. FlattenSeq(ss \o Pre(i)) = FlattenSeq(ss) \o FlattenSeq(Pre(i))
    BY <2>5, <2>6, <2>7, Zenon
  <2> QED BY <2>8, i \in 0..N
<1>5. N \in T
  <2>1. N \in 0..N
    OBVIOUS
  <2> HIDE DEF T
  <2> QED BY <1>3, <1>4, <2>1, Induct
<1>6. Pre(N) = tt
  <2>1. Pre(N) \in Seq(Seq(A)) /\ Len(Pre(N)) = N /\ \A k \in 1..N : Pre(N)[k] = tt[k]
    BY <1>1, SubSeqProperties
  <2> HIDE DEF Pre
  <2> QED BY <1>1, <2>1, SeqEqual
<1> HIDE DEF Pre
<1> QED BY <1>5, <1>6
---------------------------------------------------------------------------
(* The three formats *)

Atom == {"user", "assistant", "tool", "call", "result"} \X ({"digest", <<>>} \cup Nat \cup (Nat \X Nat))

WireMessage == [role : {"user", "assistant", "tool"}, content : Seq(Atom)]

LEMMA AtomsType ==
    ASSUME NEW m \in Message
    PROVE  /\ TextAtom(m) \in Atom /\ TextAtoms(m) \in Seq(Atom) /\ CallAtoms(m) \in Seq(Atom)
           /\ m.role = "tool" => ResultAtom(m) \in Atom
<1>1. m.n \in Nat /\ m.role \in {"user", "assistant", "tool"} /\ m.calls \in Seq(STRING) /\ m.of \in {<<>>} \cup (Nat \X Nat)
  BY DEF Message
<1>2. TextAtom(m) \in Atom
  BY <1>1 DEF TextAtom, Atom
<1>3. TextAtoms(m) \in Seq(Atom)
  BY <1>2 DEF TextAtoms
<1>4. CallAtoms(m) \in Seq(Atom)
  <2>1. PICK k \in Nat : k = Len(m.calls)
    BY <1>1
  <2>2. ASSUME NEW j \in 1..k PROVE CallAtom(m, j) \in Atom
    <3>1. <<m.n, j>> \in Nat \X Nat
      BY <1>1
    <3> QED BY <3>1 DEF CallAtom, Atom
  <2> QED BY <2>1, <2>2 DEF CallAtoms
<1>5. ResultAtom(m) \in Atom
  BY <1>1 DEF ResultAtom, Atom
<1> QED BY <1>2, <1>3, <1>4, <1>5

LEMMA InputsAre ==
    ASSUME NEW m \in Message
    PROVE  /\ ResponsesInputs(m) \in Seq(Atom)
           /\ m.role = "user" => ResponsesInputs(m) = <<TextAtom(m)>>
           /\ m.role = "assistant" => ResponsesInputs(m) = TextAtoms(m) \o CallAtoms(m)
           /\ m.role = "tool" => ResponsesInputs(m) = <<ResultAtom(m)>>
<1>1. m.role \in {"user", "assistant", "tool"}
  BY DEF Message
<1>2. /\ m.role = "user" => ResponsesInputs(m) = <<TextAtom(m)>>
      /\ m.role = "assistant" => ResponsesInputs(m) = TextAtoms(m) \o CallAtoms(m)
      /\ m.role = "tool" => ResponsesInputs(m) = <<ResultAtom(m)>>
  BY DEF ResponsesInputs
<1>3. TextAtoms(m) \o CallAtoms(m) \in Seq(Atom) /\ <<TextAtom(m)>> \in Seq(Atom)
  BY AtomsType
<1>4. m.role = "tool" => <<ResultAtom(m)>> \in Seq(Atom)
  BY AtomsType
<1> QED BY <1>1, <1>2, <1>3, <1>4

LEMMA ContentsConcat ==
    ASSUME NEW ms \in Seq(WireMessage), NEW ns \in Seq(WireMessage)
    PROVE  Contents(ms) \in Seq(Atom) /\ Contents(ms \o ns) = Contents(ms) \o Contents(ns)
<1> DEFINE Each(s) == [i \in 1..Len(s) |-> s[i].content]
<1>1. ASSUME NEW s \in Seq(WireMessage) PROVE Each(s) \in Seq(Seq(Atom)) /\ Len(Each(s)) = Len(s)
  <2>1. PICK k \in Nat : k = Len(s) /\ \A i \in 1..k : s[i] \in WireMessage
    OBVIOUS
  <2>2. ASSUME NEW i \in 1..k PROVE s[i].content \in Seq(Atom)
    BY <2>1 DEF WireMessage
  <2> QED BY <2>1, <2>2
<1>2. ms \o ns \in Seq(WireMessage)
  OBVIOUS
<1>3. Each(ms \o ns) = Each(ms) \o Each(ns)
  <2>1. /\ Len(ms \o ns) = Len(ms) + Len(ns) /\ Len(ms) \in Nat /\ Len(ns) \in Nat
        /\ \A i \in 1..Len(ms) + Len(ns) : (ms \o ns)[i] = IF i <= Len(ms) THEN ms[i] ELSE ns[i - Len(ms)]
    OBVIOUS
  <2>2. PICK x, y, z : x = Each(ms) /\ y = Each(ns) /\ z = Each(ms \o ns)
    OBVIOUS
  <2>3. /\ x \in Seq(Seq(Atom)) /\ y \in Seq(Seq(Atom)) /\ z \in Seq(Seq(Atom))
        /\ Len(x) = Len(ms) /\ Len(y) = Len(ns) /\ Len(z) = Len(ms) + Len(ns)
    BY <1>1, <1>2, <2>1, <2>2, Zenon
  <2>4. /\ x \o y \in Seq(Seq(Atom)) /\ Len(x \o y) = Len(ms) + Len(ns)
        /\ \A i \in 1..Len(ms) + Len(ns) : (x \o y)[i] = IF i <= Len(ms) THEN x[i] ELSE y[i - Len(ms)]
    <3>1. PICK A : A = Seq(Atom)
      OBVIOUS
    <3>2. x \in Seq(A) /\ y \in Seq(A)
      BY <2>3, <3>1
    <3>3. /\ x \o y \in Seq(A) /\ Len(x \o y) = Len(x) + Len(y)
          /\ \A i \in 1..Len(x) + Len(y) : (x \o y)[i] = IF i <= Len(x) THEN x[i] ELSE y[i - Len(x)]
      BY <3>2, ConcatProperties
    <3> QED BY <2>3, <3>1, <3>3, Zenon
  <2>5. ASSUME NEW i \in 1..Len(ms) + Len(ns) PROVE z[i] = (x \o y)[i]
    <3>1. z[i] = (ms \o ns)[i].content
      BY <2>1, <2>2
    <3>2. CASE i <= Len(ms)
      <4>1. x[i] = ms[i].content
        BY <2>1, <2>2, <3>2
      <4>2. (ms \o ns)[i] = ms[i] /\ (x \o y)[i] = x[i]
        BY <2>1, <2>4, <3>2, Zenon
      <4> QED BY <3>1, <4>1, <4>2, Zenon
    <3>3. CASE ~(i <= Len(ms))
      <4>1. y[i - Len(ms)] = ns[i - Len(ms)].content
        BY <2>1, <2>2, <3>3
      <4>2. (ms \o ns)[i] = ns[i - Len(ms)] /\ (x \o y)[i] = y[i - Len(ms)]
        BY <2>1, <2>4, <3>3, Zenon
      <4> QED BY <3>1, <4>1, <4>2, Zenon
    <3> QED BY <3>2, <3>3
  <2>6. z = x \o y
    BY <2>3, <2>4, <2>5, SeqEqual
  <2> QED BY <2>2, <2>6
<1> HIDE DEF Each
<1>4. /\ FlattenSeq(Each(ms)) \in Seq(Atom)
      /\ FlattenSeq(Each(ms) \o Each(ns)) = FlattenSeq(Each(ms)) \o FlattenSeq(Each(ns))
  BY <1>1, FlattenType, FlattenConcat
<1>5. Contents(ms) = FlattenSeq(Each(ms)) /\ Contents(ns) = FlattenSeq(Each(ns)) /\ Contents(ms \o ns) = FlattenSeq(Each(ms \o ns))
  BY DEF Contents, Each
<1> QED BY <1>3, <1>4, <1>5

LEMMA MessagesAre ==
    ASSUME NEW role \in {"user", "assistant", "tool"}, NEW content \in Seq(Atom)
    PROVE  /\ Messages(role, content) \in Seq(WireMessage)
           /\ Contents(Messages(role, content)) = content
           /\ Contents(<<[role |-> role, content |-> content]>>) = content
           /\ <<[role |-> role, content |-> content]>> \in Seq(WireMessage)
<1>1. PICK m : m = [role |-> role, content |-> content]
  OBVIOUS
<1>2. m \in WireMessage /\ m.content = content
  BY <1>1 DEF WireMessage
<1>3. Contents(<<m>>) = content
  <2>1. [i \in 1..Len(<<m>>) |-> <<m>>[i].content] = <<content>>
    BY <1>2
  <2> QED BY <2>1, FlattenOne DEF Contents
<1>4. Contents(<<>>) = <<>>
  <2>1. [i \in 1..Len(<<>>) |-> <<>>[i].content] = <<>>
    OBVIOUS
  <2> QED BY <2>1, FlattenEmpty DEF Contents
<1>5. CASE content = <<>>
  <2>1. Messages(role, content) = <<>>
    BY <1>5 DEF Messages
  <2>2. Messages(role, content) \in Seq(WireMessage) /\ Contents(Messages(role, content)) = content
    BY <1>4, <1>5, <2>1, EmptySeq, Zenon
  <2>3. <<m>> \in Seq(WireMessage)
    BY <1>2
  <2> QED BY <1>1, <1>3, <2>2, <2>3, Zenon
<1>6. CASE content # <<>>
  <2>1. Messages(role, content) = <<m>>
    BY <1>1, <1>6 DEF Messages
  <2> QED BY <1>1, <1>2, <1>3, <2>1
<1> QED BY <1>5, <1>6

LEMMA ChatSaysInputs ==
    ASSUME NEW m \in Message
    PROVE  ChatMessages(m) \in Seq(WireMessage) /\ Contents(ChatMessages(m)) = ResponsesInputs(m)
<1>1. CASE m.role = "user"
  <2>1. ChatMessages(m) = <<[role |-> "user", content |-> <<TextAtom(m)>>]>>
    BY <1>1 DEF ChatMessages
  <2>2. <<TextAtom(m)>> \in Seq(Atom) /\ ResponsesInputs(m) = <<TextAtom(m)>>
    BY <1>1, AtomsType, InputsAre
  <2> QED BY <2>1, <2>2, MessagesAre
<1>2. CASE m.role = "assistant"
  <2>1. ChatMessages(m) = Messages("assistant", TextAtoms(m) \o CallAtoms(m))
    BY <1>2 DEF ChatMessages
  <2> QED BY <1>2, <2>1, InputsAre, MessagesAre, ZenonT(40)
<1>3. CASE m.role = "tool"
  <2>1. ChatMessages(m) = <<[role |-> "tool", content |-> <<ResultAtom(m)>>]>>
    BY <1>3 DEF ChatMessages
  <2>2. <<ResultAtom(m)>> \in Seq(Atom) /\ ResponsesInputs(m) = <<ResultAtom(m)>>
    BY <1>3, AtomsType, InputsAre
  <2> QED BY <2>1, <2>2, MessagesAre
<1> QED BY <1>1, <1>2, <1>3 DEF Message

LEMMA EndsType ==
    ASSUME NEW b \in Bundle
    PROVE  /\ DigestAtoms(b) \in Seq(Atom) /\ TaskAtoms(b) \in Seq(Atom)
           /\ b.history \in Seq(Message) /\ Len(b.history) \in Nat
<1>1. b.history \in Seq(Message) /\ b.task \in Nat
  BY DEF Bundle
<1>2. DigestAtom \in Atom /\ TaskAtom(b) \in Atom
  BY <1>1 DEF DigestAtom, TaskAtom, Atom
<1> QED BY <1>1, <1>2 DEF DigestAtoms, TaskAtoms

\* f[i] is what the first i items of the history say.
Says(f, b) ==
    /\ f \in [0..Len(b.history) -> Seq(Atom)] /\ f[0] = <<>>
    /\ \A i \in 1..Len(b.history) : f[i] = f[i - 1] \o ResponsesInputs(b.history[i])
    /\ BuildResponsesRequest(b) = (DigestAtoms(b) \o f[Len(b.history)]) \o TaskAtoms(b)

LEMMA ResponsesSay == ASSUME NEW b \in Bundle PROVE \E f : Says(f, b)
<1>1. PICK N \in Nat : N = Len(b.history) /\ \A i \in 1..N : b.history[i] \in Message
  BY EndsType
<1>2. PICK ss : ss = [i \in 1..N |-> ResponsesInputs(b.history[i])]
  OBVIOUS
<1>3. ss \in Seq(Seq(Atom)) /\ Len(ss) = N
  <2>1. ASSUME NEW i \in 1..N PROVE ResponsesInputs(b.history[i]) \in Seq(Atom)
    BY <1>1, InputsAre
  <2> QED BY <1>2, <2>1
<1>4. \E f \in [0..Len(ss) -> Seq(Atom)] :
          /\ f[0] = <<>> /\ \A i \in 1..Len(ss) : f[i] = f[i - 1] \o ss[i]
          /\ FlattenSeq(ss) = f[Len(ss)]
  BY <1>3, FlattenIs, Zenon
<1>5. PICK f : /\ f \in [0..N -> Seq(Atom)] /\ f[0] = <<>> /\ \A i \in 1..N : f[i] = f[i - 1] \o ss[i]
               /\ FlattenSeq(ss) = f[N]
  BY <1>3, <1>4, Zenon
<1>6. \A i \in 1..N : f[i] = f[i - 1] \o ResponsesInputs(b.history[i])
  <2> TAKE i \in 1..N
  <2>1. ss[i] = ResponsesInputs(b.history[i])
    BY <1>2
  <2> QED BY <1>5, <2>1, Zenon
<1>7. BuildResponsesRequest(b) = (DigestAtoms(b) \o FlattenSeq(ss)) \o TaskAtoms(b)
  BY <1>1, <1>2 DEF BuildResponsesRequest
<1> QED BY <1>1, <1>5, <1>6, <1>7, Zenon DEF Says

\* Chat Completions say what Responses say.
LEMMA ChatSays ==
    ASSUME NEW b \in Bundle
    PROVE  Contents(BuildChatCompletionsRequest(b)) = BuildResponsesRequest(b)
<1>1. PICK N \in Nat : N = Len(b.history) /\ \A i \in 1..N : b.history[i] \in Message
  BY EndsType
<1>2. PICK ss : ss = [i \in 1..N |-> ChatMessages(b.history[i])]
  OBVIOUS
<1>3. ss \in Seq(Seq(WireMessage)) /\ Len(ss) = N
  <2>1. ASSUME NEW i \in 1..N PROVE ChatMessages(b.history[i]) \in Seq(WireMessage)
    BY <1>1, ChatSaysInputs
  <2> QED BY <1>2, <2>1
<1>4. \E g \in [0..Len(ss) -> Seq(WireMessage)] :
          /\ g[0] = <<>> /\ \A i \in 1..Len(ss) : g[i] = g[i - 1] \o ss[i]
          /\ FlattenSeq(ss) = g[Len(ss)]
  BY <1>3, FlattenIs, Zenon
<1>5. PICK g : /\ g \in [0..N -> Seq(WireMessage)] /\ g[0] = <<>> /\ \A i \in 1..N : g[i] = g[i - 1] \o ss[i]
               /\ FlattenSeq(ss) = g[N]
  BY <1>3, <1>4, Zenon
<1>6. PICK f : Says(f, b)
  BY ResponsesSay
<1>7. /\ f \in [0..N -> Seq(Atom)] /\ f[0] = <<>>
      /\ \A i \in 1..N : f[i] = f[i - 1] \o ResponsesInputs(b.history[i])
      /\ BuildResponsesRequest(b) = (DigestAtoms(b) \o f[N]) \o TaskAtoms(b)
  BY <1>1, <1>6, Zenon DEF Says
<1> DEFINE T == {i \in 0..N : Contents(g[i]) = f[i]}
<1>8. 0 \in T
  <2>1. Messages("user", <<>>) = <<>> /\ <<>> \in Seq(Atom)
    BY DEF Messages
  <2>2. Contents(<<>>) = <<>>
    BY <2>1, MessagesAre
  <2> QED BY <1>5, <1>7, <2>2
<1>9. ASSUME NEW i \in 1..N, i - 1 \in T PROVE i \in T
  <2>1. i - 1 \in 0..N /\ i \in 0..N /\ Contents(g[i - 1]) = f[i - 1]
    BY <1>9
  <2>2. g[i - 1] \in Seq(WireMessage) /\ ss[i] = ChatMessages(b.history[i]) /\ b.history[i] \in Message
    BY <1>1, <1>2, <1>5, <2>1
  <2>3. ss[i] \in Seq(WireMessage) /\ Contents(ss[i]) = ResponsesInputs(b.history[i])
    BY <2>2, ChatSaysInputs
  <2>4. Contents(g[i - 1] \o ss[i]) = f[i - 1] \o ResponsesInputs(b.history[i])
    BY <2>1, <2>2, <2>3, ContentsConcat, Zenon
  <2>5. Contents(g[i]) = f[i]
    BY <1>5, <1>7, <2>4, Zenon
  <2> QED BY <2>1, <2>5
<1>10. Contents(g[N]) = f[N]
  <2>1. N \in 0..N /\ \A i \in 0..N : i \in T
    <3> HIDE DEF T
    <3> QED BY <1>8, <1>9, Induct
  <2> QED BY <2>1
<1>11. PICK d, g2, t : d = Messages("user", DigestAtoms(b)) /\ g2 = g[N] /\ t = Messages("user", TaskAtoms(b))
  OBVIOUS
<1>12. /\ d \in Seq(WireMessage) /\ t \in Seq(WireMessage) /\ g2 \in Seq(WireMessage)
       /\ Contents(d) = DigestAtoms(b) /\ Contents(t) = TaskAtoms(b) /\ Contents(g2) = f[N]
  <2>1. N \in 0..N
    OBVIOUS
  <2>2. g2 \in Seq(WireMessage)
    BY <1>5, <1>11, <2>1
  <2>3. "user" \in {"user", "assistant", "tool"}
    OBVIOUS
  <2> QED BY <1>10, <1>11, <2>2, <2>3, EndsType, MessagesAre, Zenon
<1>13. BuildChatCompletionsRequest(b) = (d \o g2) \o t
  BY <1>1, <1>2, <1>5, <1>11 DEF BuildChatCompletionsRequest
<1>14. d \o g2 \in Seq(WireMessage) /\ Contents(d \o g2) = DigestAtoms(b) \o f[N]
  <2>1. Contents(d \o g2) = Contents(d) \o Contents(g2)
    BY <1>12, ContentsConcat, Zenon
  <2>2. d \o g2 \in Seq(WireMessage)
    BY <1>12, ConcatProperties, Zenon
  <2> QED BY <1>12, <2>1, <2>2, Zenon
<1>15. Contents((d \o g2) \o t) = (DigestAtoms(b) \o f[N]) \o TaskAtoms(b)
  BY <1>12, <1>14, ContentsConcat, Zenon
<1> QED BY <1>7, <1>13, <1>15, Zenon

Gathering == [out : Seq(WireMessage), user : Seq(Atom)]

LEMMA FlushIs ==
    ASSUME NEW s \in Gathering
    PROVE  /\ FlushUserContent(s).out = s.out \o Messages("user", s.user)
           /\ FlushUserContent(s).out \in Seq(WireMessage)
           /\ Contents(FlushUserContent(s).out) = Contents(s.out) \o s.user
<1>1. s.out \in Seq(WireMessage) /\ s.user \in Seq(Atom)
  BY DEF Gathering
<1>2. FlushUserContent(s).out = s.out \o Messages("user", s.user)
  BY DEF FlushUserContent
<1>3. PICK t \in Seq(WireMessage) : t = Messages("user", s.user) /\ Contents(t) = s.user
  BY <1>1, MessagesAre
<1>4. s.out \o t \in Seq(WireMessage) /\ Contents(s.out \o t) = Contents(s.out) \o s.user
  <2>1. PICK o \in Seq(WireMessage) : o = s.out
    BY <1>1
  <2>2. Contents(o \o t) = Contents(o) \o Contents(t) /\ o \o t \in Seq(WireMessage)
    BY ContentsConcat, ConcatProperties, Zenon
  <2> QED BY <1>3, <2>1, <2>2, Zenon
<1> QED BY <1>2, <1>3, <1>4, Zenon

\* What a step does, role by role.
LEMMA StepIs ==
    ASSUME NEW s \in Gathering, NEW m \in Message, NEW u, u = AnthropicStep(s, m)
    PROVE  /\ m.role \in {"user", "tool"} => u.out = s.out /\ u.user = s.user \o ResponsesInputs(m)
           /\ m.role = "assistant" =>
                 /\ u.user = <<>>
                 /\ u.out = FlushUserContent(s).out \o Messages("assistant", ResponsesInputs(m))
           /\ u \in Gathering
<1>1. s.out \in Seq(WireMessage) /\ s.user \in Seq(Atom) /\ ResponsesInputs(m) \in Seq(Atom)
  BY InputsAre DEF Gathering
<1>2. CASE m.role = "user"
  <2>1. u = [out |-> s.out, user |-> Append(s.user, TextAtom(m))]
    BY <1>2 DEF AnthropicStep
  <2>2. Append(s.user, TextAtom(m)) = s.user \o <<TextAtom(m)>> /\ Append(s.user, TextAtom(m)) \in Seq(Atom)
    BY <1>1, AtomsType, AppendIsConcat, AppendProperties
  <2>3. u.out = s.out /\ u.user = s.user \o ResponsesInputs(m)
    <3>1. u.out = s.out /\ u.user = Append(s.user, TextAtom(m))
      BY <2>1
    <3>2. ResponsesInputs(m) = <<TextAtom(m)>>
      BY <1>2, InputsAre
    <3> QED BY <2>2, <3>1, <3>2, Zenon
  <2>4. u \in Gathering
    BY <1>1, <2>1, <2>2 DEF Gathering
  <2> QED BY <1>2, <2>3, <2>4
<1>3. CASE m.role = "tool"
  <2>1. u = [out |-> s.out, user |-> Append(s.user, ResultAtom(m))]
    BY <1>3 DEF AnthropicStep
  <2>2. Append(s.user, ResultAtom(m)) = s.user \o <<ResultAtom(m)>> /\ Append(s.user, ResultAtom(m)) \in Seq(Atom)
    BY <1>1, <1>3, AtomsType, AppendIsConcat, AppendProperties
  <2>3. u.out = s.out /\ u.user = s.user \o ResponsesInputs(m)
    <3>1. u.out = s.out /\ u.user = Append(s.user, ResultAtom(m))
      BY <2>1
    <3>2. ResponsesInputs(m) = <<ResultAtom(m)>>
      BY <1>3, InputsAre
    <3> QED BY <2>2, <3>1, <3>2, Zenon
  <2>4. u \in Gathering
    BY <1>1, <2>1, <2>2 DEF Gathering
  <2> QED BY <1>3, <2>3, <2>4
<1>4. CASE m.role = "assistant"
  <2>1. u = [out |-> FlushUserContent(s).out \o Messages("assistant", TextAtoms(m) \o CallAtoms(m)), user |-> <<>>]
    BY <1>4 DEF AnthropicStep
  <2>2. ResponsesInputs(m) = TextAtoms(m) \o CallAtoms(m)
    BY <1>4, InputsAre
  <2>3. u.user = <<>> /\ u.out = FlushUserContent(s).out \o Messages("assistant", ResponsesInputs(m))
    BY <2>1, <2>2
  <2>4. FlushUserContent(s).out \in Seq(WireMessage) /\ Messages("assistant", ResponsesInputs(m)) \in Seq(WireMessage)
    BY <1>1, FlushIs, MessagesAre
  <2>5. u \in Gathering
    BY <2>1, <2>2, <2>4 DEF Gathering
  <2> QED BY <1>4, <2>3, <2>5
<1> QED BY <1>2, <1>3, <1>4 DEF Message

\* s[i] is what buildAnthropicMessages has after the first i items.
Gathers(s, b) ==
    /\ s \in [0..Len(b.history) -> Gathering] /\ s[0] = [out |-> <<>>, user |-> DigestAtoms(b)]
    /\ \A i \in 1..Len(b.history) : s[i] = AnthropicStep(s[i - 1], b.history[i])
    /\ AnthropicLoop(b) = s[Len(b.history)]

LEMMA AnthropicGathers == ASSUME NEW b \in Bundle PROVE \E s : Gathers(s, b)
<1>1. PICK N \in Nat : N = Len(b.history) /\ \A i \in 1..N : b.history[i] \in Message
  BY EndsType
<1>2. PICK start : start = [out |-> <<>>, user |-> DigestAtoms(b)]
  OBVIOUS
<1>3. start \in Gathering
  BY <1>2, EndsType DEF Gathering
<1>4. PICK next : next = [p \in Gathering \X (1..N) |-> AnthropicStep(p[1], b.history[p[2]])]
  OBVIOUS
<1>5. ASSUME NEW s \in Gathering, NEW i \in 1..N PROVE AnthropicStep(s, b.history[i]) \in Gathering
  BY <1>1, StepIs
<1>6. next \in [Gathering \X (1..N) -> Gathering]
  BY <1>4, <1>5
<1>7. PICK f : IsLoop(f, N, Gathering, start, next)
  BY <1>3, <1>6, Loop, Zenon
<1>8. f \in [0..N -> Gathering] /\ f[0] = start /\ \A i \in 1..N : f[i] = next[<<f[i - 1], i>>]
  BY <1>7 DEF IsLoop
<1>9. ASSUME NEW i \in 1..N PROVE f[i - 1] \in Gathering /\ f[i] = AnthropicStep(f[i - 1], b.history[i])
  <2>1. i - 1 \in 0..N
    OBVIOUS
  <2>2. f[i - 1] \in Gathering /\ <<f[i - 1], i>> \in Gathering \X (1..N)
    BY <1>8, <2>1
  <2>3. next[<<f[i - 1], i>>] = AnthropicStep(f[i - 1], b.history[i])
    BY <1>4, <2>2
  <2> QED BY <1>8, <2>2, <2>3, Zenon
<1> DEFINE Solves(c) == c = [i \in 0..N |-> IF i = 0 THEN start ELSE AnthropicStep(c[i - 1], b.history[i])]
<1>10. Solves(f)
  <2>1. PICK g : g = [i \in 0..N |-> IF i = 0 THEN start ELSE AnthropicStep(f[i - 1], b.history[i])]
    OBVIOUS
  <2>2. ASSUME NEW i \in 0..N PROVE f[i] = g[i]
    <3>1. CASE i = 0
      BY <1>8, <2>1, <3>1
    <3>2. CASE i # 0
      <4>1. i \in 1..N
        BY <3>2
      <4> QED BY <1>9, <2>1, <3>2, <4>1
    <3> QED BY <3>1, <3>2
  <2>3. f = g
    BY <1>8, <2>1, <2>2
  <2> QED BY <2>1, <2>3
<1>11. PICK c : Solves(c) /\ AnthropicLoop(b) = c[N]
  BY <1>1, <1>2, <1>10 DEF AnthropicLoop
<1>12. /\ c[0] = start /\ DOMAIN c = 0..N /\ c = [i \in 0..N |-> c[i]]
       /\ \A i \in 1..N : c[i] = AnthropicStep(c[i - 1], b.history[i])
  <2>1. 0 \in 0..N
    OBVIOUS
  <2>2. c[0] = start
    BY <1>11, <2>1
  <2>3. DOMAIN c = 0..N /\ c = [i \in 0..N |-> c[i]]
    BY <1>11
  <2>4. ASSUME NEW i \in 1..N PROVE c[i] = AnthropicStep(c[i - 1], b.history[i])
    <3>1. i \in 0..N /\ i # 0
      OBVIOUS
    <3> QED BY <1>11, <3>1
  <2> QED BY <2>2, <2>3, <2>4
<1> DEFINE T == {i \in 0..N : c[i] = f[i]}
<1>13. ASSUME NEW i \in 1..N, i - 1 \in T PROVE i \in T
  <2>1. c[i - 1] = f[i - 1] /\ i \in 0..N
    BY <1>13
  <2>2. c[i] = f[i]
    BY <1>9, <1>12, <2>1, Zenon
  <2> QED BY <2>1, <2>2
<1>14. c[N] = f[N]
  <2>1. 0 \in T /\ N \in 0..N
    BY <1>8, <1>12
  <2>2. \A i \in 0..N : i \in T
    <3> HIDE DEF T
    <3> QED BY <1>13, <2>1, Induct
  <2> QED BY <2>1, <2>2
<1>15. Gathers(f, b)
  BY <1>1, <1>2, <1>8, <1>9, <1>11, <1>14, Zenon DEF Gathers
<1> QED BY <1>15

LEMMA AtomsAssociate ==
    \A x, y, z \in Seq(Atom) : (x \o y) \o z = x \o (y \o z)
<1> TAKE x, y, z \in Seq(Atom)
<1> QED BY ConcatAssociative

\* And so do Anthropic's messages.
LEMMA AnthropicSays ==
    ASSUME NEW b \in Bundle
    PROVE  Contents(BuildAnthropicMessages(b)) = BuildResponsesRequest(b)
<1>1. PICK N \in Nat : N = Len(b.history) /\ \A i \in 1..N : b.history[i] \in Message
  BY EndsType
<1>2. PICK f : Says(f, b)
  BY ResponsesSay
<1>3. /\ f \in [0..N -> Seq(Atom)] /\ f[0] = <<>>
      /\ \A i \in 1..N : f[i] = f[i - 1] \o ResponsesInputs(b.history[i])
      /\ BuildResponsesRequest(b) = (DigestAtoms(b) \o f[N]) \o TaskAtoms(b)
  BY <1>1, <1>2, Zenon DEF Says
<1>4. PICK s : Gathers(s, b)
  BY AnthropicGathers
<1>5. /\ s \in [0..N -> Gathering] /\ s[0] = [out |-> <<>>, user |-> DigestAtoms(b)]
      /\ \A i \in 1..N : s[i] = AnthropicStep(s[i - 1], b.history[i])
      /\ AnthropicLoop(b) = s[N]
  BY <1>1, <1>4, Zenon DEF Gathers
<1>6. PICK d \in Seq(Atom) : d = DigestAtoms(b)
  BY EndsType
<1> DEFINE T == {i \in 0..N : Contents(s[i].out) \o s[i].user = d \o f[i]}
<1>7. ASSUME NEW i \in 0..N
      PROVE  /\ s[i] \in Gathering /\ f[i] \in Seq(Atom) /\ s[i].out \in Seq(WireMessage) /\ s[i].user \in Seq(Atom)
             /\ Contents(s[i].out) \in Seq(Atom)
  <2>1. s[i] \in Gathering /\ f[i] \in Seq(Atom)
    BY <1>3, <1>5
  <2>2. s[i].out \in Seq(WireMessage) /\ s[i].user \in Seq(Atom)
    BY <2>1 DEF Gathering
  <2>3. Contents(s[i].out) \in Seq(Atom)
    BY <2>2, ContentsConcat
  <2> QED BY <2>1, <2>2, <2>3
<1>8. 0 \in T
  <2>1. Messages("user", <<>>) = <<>> /\ <<>> \in Seq(Atom)
    BY DEF Messages
  <2>2. Contents(<<>>) = <<>>
    BY <2>1, MessagesAre
  <2>3. s[0].out = <<>> /\ s[0].user = d
    BY <1>5, <1>6
  <2>4. <<>> \o d = d /\ d \o <<>> = d
    BY ConcatEmptySeq
  <2>5. Contents(s[0].out) \o s[0].user = d \o f[0]
    BY <1>3, <2>2, <2>3, <2>4, Zenon
  <2> QED BY <2>5, 0 \in 0..N
<1>9. ASSUME NEW i \in 1..N, i - 1 \in T PROVE i \in T
  <2>1. i - 1 \in 0..N /\ i \in 0..N
    OBVIOUS
  <2>2. PICK x, y, z, u, v : /\ x = Contents(s[i - 1].out) /\ y = s[i - 1].user /\ z = ResponsesInputs(b.history[i])
                             /\ u = s[i] /\ v = f[i - 1]
    OBVIOUS
  <2>3. x \in Seq(Atom) /\ y \in Seq(Atom) /\ z \in Seq(Atom) /\ v \in Seq(Atom) /\ x \o y = d \o v
    BY <1>1, <1>7, <1>9, <2>1, <2>2, InputsAre
  <2>4. (x \o y) \o z = d \o (v \o z) /\ x \o (y \o z) = (x \o y) \o z
    <3>1. (d \o v) \o z = d \o (v \o z)
      BY <2>3, AtomsAssociate, Zenon
    <3>2. (x \o y) \o z = x \o (y \o z)
      BY <2>3, AtomsAssociate, ZenonT(40)
    <3> QED BY <2>3, <3>1, <3>2, Zenon
  <2>5. f[i] = v \o z
    BY <1>3, <2>2, Zenon
  <2>6. u = AnthropicStep(s[i - 1], b.history[i]) /\ b.history[i] \in Message /\ s[i - 1] \in Gathering
    BY <1>1, <1>5, <1>7, <2>1, <2>2, Zenon
  <2>7. CASE b.history[i].role \in {"user", "tool"}
    <3>1. u.out = s[i - 1].out /\ u.user = y \o z
      BY <2>2, <2>6, <2>7, StepIs, Zenon
    <3>2. Contents(u.out) \o u.user = d \o f[i]
      BY <2>2, <2>4, <2>5, <3>1, Zenon
    <3> QED BY <2>1, <2>2, <3>2
  <2>8. CASE b.history[i].role = "assistant"
    <3>1. PICK o, q : o = FlushUserContent(s[i - 1]).out /\ q = Messages("assistant", z)
      OBVIOUS
    <3>2. u.user = <<>> /\ u.out = o \o q
      BY <2>2, <2>6, <2>8, <3>1, StepIs, Zenon
    <3>3. o \in Seq(WireMessage) /\ Contents(o) = x \o y
      BY <2>2, <2>6, <3>1, FlushIs, Zenon
    <3>4. q \in Seq(WireMessage) /\ Contents(q) = z
      BY <2>3, <3>1, MessagesAre
    <3>5. Contents(o \o q) = (x \o y) \o z
      BY <3>3, <3>4, ContentsConcat, Zenon
    <3>6. Contents(o \o q) \in Seq(Atom)
      BY <2>3, <3>5
    <3>7. Contents(o \o q) \o <<>> = Contents(o \o q)
      BY <3>6, ConcatEmptySeq
    <3>8. Contents(u.out) \o u.user = d \o f[i]
      BY <2>4, <2>5, <3>2, <3>5, <3>7, Zenon
    <3> QED BY <2>1, <2>2, <3>8
  <2> QED BY <2>6, <2>7, <2>8 DEF Message
<1>10. Contents(s[N].out) \o s[N].user = d \o f[N]
  <2>1. N \in 0..N /\ \A i \in 0..N : i \in T
    <3> HIDE DEF T
    <3> QED BY <1>8, <1>9, Induct
  <2> QED BY <2>1
<1>11. PICK x, y, v, t : x = s[N].out /\ y = s[N].user /\ v = f[N] /\ t = TaskAtoms(b)
  OBVIOUS
<1>12. x \in Seq(WireMessage) /\ Contents(x) \in Seq(Atom) /\ y \in Seq(Atom) /\ v \in Seq(Atom) /\ t \in Seq(Atom)
  <2>1. N \in 0..N
    OBVIOUS
  <2> QED BY <1>7, <1>11, <2>1, EndsType
<1>13. PICK r : r = [out |-> x, user |-> y \o t]
  OBVIOUS
<1>14. r \in Gathering /\ r.out = x /\ r.user = y \o t
  BY <1>12, <1>13 DEF Gathering
<1>15. BuildAnthropicMessages(b) = FlushUserContent(r).out
  BY <1>5, <1>11, <1>13 DEF BuildAnthropicMessages
<1>16. Contents(FlushUserContent(r).out) = Contents(x) \o (y \o t)
  BY <1>14, FlushIs, Zenon
<1>17. Contents(x) \o (y \o t) = (Contents(x) \o y) \o t
  BY <1>12, AtomsAssociate, ZenonT(40)
<1> QED BY <1>3, <1>6, <1>10, <1>11, <1>15, <1>16, <1>17, Zenon

---------------------------------------------------------------------------
(* The places of a sequence that are in a set *)

\* p has the members of S up to i, in order.
Lists(p, S, i) ==
    /\ p \in Seq(Nat)
    /\ \A k \in 1..Len(p) : p[k] \in S /\ p[k] <= i
    /\ \A k, l \in 1..Len(p) : k < l => p[k] < p[l]
    /\ \A x \in S : x <= i => \E k \in 1..Len(p) : p[k] = x

LEMMA PlacesAre ==
    ASSUME NEW seq, NEW N \in Nat, Len(seq) = N, NEW S, S \subseteq 1..N
    PROVE  Lists(Places(seq, S), S, N)
<1>1. PICK ss : ss = [i \in 1..N |-> IF i \in S THEN <<i>> ELSE <<>>]
  OBVIOUS
<1>2. ss \in Seq(Seq(Nat)) /\ Len(ss) = N
  <2>1. ASSUME NEW i \in 1..N PROVE (IF i \in S THEN <<i>> ELSE <<>>) \in Seq(Nat)
    <3>1. i \in Nat
      OBVIOUS
    <3> QED BY <3>1
  <2> QED BY <1>1, <2>1
<1>3. \E f \in [0..Len(ss) -> Seq(Nat)] :
          /\ f[0] = <<>> /\ \A i \in 1..Len(ss) : f[i] = f[i - 1] \o ss[i]
          /\ FlattenSeq(ss) = f[Len(ss)]
  BY <1>2, FlattenIs, Zenon
<1>4. PICK f : /\ f \in [0..N -> Seq(Nat)] /\ f[0] = <<>> /\ \A i \in 1..N : f[i] = f[i - 1] \o ss[i]
               /\ FlattenSeq(ss) = f[N]
  BY <1>2, <1>3, Zenon
<1> DEFINE T == {i \in 0..N : Lists(f[i], S, i)}
<1>5. 0 \in T
  <2>1. 0 \in 0..N /\ Len(<<>>) = 0 /\ <<>> \in Seq(Nat) /\ \A x \in S : ~(x <= 0)
    OBVIOUS
  <2>2. Lists(<<>>, S, 0)
    BY <2>1 DEF Lists
  <2>3. Lists(f[0], S, 0)
    BY <1>4, <2>2, Zenon
  <2> QED BY <2>1, <2>3
<1>6. ASSUME NEW i \in 1..N, i - 1 \in T PROVE i \in T
  <2>1. i \in 0..N /\ i - 1 \in 0..N
    OBVIOUS
  <2>2. PICK q, r : q = f[i - 1] /\ r = f[i]
    OBVIOUS
  <2>3. q \in Seq(Nat) /\ Lists(q, S, i - 1) /\ r = q \o ss[i]
    BY <1>4, <1>6, <2>1, <2>2
  <2>4. PICK K \in Nat : K = Len(q)
    BY <2>3
  <2>5. /\ \A k \in 1..K : q[k] \in Nat /\ q[k] \in S /\ q[k] <= i - 1
        /\ \A k, l \in 1..K : k < l => q[k] < q[l]
        /\ \A x \in S : x <= i - 1 => \E k \in 1..K : q[k] = x
    BY <2>3, <2>4 DEF Lists
  <2>6. CASE i \in S
    <3>1. r \in Seq(Nat) /\ Len(r) = K + 1 /\ r[K + 1] = i /\ \A k \in 1..K : r[k] = q[k]
      <4>1. ss[i] = <<i>>
        BY <1>1, <2>6
      <4> QED BY <2>3, <2>4, <4>1
    <3>2. ASSUME NEW k \in 1..(K + 1) PROVE r[k] \in S /\ r[k] <= i
      <4>1. CASE k = K + 1
        BY <2>6, <3>1, <4>1
      <4>2. CASE k # K + 1
        BY <2>5, <3>1, <4>2, k \in 1..K
      <4> QED BY <4>1, <4>2
    <3>3. ASSUME NEW k \in 1..(K + 1), NEW l \in 1..(K + 1), k < l PROVE r[k] < r[l]
      <4>1. k \in 1..K /\ r[k] = q[k] /\ q[k] <= i - 1 /\ q[k] \in Nat
        BY <2>5, <3>1, <3>3
      <4>2. CASE l = K + 1
        BY <3>1, <4>1, <4>2
      <4>3. CASE l # K + 1
        BY <2>5, <3>1, <3>3, <4>1, <4>3, l \in 1..K
      <4> QED BY <4>2, <4>3
    <3>4. ASSUME NEW x \in S, x <= i PROVE \E k \in 1..(K + 1) : r[k] = x
      <4>1. CASE x = i
        BY <3>1, <4>1, K + 1 \in 1..(K + 1)
      <4>2. CASE x # i
        <5>1. x <= i - 1
          BY <3>4, <4>2, x \in 1..N
        <5>2. PICK k \in 1..K : q[k] = x
          BY <2>5, <5>1
        <5> QED BY <3>1, <5>2, k \in 1..(K + 1)
      <4> QED BY <4>1, <4>2
    <3>5. Lists(r, S, i)
      BY <3>1, <3>2, <3>3, <3>4 DEF Lists
    <3> QED BY <2>1, <2>2, <3>5
  <2>7. CASE i \notin S
    <3>1. ss[i] = <<>>
      BY <1>1, <2>7
    <3>2. r = q
      BY <2>3, <3>1, ConcatEmptySeq
    <3>3. \A x \in S : x <= i => x <= i - 1
      <4> TAKE x \in S
      <4> QED BY <2>7, x \in 1..N
    <3>4. ASSUME NEW k \in 1..K PROVE q[k] \in S /\ q[k] <= i
      BY <2>5
    <3>5. Lists(q, S, i)
      BY <2>3, <2>4, <2>5, <3>3, <3>4 DEF Lists
    <3> QED BY <2>1, <2>2, <3>2, <3>5
  <2> QED BY <2>6, <2>7
<1>7. Lists(f[N], S, N)
  <2>1. N \in 0..N
    OBVIOUS
  <2>2. \A i \in 0..N : i \in T
    <3> HIDE DEF T
    <3> QED BY <1>5, <1>6, Induct
  <2> QED BY <2>1, <2>2
<1>8. Places(seq, S) = FlattenSeq(ss)
  BY <1>1 DEF Places
<1> QED BY <1>4, <1>7, <1>8

\* Places after the d-th are further away one by one.
LEMMA PlacesApart ==
    ASSUME NEW p, NEW S, NEW N \in Nat, Lists(p, S, N), NEW d \in Nat, S \subseteq (d + 1)..N
    PROVE  \A k \in 1..Len(p) : p[k] >= d + k
<1>1. PICK K \in Nat : K = Len(p)
  BY DEF Lists
<1>2. /\ \A k \in 1..K : p[k] \in Nat /\ p[k] \in S
      /\ \A k, l \in 1..K : k < l => p[k] < p[l]
  BY <1>1 DEF Lists
<1> DEFINE T == {k \in 0..K : k = 0 \/ p[k] >= d + k}
<1>3. 0 \in T
  OBVIOUS
<1>4. ASSUME NEW k \in 1..K, k - 1 \in T PROVE k \in T
  <2>1. CASE k = 1
    BY <1>2, <2>1, p[k] \in (d + 1)..N
  <2>2. CASE k # 1
    <3>1. k - 1 \in 1..K /\ p[k - 1] >= d + (k - 1)
      BY <1>4, <2>2
    <3>2. p[k - 1] < p[k] /\ p[k] \in Nat /\ p[k - 1] \in Nat
      BY <1>2, <3>1
    <3>3. p[k] >= d + k
      BY <3>1, <3>2
    <3> QED BY <3>3, k \in 0..K
  <2> QED BY <2>1, <2>2
<1>5. \A k \in 0..K : k \in T
  <2> HIDE DEF T
  <2> QED BY <1>3, <1>4, Induct
<1> QED BY <1>1, <1>5

LEMMA ResponseIs ==
    ASSUME NEW parts \in Answers
    PROVE  /\ ConvertResponse(parts).text \in BOOLEAN /\ ConvertResponse(parts).calls \in Seq(STRING)
           /\ Len(ConvertResponse(parts).calls) <= ScanBack
<1>1. PICK N \in Nat : N = Len(parts) /\ \A i \in 1..N : parts[i] \in STRING
  BY ConversationAssumption
<1>2. PICK S : S = {i \in 1..Len(parts) : parts[i] # "text"}
  OBVIOUS
<1>3. PICK p : p = Places(parts, S)
  OBVIOUS
<1>4. Lists(p, S, N)
  BY <1>1, <1>2, <1>3, PlacesAre
<1>5. p \in Seq(Nat) /\ \A k \in 1..Len(p) : p[k] \in 1..N
  BY <1>1, <1>2, <1>4 DEF Lists
<1>6. ConvertResponse(parts) = [text |-> "text" \in ToSet(parts), calls |-> [k \in 1..Len(p) |-> parts[p[k]]]]
  BY <1>2, <1>3 DEF ConvertResponse
<1>7. [k \in 1..Len(p) |-> parts[p[k]]] \in Seq(STRING)
  <2>1. \A k \in 1..Len(p) : parts[p[k]] \in STRING
    BY <1>1, <1>5
  <2> QED BY <1>5, <2>1
<1>8. Len(ConvertResponse(parts).calls) <= ScanBack
  BY ConversationAssumption
<1> QED BY <1>6, <1>7, <1>8

---------------------------------------------------------------------------
(* Items and their numbers *)

LEMMA ItemIs ==
    ASSUME NEW k \in Nat, NEW role \in {"user", "assistant"}
    PROVE  /\ Item(k, role) \in Message /\ Item(k, role).n = k /\ Item(k, role).role = role
           /\ Item(k, role).calls = <<>> /\ Item(k, role).of = <<>>
<1>1. <<>> \in Seq(STRING) /\ Len(<<>>) = 0 /\ ScanBack \in Nat
  BY ConversationAssumption
<1> QED BY <1>1 DEF Item, Message

LEMMA CallItemIs ==
    ASSUME NEW k \in Nat, NEW cs \in Seq(STRING), NEW text \in BOOLEAN, cs # <<>>, Len(cs) <= ScanBack, NEW m, m = CallItem(k, cs, text)
    PROVE  m \in Message /\ m.n = k /\ m.role = "assistant" /\ m.calls = cs /\ m.of = <<>>
<1>1. m = [n |-> k, role |-> "assistant", text |-> text, calls |-> cs, of |-> <<>>]
  BY DEF CallItem, Item
<1> QED BY <1>1 DEF Message

LEMMA ResultItemIs ==
    ASSUME NEW k \in Nat, NEW id \in Nat \X Nat, NEW m, m = ResultItem(k, id)
    PROVE  m \in Message /\ m.n = k /\ m.role = "tool" /\ m.calls = <<>> /\ m.of = id
<1>1. m = [n |-> k, role |-> "tool", text |-> TRUE, calls |-> <<>>, of |-> id]
  BY DEF ResultItem, Item
<1>2. <<>> \in Seq(STRING) /\ Len(<<>>) = 0 /\ ScanBack \in Nat
  BY ConversationAssumption
<1>3. id # <<>>
  <2>1. PICK x, y : id = <<x, y>>
    OBVIOUS
  <2> QED BY <2>1
<1> QED BY <1>1, <1>2, <1>3 DEF Message

\* Items that follow the newest by number.
LEMMA KeptConcat ==
    ASSUME NEW h \in Seq(Message), NEW rs \in Seq(Message), NEW d \in Seq(Nat), NEW newest \in Nat, NEW gone \in Nat,
           Kept(h, d, newest, gone), \A i \in 1..Len(rs) : rs[i].n = newest + i
    PROVE  Kept(h \o rs, d, newest + Len(rs), gone)
<1>1. PICK H \in Nat, R \in Nat : H = Len(h) /\ R = Len(rs)
  OBVIOUS
<1>2. PICK g : g = h \o rs
  OBVIOUS
<1>3. Len(g) = H + R /\ (\A i \in 1..H : g[i] = h[i]) /\ (\A i \in (H + 1)..(H + R) : g[i] = rs[i - H])
  BY <1>1, <1>2
<1>4. /\ gone + H <= newest
      /\ \A i \in 1..H : h[i].n = newest - H + i
      /\ gone + H < newest => H >= Window
      /\ d = <<>> => gone + H = newest
      /\ DigestFits(d, newest - H, gone)
  BY <1>1 DEF Kept, Numbered
<1>5. ASSUME NEW i \in 1..(H + R) PROVE g[i].n = (newest + R) - (H + R) + i
  <2>1. CASE i <= H
    <3>1. i \in 1..H /\ (newest + R) - (H + R) + i = newest - H + i
      BY <2>1
    <3> QED BY <1>3, <1>4, <3>1, Zenon
  <2>2. CASE i > H
    <3>1. i \in (H + 1)..(H + R) /\ i - H \in 1..R
      BY <2>2
    <3>2. rs[i - H].n = newest + (i - H)
      BY <1>1, <3>1
    <3>3. g[i] = rs[i - H] /\ newest + (i - H) = (newest + R) - (H + R) + i
      BY <1>3, <3>1
    <3> QED BY <3>2, <3>3, Zenon
  <2> QED BY <2>1, <2>2
<1>6. (newest + R) - (H + R) = newest - H
  OBVIOUS
<1>7. Numbered(g, d, newest + R, gone)
  <2>1. Window \in Nat
    BY ConversationAssumption
  <2> QED BY <1>3, <1>4, <1>5, <2>1 DEF Numbered
<1>8. DigestFits(d, (newest + R) - Len(g), gone)
  BY <1>3, <1>4, <1>6
<1> QED BY <1>1, <1>2, <1>7, <1>8 DEF Kept

LEMMA KeptAppend ==
    ASSUME NEW h \in Seq(Message), NEW m \in Message, NEW d \in Seq(Nat), NEW newest \in Nat, NEW gone \in Nat,
           Kept(h, d, newest, gone), m.n = newest + 1
    PROVE  Kept(Append(h, m), d, newest + 1, gone)
<1>1. <<m>> \in Seq(Message) /\ Len(<<m>>) = 1 /\ \A i \in 1..Len(<<m>>) : <<m>>[i].n = newest + i
  OBVIOUS
<1>2. Append(h, m) = h \o <<m>>
  BY AppendIsConcat
<1>3. Kept(h \o <<m>>, d, newest + Len(<<m>>), gone)
  BY <1>1, KeptConcat
<1> QED BY <1>1, <1>2, <1>3

---------------------------------------------------------------------------
(* Compaction *)

\* No more than asked is taken away, and no result is the first that is kept.
LEMMA BoundaryIs ==
    ASSUME NEW h \in Seq(Message), NEW b \in 0..Len(h), NEW r, r = AdjustCompactionBoundary(h, b)
    PROVE  /\ r \in 0..b
           /\ Paired(h) /\ r < Len(h) /\ b > 0 => h[r + 1].role # "tool"
<1>1. PICK H \in Nat : H = Len(h) /\ \A i \in 1..H : h[i] \in Message
  OBVIOUS
<1>2. PICK callers : callers = {i \in 0..(b - 1) : i + ScanBack >= b /\ IsCall(h[i + 1])}
  OBVIOUS
<1>3. PICK c : c = Max(callers)
  OBVIOUS
<1>4. PICK plain : plain = {k \in 0..(c - 1) : k + ScanUser >= c /\ IsPlain(h[k + 1])}
  OBVIOUS
<1>5. PICK p : p = Max(plain)
  OBVIOUS
<1>6. \/ r = b /\ (b = 0 \/ b >= H \/ h[b + 1].role # "tool" \/ callers = {})
      \/ callers # {} /\ plain # {} /\ r = p + 1
      \/ callers # {} /\ r = c
  BY <1>1, <1>2, <1>3, <1>4, <1>5 DEF AdjustCompactionBoundary
<1>7. callers # {} => c \in 0..(b - 1) /\ IsCall(h[c + 1])
  <2> HAVE callers # {}
  <2>1. callers \subseteq 0..b /\ b \in Nat
    BY <1>1, <1>2
  <2>2. c \in callers
    BY <1>3, <2>1, MaxIs
  <2> QED BY <1>2, <2>2
<1>8. callers # {} /\ plain # {} => p \in 0..(c - 1) /\ IsPlain(h[p + 1])
  <2> HAVE callers # {} /\ plain # {}
  <2>1. c \in Nat /\ plain \subseteq 0..c
    BY <1>1, <1>4, <1>7
  <2>2. p \in plain
    BY <1>5, <2>1, MaxIs
  <2> QED BY <1>4, <2>2
<1>9. r \in 0..b
  BY <1>1, <1>6, <1>7, <1>8
<1>10. ASSUME Paired(h), r < H, b > 0 PROVE h[r + 1].role # "tool"
  <2>1. ASSUME NEW j \in 1..H, h[j].role = "tool" PROVE \E i \in 1..(j - 1) : ResultOf(h, i, j)
    BY <1>1, <1>10, <2>1 DEF Paired
  <2>2. CASE r = b /\ (b = 0 \/ b >= H \/ h[b + 1].role # "tool" \/ callers = {})
    <3> SUFFICES ASSUME h[b + 1].role = "tool" PROVE FALSE
      BY <2>2
    <3>1. callers = {} /\ b + 1 \in 1..H
      BY <1>1, <1>10, <2>2
    <3>2. PICK i \in 1..b : ResultOf(h, i, b + 1)
      BY <2>1, <3>1, (b + 1) - 1 = b
    <3>3. h[i] \in Message /\ i \in 1..H
      BY <1>1, <3>1
    <3>4. PICK q \in Nat : q >= (b + 1) - i /\ q <= Len(h[i].calls)
      <4>1. h[b + 1].of[2] \in ((b + 1) - i)..Len(h[i].calls)
        BY <3>2 DEF ResultOf
      <4>2. Len(h[i].calls) \in Nat
        BY <3>3 DEF Message
      <4> QED BY <4>1, <4>2
    <3>5. Len(h[i].calls) \in Nat /\ Len(h[i].calls) <= ScanBack /\ ScanBack \in Nat /\ (h[i].role # "assistant" => h[i].calls = <<>>)
      BY <3>3, ConversationAssumption, SMTT(40) DEF Message
    <3>6. Len(h[i].calls) >= 1
      BY <3>4, <3>5
    <3>7. h[i].calls # <<>>
      BY <3>6
    <3>8. IsCall(h[i])
      BY <3>5, <3>7 DEF IsCall
    <3>9. i - 1 \in 0..(b - 1) /\ (i - 1) + ScanBack >= b /\ (i - 1) + 1 = i
      BY <3>4, <3>5
    <3>10. i - 1 \in callers
      BY <1>2, <3>8, <3>9
    <3> QED BY <3>1, <3>10
  <2>3. CASE callers # {} /\ plain # {} /\ r = p + 1
    <3> SUFFICES ASSUME h[r + 1].role = "tool" PROVE FALSE
      OBVIOUS
    <3>1. r \in 1..H /\ r + 1 \in 1..H /\ IsPlain(h[r]) /\ h[r] \in Message
      BY <1>1, <1>7, <1>8, <1>10, <2>3
    <3>2. PICK i \in 1..r : ResultOf(h, i, r + 1)
      BY <2>1, <3>1, (r + 1) - 1 = r
    <3>3. h[r].role # "tool" /\ h[r].calls = <<>>
      BY <3>1 DEF IsPlain, Message
    <3>4. i = r
      <4>1. \A k \in (i + 1)..(r + 1) : h[k].role = "tool"
        BY <3>2 DEF ResultOf
      <4> QED BY <3>1, <3>3, <4>1
    <3>5. h[r + 1].of[2] \in ((r + 1) - r)..Len(h[r].calls)
      BY <3>2, <3>4 DEF ResultOf
    <3>6. Len(h[r].calls) = 0
      BY <3>3
    <3>7. ((r + 1) - r)..0 = {}
      BY <3>1
    <3> QED BY <3>5, <3>6, <3>7, Zenon
  <2>4. CASE callers # {} /\ r = c
    BY <1>7, <2>4 DEF IsCall
  <2> QED BY <1>6, <2>2, <2>3, <2>4
<1> QED BY <1>1, <1>9, <1>10

\* What is added to the digest: a bullet for each item, the last of them a remark when
\* there are too many.
Bullets(c, h, r) ==
    /\ c \in Seq(Nat) /\ Len(c) <= r /\ (r > 0 => Len(c) > 0)
    /\ \A i \in 1..Len(c) : c[i] = h[i].n \/ (c[i] = 0 /\ i >= 2 /\ i = Len(c))
    /\ Len(c) = r \/ c[Len(c)] = 0

LEMMA DigestIs ==
    ASSUME NEW h \in Seq(Message), NEW d \in Seq(Nat), NEW r \in 0..Len(h)
    PROVE  \E c : Bullets(c, h, r) /\ BuildHistoryDigest(d, SubSeq(h, 1, r)) = d \o c
<1>1. PICK H \in Nat : H = Len(h) /\ \A i \in 1..H : h[i] \in Message
  OBVIOUS
<1>2. PICK items : items = SubSeq(h, 1, r)
  OBVIOUS
<1>3. r \in Nat /\ Len(items) = r /\ \A i \in 1..r : items[i] = h[i] /\ h[i].n \in Nat
  <2>1. \A i \in 1..r : h[i] \in Message
    BY <1>1
  <2>2. r \in Int /\ r \in Nat
    BY <1>1
  <2>3. Len(items) = r /\ \A i \in 1..r : items[i] = h[i]
    BY <1>2, <2>1, <2>2, SubSeqProperties
  <2>4. \A i \in 1..r : h[i].n \in Nat
    BY <2>1 DEF Message
  <2> QED BY <2>2, <2>3, <2>4
<1>4. PICK bullets : bullets = [i \in 1..r |-> items[i].n]
  OBVIOUS
<1>5. bullets \in Seq(Nat) /\ Len(bullets) = r /\ \A i \in 1..r : bullets[i] = h[i].n
  BY <1>3, <1>4
<1>6. BuildHistoryDigest(d, items) = d \o (IF r > MaxBullets THEN Append(SubSeq(bullets, 1, MaxBullets - 1), 0) ELSE bullets)
  BY <1>3, <1>4 DEF BuildHistoryDigest
<1>7. CASE r <= MaxBullets
  <2>1. ~(r > MaxBullets)
    BY <1>3, <1>7, ConversationAssumption
  <2>2. Bullets(bullets, h, r)
    BY <1>3, <1>5 DEF Bullets
  <2> QED BY <1>2, <1>6, <2>1, <2>2
<1>8. CASE ~(r <= MaxBullets)
  <2>1. r > MaxBullets /\ MaxBullets \in Nat /\ MaxBullets >= 2
    BY <1>3, <1>8, ConversationAssumption
  <2>2. PICK s : s = SubSeq(bullets, 1, MaxBullets - 1)
    OBVIOUS
  <2>3. s \in Seq(Nat) /\ Len(s) = MaxBullets - 1 /\ \A i \in 1..(MaxBullets - 1) : s[i] = h[i].n
    <3>1. \A i \in 1..(MaxBullets - 1) : bullets[i] \in Nat /\ bullets[i] = h[i].n
      BY <1>3, <1>5, <2>1
    <3>2. /\ s \in Seq(Nat) /\ Len(s) = MaxBullets - 1
          /\ \A i \in 1..(MaxBullets - 1) : s[i] = bullets[i]
      BY <2>1, <2>2, <3>1, SubSeqProperties
    <3> QED BY <3>1, <3>2
  <2>4. PICK c : c = Append(s, 0)
    OBVIOUS
  <2>5. c \in Seq(Nat) /\ Len(c) = MaxBullets /\ c[MaxBullets] = 0 /\ \A i \in 1..(MaxBullets - 1) : c[i] = h[i].n
    BY <2>1, <2>3, <2>4
  <2>6. ASSUME NEW i \in 1..Len(c) PROVE c[i] = h[i].n \/ (c[i] = 0 /\ i >= 2 /\ i = Len(c))
    <3>1. i = MaxBullets \/ i \in 1..(MaxBullets - 1)
      BY <2>1, <2>5
    <3> QED BY <2>1, <2>5, <3>1
  <2>7. Bullets(c, h, r)
    BY <1>3, <2>1, <2>5, <2>6 DEF Bullets
  <2> QED BY <1>2, <1>6, <2>1, <2>2, <2>4, <2>7
<1> QED BY <1>7, <1>8

\* r items are taken away.
Cuts(h, d, r, g, e) ==
    /\ r \in 0..Len(h) /\ Len(h) - r >= Window
    /\ g \in Seq(Message) /\ Len(g) = Len(h) - r /\ \A i \in 1..(Len(h) - r) : g[i] = h[r + i]
    /\ e # <<>> /\ \E c : Bullets(c, h, r) /\ e = d \o c
    /\ Paired(h) /\ r < Len(h) => h[r + 1].role # "tool"

LEMMA CompactIs ==
    ASSUME NEW h \in Seq(Message), NEW d \in Seq(Nat)
    PROVE  \/ Compact(h, d).history = h /\ Compact(h, d).digest = d
           \/ \E r : Cuts(h, d, r, Compact(h, d).history, Compact(h, d).digest)
<1>1. PICK H \in Nat : H = Len(h) /\ \A i \in 1..H : h[i] \in Message
  OBVIOUS
<1>2. PICK r : r = AdjustCompactionBoundary(h, H - Window)
  OBVIOUS
<1>3. PICK e : e = BuildHistoryDigest(d, SubSeq(h, 1, r))
  OBVIOUS
<1>4. Compact(h, d) = IF H <= Window \/ H <= 1 \/ e = <<>> THEN [history |-> h, digest |-> d]
                      ELSE [history |-> SubSeq(h, r + 1, H), digest |-> e]
  BY <1>1, <1>2, <1>3 DEF Compact
<1>5. CASE H <= Window \/ H <= 1 \/ e = <<>>
  BY <1>4, <1>5
<1>6. CASE ~(H <= Window \/ H <= 1 \/ e = <<>>)
  <2>1. PICK g : g = SubSeq(h, r + 1, H)
    OBVIOUS
  <2>2. Compact(h, d).history = g /\ Compact(h, d).digest = e
    <3>1. Compact(h, d) = [history |-> g, digest |-> e]
      BY <1>4, <1>6, <2>1, Zenon
    <3> QED BY <3>1
  <2>3. Window \in Nat /\ H - Window \in 0..Len(h) /\ H - Window > 0
    BY <1>1, <1>6, ConversationAssumption
  <2>4. r \in 0..(H - Window) /\ (Paired(h) /\ r < Len(h) => h[r + 1].role # "tool")
    BY <1>2, <2>3, BoundaryIs
  <2>5. r \in 0..H /\ H - r >= Window
    BY <2>3, <2>4
  <2>6. g \in Seq(Message) /\ Len(g) = H - r /\ \A i \in 1..(H - r) : g[i] = h[r + i]
    <3>1. r + 1 \in Int /\ H \in Int /\ \A i \in (r + 1)..H : h[i] \in Message
      BY <1>1, <2>5
    <3>2. /\ g \in Seq(Message) /\ Len(g) = IF r + 1 <= H THEN H - (r + 1) + 1 ELSE 0
          /\ \A i \in 1..(H - (r + 1) + 1) : g[i] = h[(r + 1) + i - 1]
      BY <2>1, <3>1, SubSeqProperties
    <3>3. Len(g) = H - r /\ H - (r + 1) + 1 = H - r /\ \A i \in 1..(H - r) : (r + 1) + i - 1 = r + i
      BY <2>5, <3>2
    <3> QED BY <3>2, <3>3
  <2>7. \E c : Bullets(c, h, r) /\ e = d \o c
    BY <1>1, <1>3, <2>5, DigestIs
  <2>8. Cuts(h, d, r, g, e)
    BY <1>1, <1>6, <2>4, <2>5, <2>6, <2>7 DEF Cuts
  <2> QED BY <2>2, <2>8, Zenon
<1> QED BY <1>5, <1>6

LEMMA KeptCut ==
    ASSUME NEW h \in Seq(Message), NEW d \in Seq(Nat), NEW newest \in Nat, NEW gone \in Nat,
           Kept(h, d, newest, gone), NEW r, NEW g, NEW e, Cuts(h, d, r, g, e)
    PROVE  Kept(g, e, newest, gone) /\ e \in Seq(Nat)
<1>1. PICK H \in Nat, D \in Nat : H = Len(h) /\ D = Len(d)
  OBVIOUS
<1>2. PICK c : Bullets(c, h, r) /\ e = d \o c
  BY DEF Cuts
<1>3. PICK C \in Nat : C = Len(c)
  BY <1>2 DEF Bullets
<1>4. /\ r \in 0..H /\ H - r >= Window /\ Len(g) = H - r /\ e # <<>>
      /\ \A i \in 1..(H - r) : g[i] = h[r + i]
  BY <1>1 DEF Cuts
<1>5. PICK last \in Nat : last = newest - H
  <2>1. gone + H <= newest
    BY <1>1 DEF Kept, Numbered
  <2>2. newest - H \in Nat
    BY <2>1
  <2> QED BY <2>2
<1>6. /\ gone + H <= newest
      /\ \A i \in 1..H : h[i].n = last + i
      /\ d = <<>> => gone = last
      /\ D = 0 => d = <<>>
  BY <1>1, <1>5 DEF Kept, Numbered
<1>7. /\ c \in Seq(Nat) /\ C <= r /\ (r > 0 => C > 0)
      /\ \A i \in 1..C : c[i] = last + i \/ (c[i] = 0 /\ i >= 2 /\ i = C)
      /\ C = r \/ c[C] = 0
  <2>1. \A i \in 1..C : i \in 1..H
    BY <1>1, <1>2, <1>3, <1>4 DEF Bullets
  <2> QED BY <1>2, <1>3, <1>6, <2>1 DEF Bullets
<1>8. /\ e \in Seq(Nat) /\ Len(e) = D + C
      /\ \A i \in 1..D : e[i] = d[i]
      /\ \A i \in 1..C : e[D + i] = c[i]
  BY <1>1, <1>2, <1>3, <1>7
<1>9. Numbered(g, e, newest, gone)
  <2>1. \A i \in 1..(H - r) : g[i].n = newest - (H - r) + i
    <3> TAKE i \in 1..(H - r)
    <3>1. r + i \in 1..H
      BY <1>4
    <3>2. h[r + i].n = last + (r + i)
      BY <1>6, <3>1
    <3>3. last + (r + i) = newest - (H - r) + i
      BY <1>4, <1>5
    <3> QED BY <1>4, <3>2, <3>3, Zenon
  <2>2. gone + (H - r) <= newest
    BY <1>4, <1>6
  <2> QED BY <1>4, <2>1, <2>2, Zenon DEF Numbered
<1>10. /\ \A i \in 1..D :
             /\ d[i] \in Nat
             /\ d[i] = 0 => i > 1 /\ d[i - 1] # 0
             /\ d[i] # 0 =>
                   /\ d[i] <= last
                   /\ i = 1 => d[i] = gone + 1
                   /\ i > 1 => d[i] = d[i - 1] + 1 \/ (d[i - 1] = 0 /\ i > 2 /\ d[i] > d[i - 2])
       /\ D > 0 => d[D] \in {0, last}
  <2>1. D > 0 => d # <<>>
    BY <1>1
  <2>2. \A i \in 1..D : d[i] \in Nat
    BY <1>1
  <2>3. DigestFits(d, last, gone)
    BY <1>1, <1>5 DEF Kept
  <2> QED BY <1>1, <2>1, <2>2, <2>3 DEF DigestFits
<1>11. PICK next \in Nat : next = last + r /\ next = newest - Len(g)
  <2>1. r \in Nat /\ last + r \in Nat
    BY <1>4
  <2>2. last + r = newest - Len(g)
    BY <1>4, <1>5, <2>1
  <2> QED BY <2>1, <2>2
<1>12. ASSUME NEW i \in 1..(D + C)
       PROVE  /\ e[i] = 0 => i > 1 /\ e[i - 1] # 0
              /\ e[i] # 0 =>
                    /\ e[i] <= next
                    /\ i = 1 => e[i] = gone + 1
                    /\ i > 1 => e[i] = e[i - 1] + 1 \/ (e[i - 1] = 0 /\ i > 2 /\ e[i] > e[i - 2])
  <2>1. CASE i <= D
    <3>1. i \in 1..D /\ e[i] = d[i]
      BY <1>8, <2>1
    <3>2. i > 1 => i - 1 \in 1..D /\ e[i - 1] = d[i - 1]
      BY <1>8, <3>1
    <3>3. i > 2 => i - 2 \in 1..D /\ e[i - 2] = d[i - 2]
      BY <1>8, <3>1
    <3>4. last <= next
      BY <1>4, <1>11
    <3>5. d[i] \in Nat /\ (d[i] # 0 => d[i] <= next)
      BY <1>10, <3>1, <3>4
    <3> QED BY <1>10, <3>1, <3>2, <3>3, <3>5
  <2>2. CASE i > D
    <3>1. PICK k \in 1..C : i = D + k
      <4>1. i - D \in 1..C /\ i = D + (i - D)
        BY <2>2
      <4> QED BY <4>1
    <3>2. e[i] = c[k]
      BY <1>8, <3>1
    <3>3. CASE k > 1
      <4>1. k - 1 \in 1..C /\ e[D + (k - 1)] = c[k - 1] /\ D + (k - 1) = i - 1
        BY <1>8, <3>1, <3>3
      <4>2. c[k - 1] = last + (k - 1)
        BY <1>7, <4>1
      <4>3. c[k] = last + k \/ c[k] = 0
        BY <1>7
      <4>4. last + k <= next /\ i > 1 /\ i # 1
        <5>1. k <= r /\ r \in Nat
          BY <1>4, <1>7
        <5> QED BY <1>11, <3>1, <3>3, <5>1
      <4>5. e[i - 1] = last + (k - 1) /\ last + (k - 1) # 0 /\ last + k = (last + (k - 1)) + 1
        BY <3>3, <4>1, <4>2
      <4>6. e[i] # 0 => e[i] = last + k
        BY <3>2, <4>3
      <4> QED BY <4>4, <4>5, <4>6
    <3>4. CASE k = 1
      <4>1. c[1] = last + 1 /\ last + 1 <= next
        BY <1>4, <1>7, <1>11, <3>4, SMTT(40)
      <4>2. e[i] = last + 1 /\ i = D + 1
        BY <3>1, <3>2, <3>4, <4>1
      <4>3. CASE D = 0
        BY <1>6, <4>1, <4>2, <4>3
      <4>4. CASE D > 0
        <5>1. D \in 1..D /\ e[i - 1] = d[D] /\ i - 1 = D /\ i > 1
          BY <1>8, <4>2, <4>4
        <5>2. CASE d[D] = 0
          <6>1. D > 1 /\ D - 1 \in 1..D /\ d[D - 1] # 0
            BY <1>10, <5>1, <5>2
          <6>2. d[D - 1] <= last /\ d[D - 1] \in Nat
            BY <1>10, <6>1
          <6>3. e[D - 1] = d[D - 1] /\ i - 2 = D - 1
            BY <1>8, <4>2, <6>1
          <6> QED BY <4>1, <4>2, <5>1, <5>2, <6>1, <6>2, <6>3, SMTT(40)
        <5>3. CASE d[D] = last
          BY <4>1, <4>2, <5>1, <5>3
        <5> QED BY <1>10, <4>4, <5>2, <5>3
      <4> QED BY <4>3, <4>4
    <3> QED BY <3>3, <3>4
  <2> QED BY <2>1, <2>2
<1>13. D + C > 0 /\ e[D + C] \in {0, next}
  <2>1. D + C > 0
    <3> SUFFICES ASSUME Len(e) = 0 PROVE FALSE
      BY <1>8
    <3> QED BY <1>4, <1>8
  <2>2. CASE C = 0
    <3>1. r = 0 /\ next = last /\ D \in 1..D /\ D + C = D
      BY <1>4, <1>7, <1>11, <2>1, <2>2
    <3> QED BY <1>8, <1>10, <3>1
  <2>3. CASE C > 0
    <3>1. C \in 1..C /\ e[D + C] = c[C]
      BY <1>8, <2>3
    <3> QED BY <1>7, <1>11, <3>1
  <2> QED BY <2>2, <2>3
<1>14. DigestFits(e, next, gone)
  BY <1>8, <1>12, <1>13, Zenon DEF DigestFits
<1> QED BY <1>8, <1>9, <1>11, <1>14 DEF Kept

---------------------------------------------------------------------------
(* Calls and their results *)

\* g starts with h.
Extends(g, h) == Len(g) >= Len(h) /\ \A i \in 1..Len(h) : g[i] = h[i]

LEMMA ConcatExtends ==
    ASSUME NEW A, NEW h \in Seq(A), NEW s \in Seq(A)
    PROVE  /\ Extends(h \o s, h) /\ h \o s \in Seq(A) /\ Len(h \o s) = Len(h) + Len(s)
           /\ \A k \in 1..Len(s) : (h \o s)[Len(h) + k] = s[k]
BY DEF Extends

LEMMA AppendExtends ==
    ASSUME NEW A, NEW h \in Seq(A), NEW m \in A
    PROVE  /\ Extends(Append(h, m), h) /\ Append(h, m) \in Seq(A) /\ Len(Append(h, m)) = Len(h) + 1
           /\ Append(h, m)[Len(h) + 1] = m /\ Len(h) \in Nat
BY DEF Extends

LEMMA ResultExtends ==
    ASSUME NEW h \in Seq(Message), NEW g \in Seq(Message), Extends(g, h), NEW j \in 1..Len(h), NEW i \in 1..(j - 1),
           ResultOf(h, i, j)
    PROVE  ResultOf(g, i, j)
<1>1. PICK H \in Nat : H = Len(h)
  OBVIOUS
<1>2. \A k \in i..j : g[k] = h[k]
  BY <1>1 DEF Extends
<1>3. i \in i..j /\ j \in i..j /\ (i + 1)..j \subseteq i..j /\ (i + 1)..(j - 1) \subseteq i..j
  BY <1>1
<1>4. g[i] = h[i] /\ g[j] = h[j]
  BY <1>2, <1>3
<1>5. g[j].of[1] = g[i].n /\ g[j].of[2] \in (j - i)..Len(g[i].calls)
  BY <1>4 DEF ResultOf
<1>6. \A k \in (i + 1)..j : g[k].role = "tool"
  BY <1>2, <1>3 DEF ResultOf
<1>7. \A k \in (i + 1)..(j - 1) : g[k].of[2] < g[j].of[2]
  BY <1>2, <1>3, <1>4 DEF ResultOf
<1> QED BY <1>5, <1>6, <1>7 DEF ResultOf

\* A user or the assistant speaks.
LEMMA PairedOther ==
    ASSUME NEW h \in Seq(Message), Paired(h), NEW m \in Message, m.role # "tool"
    PROVE  Paired(Append(h, m))
<1>1. PICK g \in Seq(Message) : g = Append(h, m)
  BY AppendExtends
<1>2. Extends(g, h) /\ Len(g) = Len(h) + 1 /\ g[Len(h) + 1] = m /\ Len(h) \in Nat
  BY <1>1, AppendExtends
<1>3. ASSUME NEW j \in 1..Len(g), g[j].role = "tool" PROVE \E i \in 1..(j - 1) : ResultOf(g, i, j)
  <2>1. j \in 1..Len(h) /\ h[j].role = "tool"
    BY <1>2, <1>3 DEF Extends
  <2>2. PICK i \in 1..(j - 1) : ResultOf(h, i, j)
    BY <2>1 DEF Paired
  <2> QED BY <1>2, <2>1, <2>2, ResultExtends
<1> QED BY <1>1, <1>3 DEF Paired

\* Results of calls of the last item that calls, further and further among its calls.
LEMMA PairedResults ==
    ASSUME NEW h \in Seq(Message), Paired(h), NEW i, Answering(h, i), NEW rs \in Seq(Message),
           \A k \in 1..Len(rs) :
              /\ rs[k].role = "tool" /\ rs[k].of[1] = h[i].n
              /\ rs[k].of[2] \in (Len(h) - i + k)..Len(h[i].calls),
           \A k, l \in 1..Len(rs) : k < l => rs[k].of[2] < rs[l].of[2]
    PROVE  Paired(h \o rs)
<1>1. PICK H \in Nat, R \in Nat : H = Len(h) /\ R = Len(rs)
  OBVIOUS
<1>2. PICK g \in Seq(Message) : g = h \o rs
  BY ConcatExtends
<1>3. Extends(g, h) /\ Len(g) = H + R /\ (\A k \in 1..R : g[H + k] = rs[k]) /\ (\A k \in 1..H : g[k] = h[k])
  BY <1>1, <1>2, ConcatExtends DEF Extends
<1>4. /\ i \in 1..H
      /\ \A k \in 1..(H - i) : h[i + k].role = "tool" /\ h[i + k].of = <<h[i].n, k>>
  BY <1>1 DEF Answering
<1>5. ASSUME NEW j \in 1..(H + R), g[j].role = "tool" PROVE \E x \in 1..(j - 1) : ResultOf(g, x, j)
  <2>1. CASE j <= H
    <3>1. j \in 1..Len(h) /\ h[j].role = "tool"
      BY <1>1, <1>3, <1>5, <2>1
    <3>2. PICK x \in 1..(j - 1) : ResultOf(h, x, j)
      BY <3>1 DEF Paired
    <3> QED BY <1>3, <3>1, <3>2, ResultExtends
  <2>2. CASE j > H
    <3>1. PICK l \in 1..R : j = H + l
      <4>1. j - H \in 1..R /\ j = H + (j - H)
        BY <2>2
      <4> QED BY <4>1
    <3>2. i \in 1..(j - 1) /\ g[j] = rs[l] /\ g[i] = h[i] /\ H - i + l = j - i
      BY <1>3, <1>4, <3>1
    <3>3. g[j].of[1] = g[i].n /\ g[j].of[2] \in (j - i)..Len(g[i].calls)
      BY <1>1, <3>2
    <3>4. ASSUME NEW k \in (i + 1)..j PROVE g[k].role = "tool" /\ (k < j => g[k].of[2] < g[j].of[2])
      <4>1. CASE k <= H
        <5>1. k - i \in 1..(H - i) /\ i + (k - i) = k /\ k \in 1..H
          BY <1>4, <4>1
        <5>2. h[k].role = "tool" /\ h[k].of = <<h[i].n, k - i>>
          BY <1>4, <5>1
        <5>3. g[k].role = "tool" /\ g[k].of[2] = k - i
          BY <1>3, <5>1, <5>2
        <5>4. g[j].of[2] >= j - i /\ g[j].of[2] \in Int
          <6>1. Len(h[i].calls) \in Nat
            BY <1>1, <1>4, SMTT(40) DEF Message
          <6> QED BY <1>4, <3>2, <3>3, <6>1
        <5> QED BY <1>4, <3>1, <4>1, <5>3, <5>4
      <4>2. CASE k > H
        <5>1. PICK q \in 1..R : k = H + q
          <6>1. k - H \in 1..R /\ k = H + (k - H)
            BY <1>4, <3>1, <4>2
          <6> QED BY <6>1
        <5>2. g[k] = rs[q] /\ (k < j => q < l)
          BY <1>3, <3>1, <5>1
        <5> QED BY <1>1, <3>2, <5>2
      <4> QED BY <1>4, <4>1, <4>2
    <3>5. ResultOf(g, i, j)
      <4>1. (i + 1)..(j - 1) \subseteq (i + 1)..j /\ (\A k \in (i + 1)..(j - 1) : k < j)
        BY <1>4
      <4> QED BY <3>3, <3>4, <4>1 DEF ResultOf
    <3> QED BY <3>2, <3>5
  <2> QED BY <2>1, <2>2
<1> QED BY <1>2, <1>3, <1>5 DEF Paired

LEMMA PairedCut ==
    ASSUME NEW h \in Seq(Message), Paired(h), NEW d, NEW r, NEW g, NEW e, Cuts(h, d, r, g, e)
    PROVE  Paired(g)
<1>1. PICK H \in Nat : H = Len(h)
  OBVIOUS
<1>2. /\ r \in 0..H /\ Len(g) = H - r /\ \A i \in 1..(H - r) : g[i] = h[r + i]
      /\ r < H => h[r + 1].role # "tool"
  BY <1>1 DEF Cuts
<1>3. ASSUME NEW j \in 1..(H - r), g[j].role = "tool" PROVE \E i \in 1..(j - 1) : ResultOf(g, i, j)
  <2>1. r + j \in 1..H /\ h[r + j].role = "tool" /\ r < H /\ r \in Nat
    BY <1>2, <1>3
  <2>2. PICK x \in 1..((r + j) - 1) : ResultOf(h, x, r + j)
    BY <1>1, <2>1 DEF Paired
  <2>3. x > r
    <3>1. \A k \in (x + 1)..(r + j) : h[k].role = "tool"
      BY <2>2 DEF ResultOf
    <3>2. x <= r => r + 1 \in (x + 1)..(r + j)
      BY <2>1
    <3> QED BY <1>2, <2>1, <3>1, <3>2
  <2>4. PICK i \in 1..(j - 1) : x = r + i
    <3>1. x - r \in 1..(j - 1) /\ x = r + (x - r)
      BY <2>1, <2>3
    <3> QED BY <3>1
  <2>5. \A k \in i..j : g[k] = h[r + k]
    BY <1>2
  <2>6. i \in i..j /\ j \in i..j /\ (r + j) - x = j - i
    BY <2>1, <2>4
  <2>7. g[i] = h[x] /\ g[j] = h[r + j]
    BY <2>4, <2>5, <2>6
  <2>8. g[j].of[1] = g[i].n /\ g[j].of[2] \in (j - i)..Len(g[i].calls)
    BY <2>2, <2>6, <2>7 DEF ResultOf
  <2>9. ASSUME NEW k \in (i + 1)..j PROVE g[k].role = "tool"
    <3>1. k \in i..j /\ r + k \in (x + 1)..(r + j)
      BY <2>1, <2>4
    <3> QED BY <2>2, <2>5, <3>1 DEF ResultOf
  <2>10. ASSUME NEW k \in (i + 1)..(j - 1) PROVE g[k].of[2] < g[j].of[2]
    <3>1. k \in i..j /\ r + k \in (x + 1)..((r + j) - 1)
      BY <2>1, <2>4
    <3> QED BY <2>2, <2>5, <2>7, <3>1 DEF ResultOf
  <2> QED BY <2>8, <2>9, <2>10 DEF ResultOf
<1> QED BY <1>2, <1>3 DEF Paired

HasId(left, id) == \E k \in 1..Len(left) : left[k].id = id

\* Items are appended and calls run or are given up: whoever was given up or was left has
\* a result or is given up or left, and the new calls are left.
LEMMA AnsweredExtends ==
    ASSUME NEW h \in Seq(Message), NEW g \in Seq(Message), Extends(g, h), NEW given, NEW left, Answered(h, given, left),
           NEW given2, NEW left2,
           \A id \in Nat \X Nat : id \in given \/ HasId(left, id) =>
              \/ id \in given2 \/ HasId(left2, id)
              \/ \E j \in (Len(h) + 1)..Len(g) : g[j].of = id,
           \A j \in (Len(h) + 1)..Len(g) : \A q \in 1..Len(g[j].calls) : HasId(left2, <<g[j].n, q>>)
    PROVE  Answered(g, given2, left2)
<1>1. PICK H \in Nat, G \in Nat : H = Len(h) /\ G = Len(g) /\ H <= G /\ \A i \in 1..H : g[i] = h[i]
  BY DEF Extends
<1>2. ASSUME NEW i \in 1..G, NEW q \in 1..Len(g[i].calls)
      PROVE  \/ <<g[i].n, q>> \in given2
             \/ \E j \in (i + 1)..G : g[j].of = <<g[i].n, q>>
             \/ HasId(left2, <<g[i].n, q>>)
  <2>1. CASE i > H
    <3>1. i \in (H + 1)..G
      BY <2>1
    <3> QED BY <1>1, <3>1
  <2>2. CASE i <= H
    <3>1. i \in 1..H /\ g[i] = h[i] /\ g[i] \in Message
      BY <1>1, <2>2
    <3>2. PICK id : id = <<g[i].n, q>>
      OBVIOUS
    <3>3. id \in Nat \X Nat
      <4>1. g[i].n \in Nat /\ Len(g[i].calls) \in Nat
        BY <3>1, SMTT(40) DEF Message
      <4>2. q \in Nat
        BY <4>1
      <4> QED BY <3>2, <4>1, <4>2
    <3>4. id \in given \/ (\E j \in (i + 1)..H : h[j].of = id) \/ HasId(left, id)
      <4>1. q \in 1..Len(h[i].calls) /\ id = <<h[i].n, q>>
        BY <3>1, <3>2
      <4> QED BY <1>1, <3>1, <4>1, ZenonT(40) DEF Answered, HasId
    <3>5. CASE \E j \in (i + 1)..H : h[j].of = id
      <4>1. PICK j \in (i + 1)..H : h[j].of = id
        BY <3>5
      <4>2. j \in (i + 1)..G /\ g[j] = h[j]
        BY <1>1, <3>1
      <4> QED BY <3>2, <4>1, <4>2
    <3>6. CASE id \in given \/ HasId(left, id)
      <4>1. id \in given2 \/ HasId(left2, id) \/ \E j \in (H + 1)..G : g[j].of = id
        BY <1>1, <3>3, <3>6
      <4>2. (H + 1)..G \subseteq (i + 1)..G
        BY <3>1
      <4> QED BY <3>2, <4>1, <4>2
    <3> QED BY <3>4, <3>5, <3>6
  <2> QED BY <1>1, <2>1, <2>2
<1> QED BY <1>1, <1>2 DEF Answered, HasId

LEMMA AnsweredCut ==
    ASSUME NEW h \in Seq(Message), NEW given, NEW left, Answered(h, given, left),
           NEW d, NEW r, NEW g, NEW e, Cuts(h, d, r, g, e)
    PROVE  Answered(g, given, left)
<1>1. PICK H \in Nat : H = Len(h)
  OBVIOUS
<1>2. r \in 0..H /\ Len(g) = H - r /\ \A i \in 1..(H - r) : g[i] = h[r + i]
  BY <1>1 DEF Cuts
<1>3. ASSUME NEW i \in 1..(H - r), NEW q \in 1..Len(g[i].calls)
      PROVE  \/ <<g[i].n, q>> \in given
             \/ \E j \in (i + 1)..(H - r) : g[j].of = <<g[i].n, q>>
             \/ HasId(left, <<g[i].n, q>>)
  <2>1. r + i \in 1..H /\ g[i] = h[r + i]
    BY <1>2
  <2>2. PICK id : id = <<g[i].n, q>>
    OBVIOUS
  <2>3. id \in given \/ (\E j \in ((r + i) + 1)..H : h[j].of = id) \/ HasId(left, id)
    BY <1>1, <2>1, <2>2 DEF Answered, HasId
  <2>4. ASSUME NEW x \in ((r + i) + 1)..H, h[x].of = id PROVE \E j \in (i + 1)..(H - r) : g[j].of = id
    <3>1. x - r \in (i + 1)..(H - r) /\ x - r \in 1..(H - r) /\ r + (x - r) = x
      BY <1>2
    <3>2. g[x - r] = h[x]
      BY <1>2, <3>1
    <3> QED BY <2>4, <3>1, <3>2
  <2> QED BY <2>2, <2>3, <2>4
<1> QED BY <1>2, <1>3 DEF Answered, HasId

---------------------------------------------------------------------------
(* Turns *)

LEMMA TurnsAppend ==
    ASSUME NEW h \in Seq(Message), NEW d, TakesTurns(h, d), NEW m \in Message,
           m.role = "user" \/ EndsWithUser(h) \/ (h = <<>> /\ d # <<>>) \/ (m.role = "tool" /\ h # <<>>)
    PROVE  TakesTurns(Append(h, m), d) /\ (m.role # "assistant" => EndsWithUser(Append(h, m)))
<1>1. PICK H \in Nat : H = Len(h) /\ (H = 0 <=> h = <<>>)
  OBVIOUS
<1>2. PICK g : g = Append(h, m)
  OBVIOUS
<1>3. g \in Seq(Message) /\ Len(g) = H + 1 /\ g[H + 1] = m /\ (\A i \in 1..H : g[i] = h[i]) /\ g # <<>>
  BY <1>1, <1>2
<1>4. ASSUME d = <<>> PROVE g[1].role = "user"
  <2>1. CASE H = 0
    BY <1>1, <1>3, <1>4, <2>1 DEF EndsWithUser
  <2>2. CASE H > 0
    BY <1>1, <1>3, <1>4, <2>2, 1 \in 1..H DEF TakesTurns
  <2> QED BY <2>1, <2>2
<1>5. ASSUME NEW i \in 1..H PROVE ~(g[i].role = "assistant" /\ g[i + 1].role = "assistant")
  <2>1. CASE i = H
    <3>1. g[i] = h[H] /\ g[i + 1] = m
      BY <1>3, <2>1
    <3> QED BY <1>1, <2>1, <3>1 DEF EndsWithUser
  <2>2. CASE i # H
    <3>1. i \in 1..(H - 1) /\ i + 1 \in 1..H
      BY <2>2
    <3> QED BY <1>1, <1>3, <3>1 DEF TakesTurns
  <2> QED BY <2>1, <2>2
<1>6. (H + 1) - 1 = H
  OBVIOUS
<1> QED BY <1>2, <1>3, <1>4, <1>5, <1>6 DEF TakesTurns, EndsWithUser

LEMMA TurnsResults ==
    ASSUME NEW h \in Seq(Message), NEW d, TakesTurns(h, d), h # <<>>, NEW rs \in Seq(Message),
           \A k \in 1..Len(rs) : rs[k].role = "tool"
    PROVE  TakesTurns(h \o rs, d) /\ (rs # <<>> => EndsWithUser(h \o rs))
<1>1. PICK H \in Nat, R \in Nat : H = Len(h) /\ H > 0 /\ R = Len(rs) /\ (R = 0 <=> rs = <<>>)
  OBVIOUS
<1>2. PICK g : g = h \o rs
  OBVIOUS
<1>3. g \in Seq(Message) /\ Len(g) = H + R /\ (\A i \in 1..H : g[i] = h[i]) /\ (\A i \in (H + 1)..(H + R) : g[i].role = "tool")
  <2>1. g \in Seq(Message) /\ Len(g) = H + R /\ (\A i \in 1..H : g[i] = h[i]) /\ (\A k \in 1..R : g[H + k] = rs[k])
    BY <1>1, <1>2, ConcatExtends DEF Extends
  <2>2. ASSUME NEW i \in (H + 1)..(H + R) PROVE g[i].role = "tool"
    <3>1. i - H \in 1..R /\ H + (i - H) = i
      BY <1>1
    <3>2. g[i] = rs[i - H]
      BY <2>1, <3>1, ZenonT(20)
    <3>3. rs[i - H].role = "tool"
      BY <1>1, <3>1
    <3> QED BY <3>2, <3>3, Zenon
  <2> QED BY <2>1, <2>2
<1>4. d = <<>> => g[1].role = "user"
  BY <1>1, <1>3, 1 \in 1..H DEF TakesTurns
<1>5. ASSUME NEW i \in 1..((H + R) - 1) PROVE ~(g[i].role = "assistant" /\ g[i + 1].role = "assistant")
  <2>1. CASE i < H
    <3>1. i \in 1..(H - 1) /\ i + 1 \in 1..H /\ i \in 1..H
      BY <2>1
    <3> QED BY <1>1, <1>3, <3>1 DEF TakesTurns
  <2>2. CASE i >= H
    <3>1. i + 1 \in (H + 1)..(H + R)
      BY <2>2
    <3> QED BY <1>3, <3>1
  <2> QED BY <2>1, <2>2
<1>6. rs # <<>> => g # <<>> /\ g[Len(g)].role # "assistant"
  <2> HAVE rs # <<>>
  <2>1. H + R \in (H + 1)..(H + R) /\ H + R > 0
    BY <1>1
  <2> QED BY <1>3, <2>1
<1> QED BY <1>2, <1>3, <1>4, <1>5, <1>6 DEF TakesTurns, EndsWithUser

LEMMA TurnsCut ==
    ASSUME NEW h \in Seq(Message), NEW d, NEW r, NEW g, NEW e, Cuts(h, d, r, g, e), TakesTurns(h, d)
    PROVE  TakesTurns(g, e) /\ (EndsWithUser(h) => EndsWithUser(g) \/ (g = <<>> /\ e # <<>>))
<1>1. PICK H \in Nat : H = Len(h)
  OBVIOUS
<1>2. /\ r \in 0..H /\ g \in Seq(Message) /\ Len(g) = H - r /\ \A i \in 1..(H - r) : g[i] = h[r + i]
      /\ e # <<>>
  BY <1>1 DEF Cuts
<1>3. ASSUME NEW i \in 1..((H - r) - 1) PROVE ~(g[i].role = "assistant" /\ g[i + 1].role = "assistant")
  <2>1. r + i \in 1..(H - 1) /\ i \in 1..(H - r) /\ i + 1 \in 1..(H - r) /\ r + (i + 1) = (r + i) + 1
    BY <1>2
  <2>2. g[i] = h[r + i] /\ g[i + 1] = h[(r + i) + 1]
    BY <1>2, <2>1
  <2> QED BY <1>1, <2>1, <2>2 DEF TakesTurns
<1>4. ASSUME EndsWithUser(h), g # <<>> PROVE EndsWithUser(g)
  <2>1. Len(g) > 0
    BY <1>2, <1>4
  <2>2. H - r \in 1..(H - r) /\ r + (H - r) = H
    BY <1>2, <2>1
  <2>3. g[Len(g)] = h[H]
    BY <1>2, <2>2
  <2> QED BY <1>1, <1>4, <2>3 DEF EndsWithUser
<1> QED BY <1>2, <1>3, <1>4 DEF TakesTurns

---------------------------------------------------------------------------
(* What follows for a request *)

LEMMA MessageIs ==
    ASSUME NEW m \in Message
    PROVE  /\ m.n \in Nat /\ m.calls \in Seq(STRING) /\ Len(m.calls) \in Nat
           /\ m.role = "tool" => m.of \in Nat \X Nat /\ m.of # <<>>
           /\ m.of # <<>> => m.role = "tool"
BY DEF Message

LEMMA PairedOnce ==
    ASSUME NEW h \in Seq(Message), NEW d, NEW newest \in Nat, NEW gone \in Nat, Numbered(h, d, newest, gone), Paired(h),
           NEW j \in 1..Len(h), h[j].role = "tool"
    PROVE  /\ \E i \in 1..(j - 1) : h[j].of \in CallIds(h[i]) /\ \A k \in (i + 1)..j : h[k].role = "tool"
           /\ \A k \in 1..(j - 1) : h[k].of # h[j].of
<1>1. PICK H \in Nat : H = Len(h) /\ \A i \in 1..H : h[i] \in Message
  OBVIOUS
<1>2. PICK i \in 1..(j - 1) : ResultOf(h, i, j)
  BY DEF Paired
<1>3. i \in 1..H /\ h[i] \in Message /\ h[j] \in Message
  BY <1>1
<1>4. h[j].of[1] = h[i].n /\ h[j].of[2] \in (j - i)..Len(h[i].calls) /\ \A k \in (i + 1)..j : h[k].role = "tool"
  BY <1>2 DEF ResultOf
<1>5. h[j].of \in CallIds(h[i])
  <2>1. h[j].of \in Nat \X Nat
    BY <1>3, MessageIs
  <2>2. h[j].of = <<h[i].n, h[j].of[2]>>
    BY <1>4, <2>1
  <2>3. h[j].of[2] \in 1..Len(h[i].calls)
    <3>1. Len(h[i].calls) \in Nat
      BY <1>3, MessageIs
    <3> QED BY <1>1, <1>4, <3>1
  <2> QED BY <2>2, <2>3 DEF CallIds
<1>6. ASSUME NEW k \in 1..(j - 1), h[k].of = h[j].of PROVE FALSE
  <2>1. k \in 1..H /\ h[k] \in Message
    BY <1>1
  <2>2. h[k].role = "tool"
    <3>1. h[j].of # <<>>
      BY <1>3 DEF Message
    <3> QED BY <1>6, <2>1, <3>1 DEF Message
  <2>3. PICK x \in 1..(k - 1) : ResultOf(h, x, k)
    BY <1>1, <2>1, <2>2 DEF Paired
  <2>4. h[x].n = h[i].n
    BY <1>4, <1>6, <2>3 DEF ResultOf
  <2>5. x = i
    <3>1. x \in 1..H
      BY <2>1
    <3>2. h[x].n = newest - H + x /\ h[i].n = newest - H + i
      BY <1>1, <1>3, <3>1 DEF Numbered
    <3>3. newest - H + x = newest - H + i
      BY <2>4, <3>2, Zenon
    <3> QED BY <1>3, <3>1, <3>3
  <2>6. k \in (i + 1)..(j - 1)
    BY <2>1, <2>3, <2>5
  <2>7. h[k].of[2] < h[j].of[2]
    BY <1>2, <2>6 DEF ResultOf
  <2>8. h[j].of[2] \in Nat
    BY <1>3 DEF Message
  <2> QED BY <1>6, <2>7, <2>8
<1> QED BY <1>4, <1>5, <1>6

\* What NothingForgotten says of the numbers.
InOrder(all, gone) ==
    \A i \in 1..Len(all) : all[i] # 0 =>
        IF i = 1 THEN all[i] = gone + 1
        ELSE all[i] = all[i - 1] + 1 \/ (all[i - 1] = 0 /\ i > 2 /\ all[i] > all[i - 2])

LEMMA AllKept ==
    ASSUME NEW h \in Seq(Message), NEW d \in Seq(Nat), NEW newest \in Nat, NEW gone \in Nat, Kept(h, d, newest, gone)
    PROVE  /\ \A k \in (gone + 1)..newest : newest - k < Window => \E i \in 1..Len(h) : h[i].n = k
           /\ InOrder(d \o [i \in 1..Len(h) |-> h[i].n], gone)
<1>1. PICK H \in Nat, D \in Nat : H = Len(h) /\ D = Len(d) /\ (D = 0 => d = <<>>) /\ (D > 0 => d # <<>>) /\ Window \in Nat
  BY ConversationAssumption
<1>2. PICK last \in Nat : last = newest - H /\ gone <= last
  <2>1. gone + H <= newest
    BY <1>1 DEF Kept, Numbered
  <2>2. newest - H \in Nat /\ gone <= newest - H
    BY <2>1
  <2> QED BY <2>2
<1>3. /\ \A i \in 1..H : h[i].n = last + i
      /\ last # gone => H >= Window
      /\ D = 0 => last = gone
  <2>1. /\ \A i \in 1..H : h[i].n = newest - H + i
        /\ gone + H < newest => H >= Window
        /\ d = <<>> => gone + H = newest
    BY <1>1 DEF Kept, Numbered
  <2>2. last # gone => gone + H < newest
    BY <1>2
  <2>3. gone + H = newest => last = gone
    BY <1>2
  <2> QED BY <1>1, <1>2, <2>1, <2>2, <2>3, Zenon
<1>4. ASSUME NEW k \in (gone + 1)..newest, newest - k < Window PROVE \E i \in 1..H : h[i].n = k
  <2>1. k - last \in 1..H /\ last + (k - last) = k
    BY <1>1, <1>2, <1>3, <1>4
  <2> QED BY <1>3, <2>1
<1>5. PICK all : all = d \o [i \in 1..Len(h) |-> h[i].n]
  OBVIOUS
<1>6. /\ Len(all) = D + H
      /\ \A i \in 1..D : all[i] = d[i] /\ d[i] \in Nat
      /\ \A i \in 1..H : all[D + i] = last + i
  <2>1. PICK ns : ns = [i \in 1..Len(h) |-> h[i].n]
    OBVIOUS
  <2>2. ns \in Seq(Nat) /\ Len(ns) = H /\ \A i \in 1..H : ns[i] = last + i
    BY <1>1, <1>3, <2>1
  <2>3. all = d \o ns
    BY <1>5, <2>1, Zenon
  <2>4. Extends(all, d) /\ Len(all) = D + H /\ \A k \in 1..H : all[D + k] = ns[k]
    <3>1. Extends(d \o ns, d) /\ Len(d \o ns) = Len(d) + Len(ns) /\ \A k \in 1..Len(ns) : (d \o ns)[Len(d) + k] = ns[k]
      BY <2>2, ConcatExtends, ZenonT(40)
    <3> QED BY <1>1, <2>2, <2>3, <3>1, Zenon
  <2> QED BY <1>1, <2>2, <2>4 DEF Extends
<1>7. /\ \A i \in 1..D :
            /\ d[i] = 0 => i > 1 /\ d[i - 1] # 0
            /\ d[i] # 0 =>
                  /\ d[i] <= last
                  /\ i = 1 => d[i] = gone + 1
                  /\ i > 1 => d[i] = d[i - 1] + 1 \/ (d[i - 1] = 0 /\ i > 2 /\ d[i] > d[i - 2])
      /\ D > 0 => d[D] \in {0, last}
  <2>1. DigestFits(d, last, gone)
    BY <1>1, <1>2 DEF Kept
  <2> QED BY <1>1, <2>1 DEF DigestFits
<1>8. ASSUME NEW i \in 1..(D + H), all[i] # 0
      PROVE  IF i = 1 THEN all[i] = gone + 1
             ELSE all[i] = all[i - 1] + 1 \/ (all[i - 1] = 0 /\ i > 2 /\ all[i] > all[i - 2])
  <2>1. CASE i <= D
    <3>1. i \in 1..D /\ all[i] = d[i]
      BY <1>6, <2>1
    <3>2. i > 1 => i - 1 \in 1..D /\ all[i - 1] = d[i - 1]
      BY <1>6, <3>1
    <3>3. i > 2 => i - 2 \in 1..D /\ all[i - 2] = d[i - 2]
      BY <1>6, <3>1
    <3>4. i = 1 \/ i > 1
      OBVIOUS
    <3> QED BY <1>7, <1>8, <3>1, <3>2, <3>3, <3>4
  <2>2. CASE i > D
    <3>1. PICK k \in 1..H : i = D + k
      <4>1. i - D \in 1..H /\ i = D + (i - D)
        BY <2>2
      <4> QED BY <4>1
    <3>2. all[i] = last + k
      BY <1>6, <3>1
    <3>3. CASE k > 1
      <4>1. k - 1 \in 1..H /\ D + (k - 1) = i - 1 /\ i # 1
        BY <3>1, <3>3
      <4>2. all[i - 1] = last + (k - 1)
        BY <1>6, <4>1
      <4> QED BY <3>2, <4>1, <4>2
    <3>4. CASE k = 1 /\ D = 0
      BY <1>3, <3>1, <3>2, <3>4
    <3>5. CASE k = 1 /\ D > 0
      <4>1. D \in 1..D /\ all[i - 1] = d[D] /\ i - 1 = D /\ i > 1 /\ i # 1
        BY <1>6, <3>1, <3>5
      <4>2. CASE d[D] = 0
        <5>1. D > 1 /\ D - 1 \in 1..D /\ d[D - 1] # 0
          BY <1>7, <4>1, <4>2
        <5>2. d[D - 1] <= last /\ d[D - 1] \in Nat
          BY <1>6, <1>7, <5>1
        <5>3. all[D - 1] = d[D - 1] /\ i - 2 = D - 1 /\ i > 2
          BY <1>6, <4>1, <5>1
        <5> QED BY <3>2, <3>5, <4>1, <4>2, <5>2, <5>3
      <4>3. CASE d[D] = last
        BY <3>2, <3>5, <4>1, <4>3
      <4> QED BY <1>7, <3>5, <4>2, <4>3
    <3> QED BY <3>3, <3>4, <3>5
  <2> QED BY <2>1, <2>2
<1>9. InOrder(all, gone)
  BY <1>6, <1>8, Zenon DEF InOrder
<1> QED BY <1>1, <1>4, <1>9, <1>5, Zenon

LEMMA Parity == \A L \in Nat : L % 2 = 0 => (L + 1) % 2 = 1 /\ (L + 2) % 2 = 0
OBVIOUS

\* The roles take turns.
Alternates(ms) == \A k \in 1..Len(ms) : ms[k].role = (IF k % 2 = 1 THEN "user" ELSE "assistant")

LEMMA AlternatesAppend ==
    ASSUME NEW ms \in Seq(WireMessage), Alternates(ms), NEW m \in WireMessage,
           m.role = (IF (Len(ms) + 1) % 2 = 1 THEN "user" ELSE "assistant")
    PROVE  Alternates(Append(ms, m)) /\ Append(ms, m) \in Seq(WireMessage) /\ Len(Append(ms, m)) = Len(ms) + 1
<1>1. PICK L \in Nat : L = Len(ms)
  OBVIOUS
<1>2. PICK g : g = Append(ms, m)
  OBVIOUS
<1>3. g \in Seq(WireMessage) /\ Len(g) = L + 1 /\ g[L + 1] = m /\ \A k \in 1..L : g[k] = ms[k]
  BY <1>1, <1>2
<1>4. ASSUME NEW k \in 1..(L + 1) PROVE g[k].role = (IF k % 2 = 1 THEN "user" ELSE "assistant")
  <2>1. CASE k = L + 1
    BY <1>1, <1>3, <2>1
  <2>2. CASE k # L + 1
    <3>1. k \in 1..L
      BY <2>2
    <3> QED BY <1>1, <1>3, <3>1 DEF Alternates
  <2> QED BY <2>1, <2>2
<1> QED BY <1>1, <1>2, <1>3, <1>4 DEF Alternates

LEMMA OneMessage ==
    ASSUME NEW role \in {"user", "assistant"}, NEW content \in Seq(Atom), content # <<>>, NEW ms \in Seq(WireMessage)
    PROVE  \E m \in WireMessage : m.role = role /\ ms \o Messages(role, content) = Append(ms, m)
<1>1. PICK m : m = [role |-> role, content |-> content]
  OBVIOUS
<1>2. m \in WireMessage /\ m.role = role
  BY <1>1 DEF WireMessage
<1>3. Messages(role, content) = <<m>>
  BY <1>1 DEF Messages
<1>4. Append(ms, m) = ms \o <<m>>
  BY <1>2, AppendIsConcat
<1> QED BY <1>2, <1>3, <1>4

LEMMA AnthropicTakesTurns ==
    ASSUME NEW b \in Bundle, TakesTurns(b.history, b.digest), b.task # 0 \/ EndsWithUser(b.history),
           NEW ms, ms = BuildAnthropicMessages(b)
    PROVE  ms # <<>> /\ Alternates(ms) /\ Len(ms) % 2 = 1
<1>1. PICK N \in Nat : N = Len(b.history) /\ \A i \in 1..N : b.history[i] \in Message
  BY EndsType
<1>2. PICK s : Gathers(s, b)
  BY AnthropicGathers
<1>3. /\ s \in [0..N -> Gathering] /\ s[0] = [out |-> <<>>, user |-> DigestAtoms(b)]
      /\ \A i \in 1..N : s[i] = AnthropicStep(s[i - 1], b.history[i])
      /\ AnthropicLoop(b) = s[N]
  BY <1>1, <1>2, Zenon DEF Gathers
<1> DEFINE Silent(i) == (i = 0 /\ b.digest = <<>>) \/ (i > 0 /\ b.history[i].role = "assistant")
           Even(i) == /\ Alternates(s[i].out) /\ Len(s[i].out) % 2 = 0
                      /\ ~Silent(i) => s[i].user # <<>>
           T == {i \in 0..N : Even(i)}
<1> HIDE DEF Even
<1>4. ASSUME NEW i \in 0..N PROVE s[i] \in Gathering /\ s[i].out \in Seq(WireMessage) /\ s[i].user \in Seq(Atom)
  <2>1. s[i] \in Gathering
    BY <1>3
  <2> QED BY <2>1 DEF Gathering
<1>5. 0 \in T
  <2>1. s[0].out = <<>> /\ s[0].user = DigestAtoms(b)
    BY <1>3
  <2>2. b.digest # <<>> => DigestAtoms(b) # <<>>
    BY DEF DigestAtoms
  <2>3. Alternates(<<>>) /\ Len(<<>>) % 2 = 0
    BY DEF Alternates
  <2>4. Even(0)
    BY <2>1, <2>2, <2>3 DEF Even
  <2> QED BY <2>4, 0 \in 0..N
<1>6. ASSUME NEW i \in 1..N, i - 1 \in T PROVE i \in T
  <2>1. i \in 0..N /\ i - 1 \in 0..N /\ Even(i - 1)
    BY <1>6
  <2>2. PICK u, v, m : u = s[i - 1] /\ v = s[i] /\ m = b.history[i]
    OBVIOUS
  <2>3. /\ u \in Gathering /\ u.out \in Seq(WireMessage) /\ u.user \in Seq(Atom) /\ m \in Message
        /\ v = AnthropicStep(u, m)
    BY <1>1, <1>3, <1>4, <2>1, <2>2
  <2>4. Alternates(u.out) /\ Len(u.out) % 2 = 0 /\ (~Silent(i - 1) => u.user # <<>>)
    BY <2>1, <2>2, Zenon DEF Even
  <2>5. ResponsesInputs(m) \in Seq(Atom) /\ ResponsesInputs(m) # <<>>
    <3>1. CASE m.role = "assistant"
      <4>1. ResponsesInputs(m) = TextAtoms(m) \o CallAtoms(m) /\ ResponsesInputs(m) \in Seq(Atom)
        BY <2>3, <3>1, InputsAre
      <4>2. TextAtoms(m) \in Seq(Atom) /\ CallAtoms(m) \in Seq(Atom)
        BY <2>3, AtomsType
      <4>3. m.text \/ m.calls # <<>>
        BY <2>3, <3>1 DEF Message
      <4>4. m.text => Len(TextAtoms(m)) = 1
        BY DEF TextAtoms
      <4>5. m.calls # <<>> => Len(CallAtoms(m)) > 0
        <5> HAVE m.calls # <<>>
        <5>1. m.calls \in Seq(STRING)
          BY <2>3 DEF Message
        <5>2. Len(m.calls) > 0 /\ Len(m.calls) \in Nat
          BY <5>1
        <5> QED BY <5>2 DEF CallAtoms
      <4>6. Len(TextAtoms(m) \o CallAtoms(m)) = Len(TextAtoms(m)) + Len(CallAtoms(m)) /\ Len(TextAtoms(m)) \in Nat /\ Len(CallAtoms(m)) \in Nat
        BY <4>2
      <4>7. Len(ResponsesInputs(m)) > 0
        <5>1. Len(TextAtoms(m)) > 0 \/ Len(CallAtoms(m)) > 0
          BY <4>3, <4>4, <4>5, <4>6, SMTT(40)
        <5>2. PICK x \in Nat, y \in Nat : x = Len(TextAtoms(m)) /\ y = Len(CallAtoms(m))
          BY <4>6
        <5>3. Len(ResponsesInputs(m)) = x + y
          BY <4>1, <4>6, <5>2, Zenon
        <5> QED BY <5>1, <5>2, <5>3
      <4> QED BY <4>1, <4>7
    <3>2. CASE m.role # "assistant"
      <4>1. \E a : ResponsesInputs(m) = <<a>>
        <5>1. m.role \in {"user", "tool"}
          BY <2>3, <3>2 DEF Message
        <5> QED BY <2>3, <5>1, InputsAre
      <4>2. ResponsesInputs(m) # <<>>
        BY <4>1
      <4> QED BY <2>3, <4>2, InputsAre
    <3> QED BY <3>1, <3>2
  <2>6. CASE m.role \in {"user", "tool"}
    <3>1. v.out = u.out /\ v.user = u.user \o ResponsesInputs(m)
      BY <2>3, <2>6, StepIs, Zenon
    <3>2. u.user \o ResponsesInputs(m) # <<>>
      BY <2>3, <2>5, ConcatEqualIffEmpty
    <3>3. Even(i)
      BY <2>2, <2>4, <3>1, <3>2, Zenon DEF Even
    <3> QED BY <2>1, <3>3
  <2>7. CASE m.role = "assistant"
    <3>1. ~Silent(i - 1)
      <4>1. CASE i = 1
        <5>1. b.history # <<>>
          BY <1>1, <4>1
        <5> QED BY <2>2, <2>7, <4>1, <5>1 DEF TakesTurns
      <4>2. CASE i # 1
        <5>1. i - 1 \in 1..(N - 1) /\ (i - 1) + 1 = i
          BY <4>2
        <5>2. ~(b.history[i - 1].role = "assistant" /\ b.history[i].role = "assistant")
          BY <1>1, <5>1 DEF TakesTurns
        <5> QED BY <2>2, <2>7, <4>2, <5>2
      <4> QED BY <4>1, <4>2
    <3>2. u.user # <<>>
      BY <2>4, <3>1
    <3>3. v.out = FlushUserContent(u).out \o Messages("assistant", ResponsesInputs(m))
      BY <2>3, <2>7, StepIs, Zenon
    <3>4. FlushUserContent(u).out = u.out \o Messages("user", u.user)
      BY <2>3, FlushIs
    <3>5. PICK x \in WireMessage : x.role = "user" /\ u.out \o Messages("user", u.user) = Append(u.out, x)
      BY <2>3, <3>2, OneMessage
    <3>6. PICK o : o = Append(u.out, x)
      OBVIOUS
    <3>7. PICK L \in Nat : L = Len(u.out) /\ L % 2 = 0 /\ (L + 1) % 2 = 1 /\ (L + 2) % 2 = 0
      <4>1. PICK L \in Nat : L = Len(u.out)
        BY <2>3
      <4> QED BY <2>4, <4>1, Parity, Zenon
    <3>8. Alternates(o) /\ o \in Seq(WireMessage) /\ Len(o) = L + 1
      BY <2>3, <2>4, <3>5, <3>6, <3>7, AlternatesAppend
    <3>9. PICK y \in WireMessage : y.role = "assistant" /\ o \o Messages("assistant", ResponsesInputs(m)) = Append(o, y)
      BY <2>5, <3>8, OneMessage
    <3>10. (L + 1) + 1 = L + 2 /\ (L + 2) % 2 # 1
      <4>1. (L + 1) + 1 = L + 2 /\ 0 # 1
        OBVIOUS
      <4> QED BY <3>7, <4>1, Zenon
    <3>11. Alternates(Append(o, y)) /\ Len(Append(o, y)) = L + 2
      BY <3>8, <3>9, <3>10, AlternatesAppend
    <3>12. v.out = Append(o, y)
      BY <3>3, <3>4, <3>5, <3>6, <3>9, Zenon
    <3>13. Silent(i)
      BY <2>2, <2>7
    <3>14. Even(i)
      BY <2>2, <3>7, <3>11, <3>12, <3>13, Zenon DEF Even
    <3> QED BY <2>1, <3>14
  <2> QED BY <2>3, <2>6, <2>7 DEF Message
<1>7. Even(N)
  <2>1. N \in 0..N
    OBVIOUS
  <2>2. \A i \in 0..N : i \in T
    <3> HIDE DEF T
    <3> QED BY <1>5, <1>6, Induct
  <2> QED BY <2>1, <2>2
<1>8. PICK x, y, t : x = s[N].out /\ y = s[N].user /\ t = TaskAtoms(b)
  OBVIOUS
<1>9. x \in Seq(WireMessage) /\ y \in Seq(Atom) /\ t \in Seq(Atom) /\ y \o t \in Seq(Atom)
  <2>1. N \in 0..N
    OBVIOUS
  <2>2. x \in Seq(WireMessage) /\ y \in Seq(Atom) /\ t \in Seq(Atom)
    BY <1>4, <1>8, <2>1, EndsType
  <2> QED BY <2>2
<1>10. y \o t # <<>>
  <2>1. y # <<>> \/ t # <<>>
    <3>1. CASE b.task # 0
      BY <1>8, <3>1 DEF TaskAtoms
    <3>2. CASE EndsWithUser(b.history)
      <4>1. N > 0 /\ b.history[N].role # "assistant"
        BY <1>1, <3>2, EndsType DEF EndsWithUser
      <4>2. ~Silent(N)
        BY <4>1
      <4> QED BY <1>7, <1>8, <4>2, Zenon DEF Even
    <3> QED BY <3>1, <3>2
  <2> QED BY <1>9, <2>1, ConcatEqualIffEmpty
<1>11. ms = x \o Messages("user", y \o t)
  BY <1>3, <1>8 DEF BuildAnthropicMessages, FlushUserContent
<1>12. PICK m \in WireMessage : m.role = "user" /\ x \o Messages("user", y \o t) = Append(x, m)
  BY <1>9, <1>10, OneMessage
<1>13. PICK L \in Nat : L = Len(x) /\ L % 2 = 0 /\ (L + 1) % 2 = 1 /\ Alternates(x)
  <2>1. PICK L \in Nat : L = Len(x)
    BY <1>9
  <2>2. Alternates(x) /\ L % 2 = 0
    BY <1>7, <1>8, <2>1, Zenon DEF Even
  <2> QED BY <2>1, <2>2, Parity, Zenon
<1>14. Alternates(Append(x, m)) /\ Len(Append(x, m)) = L + 1
  BY <1>9, <1>12, <1>13, AlternatesAppend
<1>15. Append(x, m) # <<>>
  BY <1>9
<1> QED BY <1>11, <1>12, <1>13, <1>14, <1>15, Zenon

---------------------------------------------------------------------------
(* Every step keeps the invariant *)

\* What was shown of the new values holds in the next state.
LEMMA KeptThen ==
    ASSUME NEW h, NEW d, NEW newest, NEW gone, h = history', d = digest', newest = n', gone = base',
           Kept(h, d, newest, gone)
    PROVE  Kept(history, digest, n, base)'
BY DEF Kept, Numbered, DigestFits

LEMMA ExchangeThen ==
    ASSUME NEW h, NEW d, NEW given, NEW left, h = history', d = digest', given = abandoned', left = calls',
           Paired(h), Answered(h, given, left), Running(h, left), waiting' => Asking(h), TakesTurns(h, d),
           Heard', Current'
    PROVE  Exchange'
<1>1. Paired(history)'
  BY Zenon DEF Paired, ResultOf
<1>2. Answered(history, abandoned, calls)'
  BY Zenon DEF Answered
<1>3. Running(history, calls)'
  BY Zenon DEF Running, Answering
<1>4. (waiting => Asking(history))'
  BY Zenon DEF Asking, Answering
<1>5. TakesTurns(history, digest)'
  BY Zenon DEF TakesTurns
<1> QED BY <1>1, <1>2, <1>3, <1>4, <1>5 DEF Exchange

LEMMA BundleIs ==
    ASSUME NEW h \in Seq(Message), NEW d \in Seq(Nat), NEW t \in Nat
    PROVE  [digest |-> d, history |-> h, task |-> t] \in Bundle /\ NoBundle \in Bundle
<1>1. <<>> \in Seq(Message) /\ <<>> \in Seq(Nat) /\ 0 \in Nat
  OBVIOUS
<1> QED BY <1>1 DEF Bundle, NoBundle

LEMMA InitHolds == Init => IInv
<1> SUFFICES ASSUME Init PROVE IInv
  OBVIOUS
<1>1. <<>> \in Seq(Message) /\ <<>> \in Seq(Nat) /\ <<>> \in Seq(Call) /\ Len(<<>>) = 0
  OBVIOUS
<1>2. NoBundle \in Bundle
  BY <1>1 DEF NoBundle, Bundle
<1>3. TypeOK
  <2>1. history \in Seq(Message) /\ digest \in Seq(Nat) /\ bundle \in Bundle /\ calls \in Seq(Call)
    BY <1>1, <1>2 DEF Init
  <2>2. n \in Nat /\ tasks \in Nat /\ base \in Nat
    BY DEF Init
  <2>3. /\ pc \in {"idle", "top", "chat", "receive", "reply", "tool", "append", "summary"}
        /\ task \in BOOLEAN /\ final \in BOOLEAN /\ stopped \in BOOLEAN /\ waiting \in BOOLEAN /\ raced \in BOOLEAN
        /\ abandoned \subseteq Nat \X Nat
    BY DEF Init
  <2> QED BY <2>1, <2>2, <2>3 DEF TypeOK
<1>4. Control
  BY DEF Init, Control
<1>5. Kept(history, digest, n, base)
  <2>1. Window \in Nat
    BY ConversationAssumption
  <2> QED BY <2>1 DEF Init, Kept, Numbered, DigestFits
<1>6. Exchange
  BY DEF Init, Exchange, Paired, Answered, Running, TakesTurns, Heard, Current
<1> QED BY <1>3, <1>4, <1>5, <1>6 DEF IInv

\* The run returns: the calls that are left are given up.
LEMMA ReturnIs ==
    ASSUME TypeOK, Return
    PROVE  /\ pc' = "idle" /\ calls' = <<>> /\ calls' \in Seq(Call) /\ final' = FALSE /\ final' \in BOOLEAN
           /\ bundle' \in Bundle /\ abandoned' \subseteq Nat \X Nat
<1>1. \A k \in 1..Len(calls) : calls[k].id \in Nat \X Nat
  <2>1. calls \in Seq(Call)
    BY DEF TypeOK
  <2>2. \A k \in 1..Len(calls) : calls[k] \in Call
    BY <2>1
  <2> QED BY <2>2 DEF Call
<1>2. abandoned \subseteq Nat \X Nat
  BY DEF TypeOK
<1>3. bundle' = NoBundle
  BY DEF Return
<1>4. <<>> \in Seq(Message) /\ <<>> \in Seq(Nat) /\ 0 \in Nat
  OBVIOUS
<1>5. bundle' \in Bundle
  BY <1>3, <1>4 DEF NoBundle, Bundle
<1>6. abandoned' = abandoned \cup {calls[k].id : k \in 1..Len(calls)}
  BY DEF Return
<1>7. abandoned' \subseteq Nat \X Nat
  BY <1>1, <1>2, <1>6
<1>8. <<>> \in Seq(Call)
  OBVIOUS
<1> QED BY <1>5, <1>7, <1>8 DEF Return

\* Nobody has said anything.
LEMMA SameHistory ==
    ASSUME IInv, UNCHANGED <<history, digest, n, base>>
    PROVE  Kept(history, digest, n, base)'
<1>1. PICK h, d, newest, gone : h = history /\ d = digest /\ newest = n /\ gone = base
  OBVIOUS
<1>2. Kept(h, d, newest, gone)
  BY <1>1 DEF IInv
<1> QED BY <1>1, <1>2, KeptThen

LEMMA SameExchange ==
    ASSUME Exchange, UNCHANGED <<history, digest>>, waiting' => Asking(history), Heard', Current',
           \/ UNCHANGED <<calls, abandoned>>
           \/ calls' = <<>> /\ abandoned' = abandoned \cup {calls[k].id : k \in 1..Len(calls)}
    PROVE  Exchange'
<1>1. PICK h, d : h = history /\ d = digest
  OBVIOUS
<1>2. PICK given, left, given2, left2 : given = abandoned /\ left = calls /\ given2 = abandoned' /\ left2 = calls'
  OBVIOUS
<1>3. Paired(h) /\ Answered(h, given, left) /\ Running(h, left) /\ TakesTurns(h, d)
  BY <1>1, <1>2 DEF Exchange
<1>4. waiting' => Asking(h)
  BY <1>1
<1>5. CASE UNCHANGED <<calls, abandoned>>
  <2>1. given2 = given /\ left2 = left
    BY <1>2, <1>5
  <2> QED BY <1>1, <1>2, <1>3, <1>4, <2>1, ExchangeThen
<1>6. CASE calls' = <<>> /\ abandoned' = abandoned \cup {calls[k].id : k \in 1..Len(calls)}
  <2>1. left2 = <<>> /\ given2 = given \cup {left[k].id : k \in 1..Len(left)}
    BY <1>2, <1>6
  <2>2. Answered(h, given2, left2)
    BY <1>3, <2>1 DEF Answered
  <2>3. Running(h, left2)
    BY <2>1 DEF Running
  <2> QED BY <1>1, <1>2, <1>3, <1>4, <2>2, <2>3, ExchangeThen
<1> QED BY <1>5, <1>6

LEMMA StartRunStep == ASSUME IInv, StartRun PROVE IInv'
<1>1. TypeOK /\ Control /\ (~raced => Exchange)
  BY DEF IInv
<1>2. UNCHANGED <<history, digest, n, base, calls, abandoned, final, bundle, waiting, raced>> /\ ~waiting
  BY DEF StartRun, loopVars
<1>3. pc = "idle" /\ pc' = "top" /\ task' = TRUE /\ stopped' = FALSE /\ tasks' = tasks + 1
  BY DEF StartRun
<1>4. TypeOK'
  <2>1. tasks' \in Nat
    BY <1>1, <1>3 DEF TypeOK
  <2>2. pc' \in {"idle", "top", "chat", "receive", "reply", "tool", "append", "summary"}
    BY <1>3
  <2>3. task' \in BOOLEAN /\ stopped' \in BOOLEAN
    BY <1>3
  <2> QED BY <1>1, <1>2, <2>1, <2>2, <2>3 DEF TypeOK
<1>5. Control'
  BY <1>1, <1>2, <1>3 DEF TypeOK, Control
<1>6. Kept(history, digest, n, base)'
  BY <1>2, SameHistory
<1>7. ASSUME ~raced' PROVE Exchange'
  <2>1. Heard' /\ Current' /\ ~waiting'
    BY <1>2, <1>3 DEF Heard, Current
  <2> QED BY <1>1, <1>2, <1>7, <2>1, SameExchange
<1> QED BY <1>4, <1>5, <1>6, <1>7 DEF IInv

LEMMA LoopTopStep == ASSUME IInv, LoopTop PROVE IInv'
<1>1. TypeOK /\ Control /\ (~raced => Exchange)
  BY DEF IInv
<1>2. UNCHANGED <<history, digest, n, base, tasks, task, stopped, waiting, raced>> /\ pc = "top"
  BY DEF LoopTop
<1>3. calls = <<>> /\ ~waiting
  BY <1>1, <1>2 DEF Control
<1>4. Kept(history, digest, n, base)'
  BY <1>2, SameHistory
<1>5. CASE Return
  <2>1. /\ pc' = "idle" /\ calls' = <<>> /\ calls' \in Seq(Call) /\ final' = FALSE /\ final' \in BOOLEAN
        /\ bundle' \in Bundle /\ abandoned' \subseteq Nat \X Nat
    BY <1>1, <1>5, ReturnIs
  <2>2. TypeOK'
    BY <1>1, <1>2, <2>1 DEF TypeOK
  <2>3. Control'
    BY <1>1, <1>2, <1>3, <2>1 DEF Control
  <2>4. ASSUME ~raced' PROVE Exchange'
    <3>1. Heard' /\ Current' /\ ~waiting'
      BY <1>2, <1>3, <2>1 DEF Heard, Current
    <3>2. calls' = <<>> /\ abandoned' = abandoned \cup {calls[k].id : k \in 1..Len(calls)}
      BY <1>5 DEF Return
    <3> QED BY <1>1, <1>2, <2>4, <3>1, <3>2, SameExchange
  <2> QED BY <1>4, <2>2, <2>3, <2>4 DEF IInv
<1>6. CASE Request(task) /\ UNCHANGED <<calls, final, abandoned>>
  <2>1. pc' = "chat" /\ bundle' = [digest |-> digest, history |-> history, task |-> IF task THEN MaxItems + tasks ELSE 0]
    BY <1>6 DEF Request
  <2>2. bundle' \in Bundle
    <3>1. PICK t : t = IF task THEN MaxItems + tasks ELSE 0
      OBVIOUS
    <3>2. t \in Nat
      BY <1>1, <3>1, ConversationAssumption DEF TypeOK
    <3>3. PICK h, d : h = history /\ d = digest
      OBVIOUS
    <3>4. h \in Seq(Message) /\ d \in Seq(Nat)
      BY <1>1, <3>3 DEF TypeOK
    <3>5. [digest |-> d, history |-> h, task |-> t] \in Bundle
      BY <3>2, <3>4, BundleIs
    <3> QED BY <2>1, <3>1, <3>3, <3>5
  <2>3. TypeOK'
    BY <1>1, <1>2, <1>6, <2>1, <2>2 DEF TypeOK
  <2>4. Control'
    BY <1>1, <1>2, <1>3, <1>6, <2>1 DEF Control
  <2>5. ASSUME ~raced' PROVE Exchange'
    <3>1. Heard'
      BY <1>1, <1>2, <2>1, <2>5 DEF Exchange, Heard, EndsWithUser
    <3>2. Current' /\ ~waiting'
      BY <1>2, <1>3, <2>1 DEF Current
    <3> QED BY <1>1, <1>2, <1>6, <2>5, <3>1, <3>2, SameExchange
  <2> QED BY <1>4, <2>3, <2>4, <2>5 DEF IInv
<1> QED BY <1>5, <1>6 DEF LoopTop

LEMMA ChatStep == ASSUME IInv, ChatWithTools PROVE IInv'
<1>1. TypeOK /\ Control /\ (~raced => Exchange)
  BY DEF IInv
<1>2. UNCHANGED <<history, digest, n, base, tasks, task, stopped, waiting, raced>> /\ pc = "chat"
  BY DEF ChatWithTools
<1>3. calls = <<>> /\ ~waiting
  BY <1>1, <1>2 DEF Control
<1>4. Kept(history, digest, n, base)'
  BY <1>2, SameHistory
<1>5. CASE Return
  <2>1. /\ pc' = "idle" /\ calls' = <<>> /\ calls' \in Seq(Call) /\ final' = FALSE /\ final' \in BOOLEAN
        /\ bundle' \in Bundle /\ abandoned' \subseteq Nat \X Nat
    BY <1>1, <1>5, ReturnIs
  <2>2. TypeOK'
    BY <1>1, <1>2, <2>1 DEF TypeOK
  <2>3. Control'
    BY <1>1, <1>2, <1>3, <2>1 DEF Control
  <2>4. ASSUME ~raced' PROVE Exchange'
    <3>1. Heard' /\ Current' /\ ~waiting'
      BY <1>2, <1>3, <2>1 DEF Heard, Current
    <3>2. calls' = <<>> /\ abandoned' = abandoned \cup {calls[k].id : k \in 1..Len(calls)}
      BY <1>5 DEF Return
    <3> QED BY <1>1, <1>2, <2>4, <3>1, <3>2, SameExchange
  <2> QED BY <1>4, <2>2, <2>3, <2>4 DEF IInv
<1>6. CASE /\ UNCHANGED <<bundle, calls, final, abandoned>>
           /\ pc' = "chat" \/ pc' = IF final THEN "summary" ELSE "receive"
  <2>1. pc' \in {"chat", "summary", "receive"} /\ (pc' = "summary" => final)
    BY <1>6
  <2>2. TypeOK'
    BY <1>1, <1>2, <1>6, <2>1 DEF TypeOK
  <2>3. Control'
    BY <1>1, <1>2, <1>3, <1>6, <2>1 DEF Control
  <2>4. ASSUME ~raced' PROVE Exchange'
    <3>1. Heard'
      BY <1>1, <1>2, <2>1, <2>4 DEF Exchange, Heard, EndsWithUser
    <3>2. Current' /\ ~waiting'
      BY <1>1, <1>2, <1>3, <1>6, <2>1, <2>4 DEF Exchange, Current
    <3> QED BY <1>1, <1>2, <1>6, <2>4, <3>1, <3>2, SameExchange
  <2> QED BY <1>4, <2>2, <2>3, <2>4 DEF IInv
<1>7. \/ Return
      \/ /\ UNCHANGED <<bundle, calls, final, abandoned>>
         /\ pc' = "chat" \/ pc' = IF final THEN "summary" ELSE "receive"
  BY DEF ChatWithTools, loopVars
<1> QED BY <1>5, <1>6, <1>7

LEMMA RunToolStep == ASSUME IInv, RunTool PROVE IInv'
<1>1. TypeOK /\ Control /\ (~raced => Exchange)
  BY DEF IInv
<1>2. UNCHANGED <<history, digest, n, base, tasks, task, stopped, raced>> /\ pc = "tool"
  BY DEF RunTool
<1>3. calls # <<>> /\ ~waiting /\ ~task
  BY <1>1, <1>2 DEF Control
<1>4. Kept(history, digest, n, base)'
  BY <1>2, SameHistory
<1>5. CASE Return /\ waiting' \in BOOLEAN /\ (waiting' => calls[1].tool = "ask")
  <2>1. /\ pc' = "idle" /\ calls' = <<>> /\ calls' \in Seq(Call) /\ final' = FALSE /\ final' \in BOOLEAN
        /\ bundle' \in Bundle /\ abandoned' \subseteq Nat \X Nat
    BY <1>1, <1>5, ReturnIs
  <2>2. TypeOK'
    BY <1>1, <1>2, <1>5, <2>1 DEF TypeOK
  <2>3. Control'
    BY <1>1, <1>2, <1>3, <2>1 DEF Control
  <2>4. ASSUME ~raced' PROVE Exchange'
    <3>1. Heard' /\ Current'
      BY <2>1 DEF Heard, Current
    <3>2. calls' = <<>> /\ abandoned' = abandoned \cup {calls[k].id : k \in 1..Len(calls)}
      BY <1>5 DEF Return
    <3>3. ASSUME waiting' PROVE Asking(history)
      <4>1. PICK h, left : h = history /\ left = calls
        OBVIOUS
      <4>2. Running(h, left) /\ left # <<>> /\ left[1].tool = "ask" /\ left \in Seq(Call)
        BY <1>1, <1>2, <1>3, <1>5, <2>4, <3>3, <4>1 DEF Exchange, TypeOK
      <4>3. PICK i \in 1..Len(h) :
               /\ Answering(h, i)
               /\ \A k \in 1..Len(left) :
                     left[k] = [id |-> <<h[i].n, Len(h) - i + k>>, tool |-> h[i].calls[Len(h) - i + k]]
        BY <4>2 DEF Running
      <4>4. 1 \in 1..Len(left)
        BY <4>2
      <4>5. left[1].tool = h[i].calls[Len(h) - i + 1]
        <5>1. left[1] = [id |-> <<h[i].n, Len(h) - i + 1>>, tool |-> h[i].calls[Len(h) - i + 1]]
          BY <4>3, <4>4, Zenon
        <5> QED BY <5>1
      <4>6. Asking(h)
        BY <4>2, <4>3, <4>5 DEF Asking
      <4> QED BY <4>1, <4>6
    <3> QED BY <1>1, <1>2, <2>4, <3>1, <3>2, <3>3, SameExchange
  <2> QED BY <1>4, <2>2, <2>3, <2>4 DEF IInv
<1>6. CASE pc' = "append" /\ UNCHANGED loopVars /\ waiting' = waiting /\ calls[1].tool # "ask"
  <2>1. UNCHANGED <<bundle, calls, final, abandoned>>
    BY <1>6 DEF loopVars
  <2>2. TypeOK'
    BY <1>1, <1>2, <1>6, <2>1 DEF TypeOK
  <2>3. Control'
    BY <1>1, <1>2, <1>3, <1>6, <2>1 DEF Control
  <2>4. ASSUME ~raced' PROVE Exchange'
    <3>1. Heard' /\ Current' /\ ~waiting'
      BY <1>3, <1>6 DEF Heard, Current
    <3> QED BY <1>1, <1>2, <2>1, <2>4, <3>1, SameExchange
  <2> QED BY <1>4, <2>2, <2>3, <2>4 DEF IInv
<1>7. \/ Return /\ waiting' \in BOOLEAN /\ (waiting' => calls[1].tool = "ask")
      \/ pc' = "append" /\ UNCHANGED loopVars /\ waiting' = waiting /\ calls[1].tool # "ask"
  <2>1. CASE calls[1].tool = "ask"
    <3>1. Return /\ waiting' \in {~stopped, FALSE}
      BY <2>1 DEF RunTool
    <3>2. waiting' \in BOOLEAN
      BY <3>1
    <3> QED BY <2>1, <3>1, <3>2
  <2>2. CASE calls[1].tool # "ask"
    <3>1. waiting' = FALSE
      BY <1>1, <1>3, <2>2 DEF RunTool, TypeOK
    <3>2. waiting' = waiting /\ (Return \/ (pc' = "append" /\ UNCHANGED loopVars))
      BY <2>2 DEF RunTool
    <3> QED BY <2>2, <3>1, <3>2
  <2> QED BY <2>1, <2>2
<1> QED BY <1>5, <1>6, <1>7

LEMMA StopStep == ASSUME IInv, Stop PROVE IInv'
<1>1. TypeOK /\ Control /\ (~raced => Exchange)
  BY DEF IInv
<1>2. UNCHANGED <<history, digest, n, base, tasks, task, pc, bundle, calls, final, abandoned, raced>>
  BY DEF Stop, loopVars
<1>3. stopped' = TRUE /\ waiting' = FALSE
  BY DEF Stop
<1>4. Kept(history, digest, n, base)'
  BY <1>2, SameHistory
<1>5. TypeOK'
  BY <1>1, <1>2, <1>3 DEF TypeOK
<1>6. Control'
  BY <1>1, <1>2, <1>3 DEF Control
<1>7. ASSUME ~raced' PROVE Exchange'
  <2>1. Exchange
    BY <1>1, <1>2, <1>7
  <2>2. Heard'
    BY <1>2, <2>1 DEF Exchange, Heard, EndsWithUser
  <2>3. Current'
    BY <1>2, <2>1 DEF Exchange, Current
  <2> QED BY <1>2, <1>3, <2>1, <2>2, <2>3, SameExchange
<1> QED BY <1>4, <1>5, <1>6, <1>7 DEF IInv

\* Nothing is left of the history.
LEMMA Emptied ==
    ASSUME TypeOK, history' = <<>>, digest' = <<>>, base' = n, n' = n
    PROVE  Kept(history, digest, n, base)'
<1>1. PICK h, d, newest, gone : h = history' /\ d = digest' /\ newest = n' /\ gone = base'
  OBVIOUS
<1>2. h = <<>> /\ d = <<>> /\ newest = gone /\ newest \in Nat /\ Len(h) = 0 /\ Len(d) = 0
  BY <1>1 DEF TypeOK
<1>3. Kept(h, d, newest, gone)
  BY <1>2 DEF Kept, Numbered, DigestFits
<1> QED BY <1>1, <1>3, KeptThen

LEMMA EmptiedExchange ==
    ASSUME history' = <<>>, digest' = <<>>, calls' = <<>>, pc' = "idle", waiting' = FALSE
    PROVE  Exchange'
<1>1. PICK h, d, given, left : h = history' /\ d = digest' /\ given = abandoned' /\ left = calls'
  OBVIOUS
<1>2. Paired(h) /\ Answered(h, given, left) /\ Running(h, left) /\ TakesTurns(h, d)
  BY <1>1 DEF Paired, Answered, Running, TakesTurns
<1>3. Heard' /\ Current'
  BY DEF Heard, Current
<1> QED BY <1>1, <1>2, <1>3, ExchangeThen

LEMMA ResetStep == ASSUME IInv, Reset PROVE IInv'
<1>1. TypeOK /\ Control
  BY DEF IInv
<1>2. UNCHANGED <<n, tasks, task, pc, bundle, calls, final, abandoned>>
  BY DEF Reset, loopVars
<1>3. /\ history' = <<>> /\ digest' = <<>> /\ base' = n /\ stopped' = TRUE /\ waiting' = FALSE
      /\ raced' = (pc # "idle")
  BY DEF Reset
<1>4. <<>> \in Seq(Message) /\ <<>> \in Seq(Nat) /\ raced' \in BOOLEAN
  BY <1>3
<1>5. TypeOK'
  BY <1>1, <1>2, <1>3, <1>4 DEF TypeOK
<1>6. Control'
  BY <1>1, <1>2, <1>3 DEF Control
<1>7. Kept(history, digest, n, base)'
  BY <1>1, <1>2, <1>3, Emptied
<1>8. ASSUME ~raced' PROVE Exchange'
  <2>1. pc' = "idle" /\ calls' = <<>>
    BY <1>1, <1>2, <1>3, <1>8 DEF Control
  <2> QED BY <1>3, <2>1, EmptiedExchange
<1> QED BY <1>5, <1>6, <1>7, <1>8 DEF IInv

LEMMA RestartStep == ASSUME IInv, Restart PROVE IInv'
<1>1. TypeOK
  BY DEF IInv
<1>2. UNCHANGED <<n, tasks, abandoned>>
  BY DEF Restart
<1>3. /\ history' = <<>> /\ digest' = <<>> /\ base' = n /\ stopped' = FALSE /\ waiting' = FALSE /\ raced' = FALSE
      /\ pc' = "idle" /\ bundle' = NoBundle /\ task' = FALSE /\ calls' = <<>> /\ final' = FALSE
  BY DEF Restart
<1>4. <<>> \in Seq(Message) /\ <<>> \in Seq(Nat) /\ <<>> \in Seq(Call)
  OBVIOUS
<1>5. NoBundle \in Bundle
  BY <1>4 DEF NoBundle, Bundle
<1>6. TypeOK'
  BY <1>1, <1>2, <1>3, <1>4, <1>5 DEF TypeOK
<1>7. Control'
  BY <1>3 DEF Control
<1>8. Kept(history, digest, n, base)'
  BY <1>1, <1>2, <1>3, Emptied
<1>9. Exchange'
  BY <1>3, EmptiedExchange
<1> QED BY <1>6, <1>7, <1>8, <1>9 DEF IInv

\* The history as it was or compacted.
Compacted(h, d, g, e) ==
    \/ g = h /\ e = d
    \/ g = Compact(h, d).history /\ e = Compact(h, d).digest

LEMMA MayCompact ==
    ASSUME NEW h \in Seq(Message), NEW d \in Seq(Nat), NEW newest \in Nat, NEW gone \in Nat, Kept(h, d, newest, gone),
           NEW g, NEW e, Compacted(h, d, g, e), NEW given, NEW left
    PROVE  /\ g \in Seq(Message) /\ e \in Seq(Nat) /\ Kept(g, e, newest, gone)
           /\ Paired(h) => Paired(g)
           /\ Answered(h, given, left) => Answered(g, given, left)
           /\ TakesTurns(h, d) => TakesTurns(g, e)
           /\ TakesTurns(h, d) /\ EndsWithUser(h) => EndsWithUser(g) \/ (g = <<>> /\ e # <<>>)
<1>1. CASE g = h /\ e = d
  BY <1>1
<1>2. CASE \E r : Cuts(h, d, r, g, e)
  <2>1. PICK r : Cuts(h, d, r, g, e)
    BY <1>2
  <2>2. g \in Seq(Message)
    BY <2>1 DEF Cuts
  <2>3. e \in Seq(Nat) /\ Kept(g, e, newest, gone)
    BY <2>1, KeptCut
  <2>4. Paired(h) => Paired(g)
    BY <2>1, PairedCut
  <2>5. Answered(h, given, left) => Answered(g, given, left)
    BY <2>1, AnsweredCut
  <2>6. TakesTurns(h, d) => TakesTurns(g, e) /\ (EndsWithUser(h) => EndsWithUser(g) \/ (g = <<>> /\ e # <<>>))
    BY <2>1, TurnsCut
  <2> QED BY <2>2, <2>3, <2>4, <2>5, <2>6
<1>3. (g = h /\ e = d) \/ \E r : Cuts(h, d, r, g, e)
  BY CompactIs DEF Compacted
<1> QED BY <1>1, <1>2, <1>3

LEMMA ReceiveStep == ASSUME IInv, Receive PROVE IInv'
<1>1. TypeOK /\ Control /\ (~raced => Exchange)
  BY DEF IInv
<1>2. /\ UNCHANGED <<calls, final, stopped, waiting, tasks, base, abandoned, raced>> /\ pc = "receive" /\ pc' = "reply"
      /\ task' = FALSE /\ bundle' = NoBundle
  BY DEF Receive
<1>3. calls = <<>> /\ ~waiting
  BY <1>1, <1>2 DEF Control
<1>4. PICK h, d, newest, gone, given, left :
          h = history /\ d = digest /\ newest = n /\ gone = base /\ given = abandoned /\ left = calls
  OBVIOUS
<1>5. /\ h \in Seq(Message) /\ d \in Seq(Nat) /\ newest \in Nat /\ gone \in Nat /\ left = <<>> /\ Kept(h, d, newest, gone)
  BY <1>3, <1>4 DEF IInv, TypeOK
<1>6. PICK m : m = Item(newest + 1, "user")
  OBVIOUS
<1>7. m \in Message /\ m.n = newest + 1 /\ m.role = "user" /\ m.calls = <<>>
  BY <1>5, <1>6, ItemIs
<1>8. PICK hh, newest2 :
          /\ hh = IF task THEN Append(h, m) ELSE h
          /\ newest2 = IF task THEN newest + 1 ELSE newest
  OBVIOUS
<1>9. PICK g, e :
          /\ g = history' /\ e = digest' /\ newest2 = n'
          /\ \/ g = hh /\ e = d
             \/ g = Compact(hh, d).history /\ e = Compact(hh, d).digest
  <2>1. hh = IF task THEN Append(history, Item(n + 1, "user")) ELSE history
    BY <1>4, <1>6, <1>8
  <2>2. newest2 = n'
    BY <1>4, <1>8 DEF Receive
  <2>3. PICK long \in BOOLEAN :
           LET c == IF long THEN Compact(hh, d) ELSE [history |-> hh, digest |-> d]
           IN  history' = c.history /\ digest' = c.digest
    BY <1>4, <2>1, Zenon DEF Receive
  <2>4. CASE long
    BY <2>2, <2>3, <2>4
  <2>5. CASE ~long
    BY <2>2, <2>3, <2>5
  <2> QED BY <2>4, <2>5
<1>10. hh \in Seq(Message) /\ newest2 \in Nat /\ Kept(hh, d, newest2, gone)
  <2>1. CASE task
    <3>1. hh = Append(h, m) /\ newest2 = newest + 1
      BY <1>8, <2>1
    <3>2. Append(h, m) \in Seq(Message)
      BY <1>5, <1>7, AppendExtends
    <3>3. Kept(Append(h, m), d, newest + 1, gone)
      BY <1>5, <1>7, KeptAppend
    <3> QED BY <1>5, <3>1, <3>2, <3>3
  <2>2. CASE ~task
    BY <1>5, <1>8, <2>2
  <2> QED BY <2>1, <2>2
<1>11. /\ g \in Seq(Message) /\ e \in Seq(Nat) /\ Kept(g, e, newest2, gone)
       /\ Paired(hh) => Paired(g)
       /\ Answered(hh, given, left) => Answered(g, given, left)
       /\ TakesTurns(hh, d) => TakesTurns(g, e)
       /\ TakesTurns(hh, d) /\ EndsWithUser(hh) => EndsWithUser(g) \/ (g = <<>> /\ e # <<>>)
  <2>1. Compacted(hh, d, g, e)
    BY <1>9 DEF Compacted
  <2> QED BY <1>5, <1>10, <2>1, MayCompact, Zenon
<1>12. TypeOK'
  <2>1. bundle' \in Bundle
    BY <1>2, <1>5, BundleIs
  <2>2. history' \in Seq(Message) /\ digest' \in Seq(Nat) /\ n' \in Nat
    BY <1>9, <1>10, <1>11
  <2>3. pc' \in {"idle", "top", "chat", "receive", "reply", "tool", "append", "summary"} /\ task' \in BOOLEAN
    BY <1>2
  <2> QED BY <1>1, <1>2, <2>1, <2>2, <2>3 DEF TypeOK
<1>13. Control'
  BY <1>1, <1>2, <1>3 DEF Control
<1>14. Kept(history, digest, n, base)'
  <2>1. gone = base'
    BY <1>2, <1>4
  <2> QED BY <1>9, <1>11, <2>1, KeptThen
<1>15. ASSUME ~raced' PROVE Exchange'
  <2>1. Paired(h) /\ Answered(h, given, left) /\ TakesTurns(h, d) /\ (~task => EndsWithUser(h))
    BY <1>1, <1>2, <1>4, <1>15 DEF Exchange, Heard
  <2>2. Paired(hh) /\ Answered(hh, given, left) /\ TakesTurns(hh, d) /\ EndsWithUser(hh)
    <3>1. CASE task
      <4>1. hh = Append(h, m)
        BY <1>8, <3>1
      <4>2. Paired(hh)
        BY <1>5, <1>7, <2>1, <4>1, PairedOther
      <4>3. TakesTurns(hh, d) /\ EndsWithUser(hh)
        BY <1>5, <1>7, <2>1, <4>1, TurnsAppend
      <4>4. Extends(hh, h) /\ Len(hh) = Len(h) + 1 /\ hh[Len(h) + 1] = m /\ Len(h) \in Nat
        BY <1>5, <1>7, <4>1, AppendExtends
      <4>5. ASSUME NEW j \in (Len(h) + 1)..Len(hh) PROVE 1..Len(hh[j].calls) = {}
        <5>1. hh[j] = m
          BY <4>4
        <5> QED BY <1>7, <5>1
      <4>6. Answered(hh, given, left)
        BY <1>5, <1>10, <2>1, <4>4, <4>5, AnsweredExtends
      <4> QED BY <4>2, <4>3, <4>6
    <3>2. CASE ~task
      BY <1>8, <2>1, <3>2
    <3> QED BY <3>1, <3>2
  <2>3. Paired(g) /\ Answered(g, given, left) /\ TakesTurns(g, e) /\ (EndsWithUser(g) \/ (g = <<>> /\ e # <<>>))
    BY <1>11, <2>2
  <2>4. Running(g, left)
    BY <1>5 DEF Running
  <2>5. Heard'
    BY <1>2, <1>9, <2>3 DEF Heard, EndsWithUser
  <2>6. Current' /\ ~waiting' /\ given = abandoned' /\ left = calls'
    BY <1>2, <1>3, <1>4 DEF Current
  <2> QED BY <1>9, <2>3, <2>4, <2>5, <2>6, ExchangeThen
<1> QED BY <1>12, <1>13, <1>14, <1>15 DEF IInv

\* hh is the history with a last word of the assistant; it may be compacted.
LastWord(hh) ==
    /\ hh = Append(history, Item(n + 1, "assistant"))
    /\ \/ history' = hh /\ digest' = digest
       \/ history' = Compact(hh, digest).history /\ digest' = Compact(hh, digest).digest

\* The assistant says something without a call, then the run returns.
LEMMA LastWordStep ==
    ASSUME IInv, pc \in {"reply", "summary"}, Return, n' = n + 1,
           UNCHANGED <<task, stopped, waiting, tasks, base, raced>>,
           NEW hh, LastWord(hh)
    PROVE  IInv'
<1>1. TypeOK /\ Control /\ (~raced => Exchange)
  BY DEF IInv
<1>2. calls = <<>> /\ ~waiting /\ ~task
  BY <1>1 DEF Control
<1>3. /\ pc' = "idle" /\ calls' = <<>> /\ calls' \in Seq(Call) /\ final' = FALSE /\ final' \in BOOLEAN
      /\ bundle' \in Bundle /\ abandoned' \subseteq Nat \X Nat
  BY <1>1, ReturnIs
<1>4. PICK h, d, newest, gone, given, left :
          h = history /\ d = digest /\ newest = n /\ gone = base /\ given = abandoned /\ left = calls
  OBVIOUS
<1>5. /\ h \in Seq(Message) /\ d \in Seq(Nat) /\ newest \in Nat /\ gone \in Nat /\ left = <<>> /\ Kept(h, d, newest, gone)
  BY <1>2, <1>4 DEF IInv, TypeOK
<1>6. PICK m : m = Item(newest + 1, "assistant")
  OBVIOUS
<1>7. m \in Message /\ m.n = newest + 1 /\ m.role = "assistant" /\ m.calls = <<>>
  BY <1>5, <1>6, ItemIs
<1>8. hh = Append(h, m)
  BY <1>4, <1>6 DEF LastWord
<1>9. PICK g, e :
          /\ g = history' /\ e = digest'
          /\ \/ g = hh /\ e = d
             \/ g = Compact(hh, d).history /\ e = Compact(hh, d).digest
  BY <1>4 DEF LastWord
<1>10. hh \in Seq(Message) /\ newest + 1 \in Nat /\ Kept(hh, d, newest + 1, gone)
  BY <1>5, <1>7, <1>8, AppendExtends, KeptAppend
<1>11. /\ g \in Seq(Message) /\ e \in Seq(Nat) /\ Kept(g, e, newest + 1, gone)
       /\ Paired(hh) => Paired(g)
       /\ Answered(hh, given, left) => Answered(g, given, left)
       /\ TakesTurns(hh, d) => TakesTurns(g, e)
  <2>1. Compacted(hh, d, g, e)
    BY <1>9 DEF Compacted
  <2>2. PICK x : x = newest + 1
    OBVIOUS
  <2>3. x \in Nat /\ Kept(hh, d, x, gone)
    BY <1>10, <2>2
  <2>4. hh \in Seq(Message)
    BY <1>10
  <2>5. /\ g \in Seq(Message) /\ e \in Seq(Nat) /\ Kept(g, e, x, gone)
        /\ Paired(hh) => Paired(g)
        /\ Answered(hh, given, left) => Answered(g, given, left)
        /\ TakesTurns(hh, d) => TakesTurns(g, e)
    BY <1>5, <2>1, <2>3, <2>4, MayCompact, ZenonT(40)
  <2> QED BY <2>2, <2>5, Zenon
<1>12. TypeOK'
  <2>1. history' \in Seq(Message) /\ digest' \in Seq(Nat) /\ n' \in Nat
    BY <1>4, <1>9, <1>10, <1>11
  <2> QED BY <1>1, <1>3, <2>1 DEF TypeOK
<1>13. Control'
  BY <1>1, <1>2, <1>3 DEF Control
<1>14. Kept(history, digest, n, base)'
  <2>1. newest + 1 = n' /\ gone = base'
    BY <1>4
  <2> QED BY <1>9, <1>11, <2>1, KeptThen
<1>15. ASSUME ~raced' PROVE Exchange'
  <2>1. Paired(h) /\ Answered(h, given, left) /\ TakesTurns(h, d) /\ (EndsWithUser(h) \/ (h = <<>> /\ d # <<>>))
    BY <1>1, <1>2, <1>4, <1>15 DEF Exchange, Heard
  <2>2. Paired(hh)
    BY <1>5, <1>7, <1>8, <2>1, PairedOther
  <2>3. TakesTurns(hh, d)
    BY <1>5, <1>7, <1>8, <2>1, TurnsAppend
  <2>4. Extends(hh, h) /\ Len(hh) = Len(h) + 1 /\ hh[Len(h) + 1] = m /\ Len(h) \in Nat
    BY <1>5, <1>7, <1>8, AppendExtends
  <2>5. ASSUME NEW j \in (Len(h) + 1)..Len(hh) PROVE 1..Len(hh[j].calls) = {}
    <3>1. hh[j] = m
      BY <2>4
    <3> QED BY <1>7, <3>1
  <2>6. Answered(hh, given, left)
    BY <1>5, <1>10, <2>1, <2>4, <2>5, AnsweredExtends
  <2>7. Paired(g) /\ Answered(g, given, left) /\ TakesTurns(g, e)
    BY <1>11, <2>2, <2>3, <2>6
  <2>8. Running(g, left)
    BY <1>5 DEF Running
  <2>9. Heard' /\ Current' /\ ~waiting'
    BY <1>2, <1>3 DEF Heard, Current
  <2>10. given = abandoned' /\ left = calls'
    <3>1. abandoned' = abandoned \cup {calls[k].id : k \in 1..Len(calls)}
      BY DEF Return
    <3>2. {calls[k].id : k \in 1..Len(calls)} = {}
      BY <1>2
    <3> QED BY <1>2, <1>3, <1>4, <3>1, <3>2
  <2> QED BY <1>9, <2>7, <2>8, <2>9, <2>10, ExchangeThen
<1> QED BY <1>12, <1>13, <1>14, <1>15 DEF IInv

\* Nothing is said and the run returns.
LEMMA SilentReturnStep ==
    ASSUME IInv, pc \in {"reply", "summary"}, Return,
           UNCHANGED <<history, digest, n, task, stopped, waiting, tasks, base, raced>>
    PROVE  IInv'
<1>1. TypeOK /\ Control /\ (~raced => Exchange)
  BY DEF IInv
<1>2. calls = <<>> /\ ~waiting /\ ~task
  BY <1>1 DEF Control
<1>3. /\ pc' = "idle" /\ calls' = <<>> /\ calls' \in Seq(Call) /\ final' = FALSE /\ final' \in BOOLEAN
      /\ bundle' \in Bundle /\ abandoned' \subseteq Nat \X Nat
  BY <1>1, ReturnIs
<1>4. TypeOK'
  BY <1>1, <1>3 DEF TypeOK
<1>5. Control'
  BY <1>1, <1>2, <1>3 DEF Control
<1>6. Kept(history, digest, n, base)'
  BY SameHistory
<1>7. ASSUME ~raced' PROVE Exchange'
  <2>1. Heard' /\ Current' /\ ~waiting'
    BY <1>2, <1>3 DEF Heard, Current
  <2>2. calls' = <<>> /\ abandoned' = abandoned \cup {calls[k].id : k \in 1..Len(calls)}
    BY DEF Return
  <2> QED BY <1>1, <1>7, <2>1, <2>2, SameExchange
<1> QED BY <1>4, <1>5, <1>6, <1>7 DEF IInv

LEMMA SummaryStep == ASSUME IInv, Summary PROVE IInv'
<1>1. pc = "summary" /\ Return /\ UNCHANGED <<task, stopped, waiting, tasks, base, raced>>
  BY DEF Summary
<1>2. CASE UNCHANGED <<n, history, digest>>
  BY <1>1, <1>2, SilentReturnStep
<1>3. CASE ~UNCHANGED <<n, history, digest>>
  <2>1. PICK hh : hh = Append(history, Item(n + 1, "assistant"))
    OBVIOUS
  <2>2. n' = n + 1
    BY <1>3 DEF Summary
  <2>3. PICK long \in BOOLEAN :
           LET c == IF long THEN Compact(hh, digest) ELSE [history |-> hh, digest |-> digest]
           IN  history' = c.history /\ digest' = c.digest
    BY <1>3, <2>1, Zenon DEF Summary
  <2>4. \/ history' = hh /\ digest' = digest
        \/ history' = Compact(hh, digest).history /\ digest' = Compact(hh, digest).digest
    <3>1. CASE long
      BY <2>3, <3>1
    <3>2. CASE ~long
      BY <2>3, <3>2
    <3> QED BY <3>1, <3>2
  <2> QED BY <1>1, <2>1, <2>2, <2>4, LastWordStep DEF LastWord
<1> QED BY <1>2, <1>3

LEMMA Nought == ASSUME NEW z, z = 0, NEW L \in Nat PROVE L - z = L /\ z + L = L
OBVIOUS

\* The assistant calls tools.
LEMMA CallStep ==
    ASSUME IInv, pc = "reply", NEW cs \in Seq(STRING), NEW text \in BOOLEAN, cs # <<>>, Len(cs) <= ScanBack,
           n' = n + 1, history' = Append(history, CallItem(n + 1, cs, text)),
           calls' = [j \in 1..Len(cs) |-> [id |-> <<n + 1, j>>, tool |-> cs[j]]],
           pc' = "tool", UNCHANGED <<bundle, final, abandoned, digest, task, stopped, waiting, tasks, base, raced>>
    PROVE  IInv'
<1>1. TypeOK /\ Control /\ (~raced => Exchange)
  BY DEF IInv
<1>2. calls = <<>> /\ ~waiting /\ ~task
  BY <1>1 DEF Control
<1>3. PICK h, d, newest, gone, given, left, left2, g :
          /\ h = history /\ d = digest /\ newest = n /\ gone = base /\ given = abandoned /\ left = calls
          /\ left2 = calls' /\ g = history'
  OBVIOUS
<1>4. /\ h \in Seq(Message) /\ d \in Seq(Nat) /\ newest \in Nat /\ gone \in Nat /\ left = <<>> /\ Kept(h, d, newest, gone)
  BY <1>2, <1>3 DEF IInv, TypeOK
<1>5. PICK m : m = CallItem(newest + 1, cs, text)
  OBVIOUS
<1>6. m \in Message /\ m.n = newest + 1 /\ m.role = "assistant" /\ m.calls = cs
  BY <1>4, <1>5, CallItemIs
<1>7. g = Append(h, m)
  BY <1>3, <1>5
<1>8. PICK L \in Nat : L = Len(cs) /\ L > 0
  OBVIOUS
<1>9. left2 = [j \in 1..L |-> [id |-> <<newest + 1, j>>, tool |-> cs[j]]]
  BY <1>3, <1>8
<1>10. left2 \in Seq(Call) /\ Len(left2) = L /\ left2 # <<>>
  <2>1. ASSUME NEW j \in 1..L PROVE [id |-> <<newest + 1, j>>, tool |-> cs[j]] \in Call
    <3>1. cs[j] \in STRING /\ <<newest + 1, j>> \in Nat \X Nat
      BY <1>4, <1>8
    <3> QED BY <3>1 DEF Call
  <2>2. left2 \in Seq(Call) /\ Len(left2) = L
    BY <1>9, <2>1
  <2> QED BY <1>8, <2>2
<1>11. g \in Seq(Message) /\ Kept(g, d, newest + 1, gone) /\ newest + 1 \in Nat
  BY <1>4, <1>6, <1>7, AppendExtends, KeptAppend
<1>12. TypeOK'
  <2>1. history' \in Seq(Message) /\ n' \in Nat /\ calls' \in Seq(Call)
    BY <1>3, <1>10, <1>11
  <2>2. pc' \in {"idle", "top", "chat", "receive", "reply", "tool", "append", "summary"}
    OBVIOUS
  <2> QED BY <1>1, <2>1, <2>2 DEF TypeOK
<1>13. Control'
  BY <1>1, <1>2, <1>3, <1>10 DEF Control
<1>14. Kept(history, digest, n, base)'
  <2>1. newest + 1 = n' /\ gone = base' /\ d = digest'
    BY <1>3
  <2> QED BY <1>3, <1>11, <2>1, KeptThen
<1>15. ASSUME ~raced' PROVE Exchange'
  <2>1. Paired(h) /\ Answered(h, given, left) /\ TakesTurns(h, d) /\ (EndsWithUser(h) \/ (h = <<>> /\ d # <<>>))
    BY <1>1, <1>2, <1>3, <1>15 DEF Exchange, Heard
  <2>2. Paired(g)
    BY <1>4, <1>6, <1>7, <2>1, PairedOther
  <2>3. TakesTurns(g, d)
    BY <1>4, <1>6, <1>7, <2>1, TurnsAppend
  <2>4. Extends(g, h) /\ Len(g) = Len(h) + 1 /\ g[Len(h) + 1] = m /\ Len(h) \in Nat
    BY <1>4, <1>6, <1>7, AppendExtends
  <2>5. ASSUME NEW j \in (Len(h) + 1)..Len(g), NEW q \in 1..Len(g[j].calls) PROVE HasId(left2, <<g[j].n, q>>)
    <3>1. g[j] = m
      BY <2>4
    <3>2. q \in 1..L /\ g[j].n = newest + 1
      BY <1>6, <1>8, <3>1
    <3>3. left2[q].id = <<newest + 1, q>>
      BY <1>9, <3>2
    <3> QED BY <1>10, <3>2, <3>3 DEF HasId
  <2>6. \A id : ~HasId(left, id)
    BY <1>4 DEF HasId
  <2>7. Answered(g, given, left2)
    BY <1>4, <1>11, <2>1, <2>4, <2>5, <2>6, AnsweredExtends
  <2>8. Running(g, left2)
    <3>1. PICK i : i = Len(h) + 1
      OBVIOUS
    <3>2. i \in 1..Len(g) /\ Len(g) - i = 0 /\ g[i] = m
      BY <2>4, <3>1
    <3>3. Answering(g, i)
      BY <1>6, <1>8, <3>2 DEF Answering
    <3>4. Len(left2) = Len(g[i].calls) - (Len(g) - i)
      <4>1. Len(left2) = L /\ Len(g[i].calls) = L
        BY <1>6, <1>8, <1>10, <3>2
      <4>2. PICK z : z = Len(g) - i
        OBVIOUS
      <4>3. z = 0
        BY <3>2, <4>2, Zenon
      <4>4. L - z = L
        BY <4>3, Nought
      <4> QED BY <4>1, <4>2, <4>4, Zenon
    <3>5. ASSUME NEW k \in 1..Len(left2)
          PROVE  left2[k] = [id |-> <<g[i].n, Len(g) - i + k>>, tool |-> g[i].calls[Len(g) - i + k]]
      <4>1. k \in 1..L /\ k \in Nat
        BY <1>10
      <4>2. PICK z : z = Len(g) - i
        OBVIOUS
      <4>3. z = 0
        BY <3>2, <4>2, Zenon
      <4>4. z + k = k
        BY <4>1, <4>3, Nought
      <4>5. Len(g) - i + k = k
        BY <4>2, <4>4, Zenon
      <4>6. left2[k] = [id |-> <<newest + 1, k>>, tool |-> cs[k]]
        BY <1>9, <4>1
      <4> QED BY <1>6, <3>2, <4>5, <4>6
    <3> QED BY <3>2, <3>3, <3>4, <3>5, Zenon DEF Running
  <2>9. Heard' /\ Current' /\ ~waiting'
    BY <1>2 DEF Heard, Current
  <2>10. given = abandoned' /\ d = digest'
    BY <1>3
  <2> QED BY <1>3, <2>2, <2>3, <2>7, <2>8, <2>9, <2>10, ExchangeThen
<1> QED BY <1>12, <1>13, <1>14, <1>15 DEF IInv

LEMMA ReplyStep == ASSUME IInv, Reply PROVE IInv'
<1>1. pc = "reply" /\ UNCHANGED <<digest, task, stopped, waiting, tasks, base, raced>>
  BY DEF Reply
<1>2. PICK parts \in Answers :
          LET a == ConvertResponse(parts)
          IN  IF a.calls # <<>>
              THEN /\ n + 1 + Len(a.calls) < MaxItems
                   /\ n' = n + 1 /\ history' = Append(history, CallItem(n + 1, a.calls, a.text))
                   /\ calls' = [j \in 1..Len(a.calls) |-> [id |-> <<n + 1, j>>, tool |-> a.calls[j]]]
                   /\ pc' = "tool" /\ UNCHANGED <<bundle, attempt, final, abandoned>>
              ELSE /\ n' = IF a.text THEN n + 1 ELSE n
                   /\ n' <= MaxItems
                   /\ history' = IF a.text THEN Append(history, Item(n + 1, "assistant")) ELSE history
                   /\ Return
  BY Zenon DEF Reply
<1>3. PICK cs, text : cs = ConvertResponse(parts).calls /\ text = ConvertResponse(parts).text
  OBVIOUS
<1>4. cs \in Seq(STRING) /\ text \in BOOLEAN /\ Len(cs) <= ScanBack
  BY <1>3, ResponseIs
<1>5. CASE cs # <<>>
  <2>1. /\ n' = n + 1 /\ history' = Append(history, CallItem(n + 1, cs, text))
        /\ calls' = [j \in 1..Len(cs) |-> [id |-> <<n + 1, j>>, tool |-> cs[j]]]
        /\ pc' = "tool" /\ UNCHANGED <<bundle, final, abandoned>>
    BY <1>2, <1>3, <1>5, Zenon
  <2> QED BY <1>1, <1>4, <1>5, <2>1, CallStep
<1>6. CASE cs = <<>>
  <2>1. /\ n' = IF text THEN n + 1 ELSE n
        /\ history' = IF text THEN Append(history, Item(n + 1, "assistant")) ELSE history
        /\ Return
    BY <1>2, <1>3, <1>6, Zenon
  <2>2. CASE text
    <3>1. PICK hh : hh = Append(history, Item(n + 1, "assistant"))
      OBVIOUS
    <3>2. n' = n + 1 /\ history' = hh /\ digest' = digest
      BY <1>1, <2>1, <2>2, <3>1
    <3> QED BY <1>1, <2>1, <3>1, <3>2, LastWordStep DEF LastWord
  <2>3. CASE ~text
    <3>1. n' = n /\ history' = history
      BY <2>1, <2>3
    <3> QED BY <1>1, <2>1, <3>1, SilentReturnStep
  <2> QED BY <1>4, <2>2, <2>3
<1> QED BY <1>5, <1>6

---------------------------------------------------------------------------
(* Results *)

\* The first of the calls that are left is the next one of the item that is answered.
LEMMA NextCall ==
    ASSUME NEW h \in Seq(Message), NEW left \in Seq(Call), left # <<>>, Running(h, left)
    PROVE  \E i \in 1..Len(h) :
              /\ Answering(h, i) /\ h[i] \in Message
              /\ Len(left) = Len(h[i].calls) - (Len(h) - i)
              /\ \A k \in 1..Len(left) :
                    left[k] = [id   |-> <<h[i].n, Len(h) - i + k>>,
                               tool |-> h[i].calls[Len(h) - i + k]]
<1>1. PICK i \in 1..Len(h) :
              /\ Answering(h, i)
              /\ Len(left) = Len(h[i].calls) - (Len(h) - i)
              /\ \A k \in 1..Len(left) :
                    left[k] = [id   |-> <<h[i].n, Len(h) - i + k>>,
                               tool |-> h[i].calls[Len(h) - i + k]]
  BY Zenon DEF Running
<1>2. h[i] \in Message
  OBVIOUS
<1> QED BY <1>1, <1>2, Zenon

LEMMA ResultPaired ==
    ASSUME NEW h \in Seq(Message), NEW left \in Seq(Call), left # <<>>, Running(h, left), Paired(h),
           NEW m \in Message, m.role = "tool", m.of = left[1].id
    PROVE  Paired(Append(h, m)) /\ h # <<>>
<1>1. PICK i \in 1..Len(h) :
              /\ Answering(h, i) /\ h[i] \in Message
              /\ Len(left) = Len(h[i].calls) - (Len(h) - i)
              /\ \A k \in 1..Len(left) :
                    left[k] = [id   |-> <<h[i].n, Len(h) - i + k>>,
                               tool |-> h[i].calls[Len(h) - i + k]]
  BY NextCall
<1>2. PICK H, C, v : H = Len(h) /\ C = Len(h[i].calls) /\ v = h[i].n
  OBVIOUS
<1>a. H \in Nat
  BY <1>2
<1>b. C \in Nat /\ v \in Nat
  <2>1. h[i].n \in Nat /\ Len(h[i].calls) \in Nat
    BY <1>1, MessageIs, Zenon
  <2> QED BY <1>2, <2>1
<1>3. 1 \in 1..Len(left)
  OBVIOUS
<1>4. left[1].id = <<v, H - i + 1>>
  <2>1. left[1] = [id |-> <<v, H - i + 1>>, tool |-> h[i].calls[H - i + 1]]
    BY <1>1, <1>2, <1>3, Zenon
  <2> QED BY <2>1
<1>5. H - i + 1 \in 1..C
  <2>1. H - i < C
    BY <1>1, <1>2 DEF Answering
  <2>2. i \in 1..H
    BY <1>2
  <2> QED BY <1>a, <1>b, <2>1, <2>2
<1>6. m.of[1] = v /\ m.of[2] = H - i + 1
  BY <1>4
<1>7. PICK rs : rs = <<m>>
  OBVIOUS
<1>8. rs \in Seq(Message) /\ Len(rs) = 1 /\ rs[1] = m
  BY <1>7
<1>9. ASSUME NEW k \in 1..Len(rs)
      PROVE  /\ rs[k].role = "tool" /\ rs[k].of[1] = h[i].n
             /\ rs[k].of[2] \in (Len(h) - i + k)..Len(h[i].calls)
  <2>1. k = 1
    BY <1>8
  <2>2. m.of[2] \in (H - i + 1)..C
    BY <1>5, <1>6
  <2> QED BY <1>2, <1>6, <1>8, <2>1, <2>2
<1>10. \A k, l \in 1..Len(rs) : k < l => rs[k].of[2] < rs[l].of[2]
  BY <1>8
<1>11. Paired(h \o rs)
  BY <1>1, <1>8, <1>9, <1>10, PairedResults
<1>12. h \o rs = Append(h, m)
  BY <1>7, AppendIsConcat
<1>13. h # <<>>
  BY <1>1
<1> QED BY <1>11, <1>12, <1>13

LEMMA ResultRunning ==
    ASSUME NEW h \in Seq(Message), NEW left \in Seq(Call), left # <<>>, Running(h, left), left[1].tool # "ask",
           NEW m \in Message, m.role = "tool", m.of = left[1].id
    PROVE  Running(Append(h, m), Tail(left))
<1>1. PICK i \in 1..Len(h) :
              /\ Answering(h, i) /\ h[i] \in Message
              /\ Len(left) = Len(h[i].calls) - (Len(h) - i)
              /\ \A k \in 1..Len(left) :
                    left[k] = [id   |-> <<h[i].n, Len(h) - i + k>>,
                               tool |-> h[i].calls[Len(h) - i + k]]
  BY NextCall
<1>2. PICK g, rest : g = Append(h, m) /\ rest = Tail(left)
  OBVIOUS
<1>a. PICK H, C, L : H = Len(h) /\ C = Len(h[i].calls) /\ L = Len(left)
  OBVIOUS
<1>b. H \in Nat /\ L \in Nat /\ L > 0
  BY <1>a
<1>c. C \in Nat
  <2>1. Len(h[i].calls) \in Nat
    BY <1>1, MessageIs, Zenon
  <2> QED BY <1>a, <2>1
<1>3. /\ H \in Nat /\ C \in Nat /\ L \in Nat
      /\ H = Len(h) /\ C = Len(h[i].calls) /\ L = Len(left) /\ L > 0
  BY <1>a, <1>b, <1>c
<1>4. Len(g) = H + 1 /\ g[H + 1] = m /\ \A k \in 1..H : g[k] = h[k]
  BY <1>2, <1>3
<1>5. i \in 1..H /\ L = C - (H - i) /\ H - i < C
  BY <1>1, <1>3 DEF Answering
<1>6. Len(rest) = L - 1 /\ \A k \in 1..(L - 1) : rest[k] = left[k + 1]
  BY <1>2, <1>3
<1>7. g[i] = h[i]
  BY <1>4, <1>5
<1>8. ASSUME rest # <<>> PROVE Answering(g, i)
  <2>1. L - 1 > 0
    <3>1. rest \in Seq(Call)
      BY <1>2
    <3> QED BY <1>3, <1>6, <1>8, <3>1
  <2>2. i \in 1..Len(g) /\ Len(g) - i < Len(g[i].calls)
    BY <1>3, <1>4, <1>5, <1>7, <2>1
  <2>3. ASSUME NEW k \in 1..(Len(g) - i)
        PROVE  g[i + k].role = "tool" /\ g[i + k].of = <<g[i].n, k>> /\ g[i].calls[k] # "ask"
    <3>1. CASE k = H + 1 - i
      <4>a. i + k = H + 1
        BY <1>b, <1>5, <3>1
      <4>1. g[i + k] = m
        BY <1>4, <4>a, Zenon
      <4>2. 1 \in 1..Len(left) /\ Len(h) - i + 1 = k
        BY <1>3, <1>5, <3>1
      <4>3. left[1] = [id |-> <<h[i].n, k>>, tool |-> h[i].calls[k]]
        BY <1>1, <4>2
      <4> QED BY <1>7, <4>1, <4>3
    <3>2. CASE k # H + 1 - i
      <4>a. k \in 1..(H + 1 - i)
        <5>1. Len(g) - i = H + 1 - i
          BY <1>b, <1>4, <1>5
        <5>2. k \in 1..(Len(g) - i)
          OBVIOUS
        <5> QED BY <5>1, <5>2, Zenon
      <4>b. k \in 1..(H - i) /\ i + k \in 1..H
        BY <1>b, <1>5, <3>2, <4>a
      <4>1. k \in 1..(Len(h) - i) /\ i + k \in 1..H
        BY <1>a, <4>b, Zenon
      <4>2. g[i + k] = h[i + k]
        BY <1>4, <4>1
      <4>3. h[i + k].role = "tool" /\ h[i + k].of = <<h[i].n, k>> /\ h[i].calls[k] # "ask"
        BY <1>1, <4>1 DEF Answering
      <4> QED BY <1>7, <4>2, <4>3
    <3> QED BY <3>1, <3>2
  <2> QED BY <2>2, <2>3 DEF Answering
<1>9. Len(rest) = Len(g[i].calls) - (Len(g) - i)
  BY <1>3, <1>4, <1>5, <1>6, <1>7
<1>10. ASSUME NEW k \in 1..Len(rest)
       PROVE  rest[k] = [id |-> <<g[i].n, Len(g) - i + k>>, tool |-> g[i].calls[Len(g) - i + k]]
  <2>1. k + 1 \in 1..Len(left) /\ rest[k] = left[k + 1]
    BY <1>3, <1>6
  <2>2. Len(h) - i + (k + 1) = Len(g) - i + k
    BY <1>3, <1>4, <1>5, <1>6
  <2>3. left[k + 1] = [id |-> <<h[i].n, Len(h) - i + (k + 1)>>, tool |-> h[i].calls[Len(h) - i + (k + 1)]]
    BY <1>1, <2>1, Zenon
  <2> QED BY <1>7, <2>1, <2>2, <2>3
<1>11. i \in 1..Len(g)
  <2>1. i \in 1..(H + 1)
    BY <1>b, <1>5
  <2> QED BY <1>4, <2>1, Zenon
<1>12. Running(g, rest)
  BY <1>8, <1>9, <1>10, <1>11, Zenon DEF Running
<1> QED BY <1>2, <1>12

\* The call has its result; the calls after it are still to run, or are given up.
LEMMA ResultAnswers ==
    ASSUME NEW h \in Seq(Message), NEW left \in Seq(Call), left # <<>>, NEW given, Answered(h, given, left),
           NEW m \in Message, m.calls = <<>>, m.of = left[1].id
    PROVE  /\ Answered(Append(h, m), given, Tail(left))
           /\ Answered(Append(h, m), given \cup {left[k].id : k \in 2..Len(left)}, <<>>)
<1>1. PICK g, rest, more : g = Append(h, m) /\ rest = Tail(left) /\ more = given \cup {left[k].id : k \in 2..Len(left)}
  OBVIOUS
<1>2. g \in Seq(Message) /\ Extends(g, h) /\ Len(g) = Len(h) + 1 /\ g[Len(h) + 1] = m /\ Len(h) \in Nat
  BY <1>1, AppendExtends
<1>3. PICK L \in Nat : L = Len(left) /\ L > 0
  OBVIOUS
<1>4. Len(rest) = L - 1 /\ \A k \in 1..(L - 1) : rest[k] = left[k + 1]
  BY <1>1, <1>3
<1>5. ASSUME NEW j \in (Len(h) + 1)..Len(g), NEW given2, NEW left2, NEW q \in 1..Len(g[j].calls) PROVE HasId(left2, <<g[j].n, q>>)
  <2>1. g[j] = m
    BY <1>2
  <2> QED BY <2>1
<1>6. ASSUME NEW id, HasId(left, id), ~\E j \in (Len(h) + 1)..Len(g) : g[j].of = id
      PROVE  HasId(rest, id) /\ id \in more
  <2>1. PICK k \in 1..L : left[k].id = id
    BY <1>3, <1>6 DEF HasId
  <2>2. k # 1
    <3>1. Len(h) + 1 \in (Len(h) + 1)..Len(g)
      BY <1>2
    <3> QED BY <1>2, <1>6, <2>1, <3>1
  <2>3. k \in 2..Len(left)
    BY <1>3, <2>2
  <2>4. id \in more
    BY <1>1, <2>1, <2>3, Zenon
  <2>5. k - 1 \in 1..Len(rest) /\ rest[k - 1] = left[k]
    BY <1>3, <1>4, <2>2
  <2>6. HasId(rest, id)
    BY <2>1, <2>5 DEF HasId
  <2> QED BY <2>4, <2>6
<1>7. given \subseteq more
  BY <1>1
<1>8. Answered(g, given, rest)
  <2>1. ASSUME NEW id \in Nat \X Nat, id \in given \/ HasId(left, id)
        PROVE  \/ id \in given \/ HasId(rest, id)
               \/ \E j \in (Len(h) + 1)..Len(g) : g[j].of = id
    BY <1>6, <2>1, Zenon
  <2> QED BY <1>2, <1>5, <2>1, AnsweredExtends
<1>9. Answered(g, more, <<>>)
  <2>1. ASSUME NEW id \in Nat \X Nat, id \in given \/ HasId(left, id)
        PROVE  \/ id \in more \/ HasId(<<>>, id)
               \/ \E j \in (Len(h) + 1)..Len(g) : g[j].of = id
    BY <1>6, <1>7, <2>1, Zenon
  <2> QED BY <1>2, <1>5, <2>1, AnsweredExtends
<1> QED BY <1>1, <1>8, <1>9

LEMMA CallIs == ASSUME NEW left \in Seq(Call), NEW k \in 1..Len(left) PROVE left[k].id \in Nat \X Nat
<1>1. left[k] \in Call
  OBVIOUS
<1> QED BY <1>1 DEF Call

LEMMA AppendResultStep == ASSUME IInv, AppendResult PROVE IInv'
<1>1. TypeOK /\ Control /\ (~raced => Exchange)
  BY DEF IInv
<1>2. /\ pc = "append" /\ n' = n + 1 /\ history' = Append(history, ResultItem(n + 1, calls[1].id))
      /\ UNCHANGED <<digest, task, stopped, waiting, tasks, base, raced>>
  BY DEF AppendResult
<1>3. calls # <<>> /\ ~waiting /\ ~task /\ calls[1].tool # "ask"
  BY <1>1, <1>2 DEF Control
<1>4. PICK h, d, newest, gone, given, left, g :
          /\ h = history /\ d = digest /\ newest = n /\ gone = base /\ given = abandoned /\ left = calls
          /\ g = history'
  OBVIOUS
<1>5. /\ h \in Seq(Message) /\ d \in Seq(Nat) /\ newest \in Nat /\ gone \in Nat
      /\ left \in Seq(Call) /\ left # <<>> /\ left[1].tool # "ask" /\ Kept(h, d, newest, gone) /\ given \subseteq Nat \X Nat
  BY <1>1, <1>3, <1>4 DEF IInv, TypeOK
<1>6. PICK m : m = ResultItem(newest + 1, left[1].id)
  OBVIOUS
<1>a. left \in Seq(Call) /\ left # <<>>
  BY <1>5
<1>b. ASSUME NEW k \in 1..Len(left) PROVE left[k].id \in Nat \X Nat
  BY <1>a, CallIs
<1>7. left[1].id \in Nat \X Nat
  <2>1. 1 \in 1..Len(left)
    BY <1>a
  <2> QED BY <1>b, <2>1
<1>8. m \in Message /\ m.n = newest + 1 /\ m.role = "tool" /\ m.calls = <<>> /\ m.of = left[1].id
  <2>1. PICK k, id : k = newest + 1 /\ id = left[1].id
    OBVIOUS
  <2>2. k \in Nat /\ id \in Nat \X Nat
    BY <1>5, <1>7, <2>1
  <2>3. m = ResultItem(k, id)
    BY <1>6, <2>1, Zenon
  <2>4. m \in Message /\ m.n = k /\ m.role = "tool" /\ m.calls = <<>> /\ m.of = id
    BY <2>2, <2>3, ResultItemIs
  <2> QED BY <2>1, <2>4, Zenon
<1>9. g = Append(h, m)
  BY <1>2, <1>4, <1>6
<1>10. g \in Seq(Message) /\ Kept(g, d, newest + 1, gone) /\ newest + 1 \in Nat
  BY <1>5, <1>8, <1>9, AppendExtends, KeptAppend
<1>11. PICK L \in Nat : L = Len(left) /\ L > 0
  BY <1>5
<1>12. PICK rest : rest = Tail(left)
  OBVIOUS
<1>13. rest \in Seq(Call) /\ Len(rest) = L - 1
  BY <1>5, <1>11, <1>12
<1>14. rest = <<>> <=> L = 1
  <2>1. PICK K \in Nat : K = Len(rest) /\ (rest = <<>> <=> K = 0)
    BY <1>13
  <2> QED BY <1>11, <1>13, <2>1
<1>15. PICK more : more = given \cup {left[k].id : k \in 2..Len(left)}
  OBVIOUS
<1>16. more \subseteq Nat \X Nat
  <2>1. 2..Len(left) \subseteq 1..Len(left)
    BY <1>a
  <2> QED BY <1>5, <1>15, <1>b, <2>1, Zenon
<1>17. \/ /\ calls' = rest /\ pc' = (IF L = 1 THEN "top" ELSE "tool")
          /\ UNCHANGED <<bundle, final, abandoned>>
       \/ /\ calls' = <<>> /\ pc' = "chat" /\ final' = TRUE /\ abandoned' = more
          /\ bundle' = [digest |-> d, history |-> g, task |-> 0]
  <2>1. \/ /\ calls' = Tail(calls) /\ pc' = (IF Len(calls) = 1 THEN "top" ELSE "tool")
           /\ UNCHANGED <<bundle, final, abandoned>>
        \/ /\ pc' = "chat" /\ final' = TRUE
           /\ bundle' = [digest |-> digest, history |-> history', task |-> 0]
           /\ calls' = <<>> /\ abandoned' = abandoned \cup {calls[k].id : k \in 2..Len(calls)}
    BY DEF AppendResult
  <2> QED BY <1>4, <1>11, <1>12, <1>15, <2>1, Zenon
<1>18. Kept(history, digest, n, base)'
  <2>1. newest + 1 = n' /\ gone = base' /\ d = digest'
    BY <1>2, <1>4
  <2> QED BY <1>4, <1>10, <2>1, KeptThen
<1>19. history' \in Seq(Message) /\ n' \in Nat
  BY <1>2, <1>4, <1>10
<1>20. ASSUME ~raced'
       PROVE  /\ Paired(g) /\ TakesTurns(g, d) /\ EndsWithUser(g) /\ Running(g, rest)
              /\ Answered(g, given, rest) /\ Answered(g, more, <<>>)
  <2>1. Paired(h) /\ Answered(h, given, left) /\ TakesTurns(h, d) /\ Running(h, left)
    BY <1>1, <1>2, <1>4, <1>20 DEF Exchange
  <2>2. Paired(g) /\ h # <<>>
    BY <1>5, <1>8, <1>9, <2>1, ResultPaired
  <2>3. Running(g, rest)
    BY <1>5, <1>8, <1>9, <1>12, <2>1, ResultRunning
  <2>4. Answered(g, given, rest) /\ Answered(g, more, <<>>)
    BY <1>5, <1>8, <1>9, <1>12, <1>15, <2>1, ResultAnswers
  <2>5. TakesTurns(g, d) /\ EndsWithUser(g)
    BY <1>5, <1>8, <1>9, <2>1, <2>2, TurnsAppend
  <2> QED BY <2>2, <2>3, <2>4, <2>5
<1>21. CASE /\ calls' = rest /\ pc' = (IF L = 1 THEN "top" ELSE "tool")
            /\ UNCHANGED <<bundle, final, abandoned>>
  <2>1. pc' \in {"top", "tool"} /\ (pc' = "tool" <=> rest # <<>>)
    BY <1>14, <1>21
  <2>2. TypeOK'
    <3>1. calls' \in Seq(Call)
      BY <1>13, <1>21
    <3>2. pc' \in {"idle", "top", "chat", "receive", "reply", "tool", "append", "summary"}
      BY <2>1
    <3> QED BY <1>1, <1>2, <1>19, <1>21, <3>1, <3>2 DEF TypeOK
  <2>3. Control'
    BY <1>2, <1>3, <1>21, <2>1 DEF Control
  <2>4. ASSUME ~raced' PROVE Exchange'
    <3>1. Heard'
      <4>1. EndsWithUser(g)
        BY <1>20, <2>4
      <4>2. EndsWithUser(history)'
        BY <1>4, <4>1 DEF EndsWithUser
      <4> QED BY <2>1, <4>2 DEF Heard
    <3>2. Current' /\ ~waiting'
      BY <1>2, <1>3, <2>1 DEF Current
    <3>3. given = abandoned' /\ rest = calls' /\ d = digest'
      BY <1>2, <1>4, <1>21
    <3> QED BY <1>4, <1>20, <2>4, <3>1, <3>2, <3>3, ExchangeThen
  <2> QED BY <1>18, <2>2, <2>3, <2>4 DEF IInv
<1>22. CASE /\ calls' = <<>> /\ pc' = "chat" /\ final' = TRUE /\ abandoned' = more
            /\ bundle' = [digest |-> d, history |-> g, task |-> 0]
  <2>1. TypeOK'
    <3>1. calls' \in Seq(Call) /\ abandoned' \subseteq Nat \X Nat
      BY <1>16, <1>22
    <3>2. pc' \in {"idle", "top", "chat", "receive", "reply", "tool", "append", "summary"}
      BY <1>22
    <3>3. bundle' \in Bundle
      BY <1>5, <1>10, <1>22, BundleIs
    <3>4. final' \in BOOLEAN
      BY <1>22
    <3> QED BY <1>1, <1>2, <1>19, <3>1, <3>2, <3>3, <3>4 DEF TypeOK
  <2>2. Control'
    BY <1>2, <1>3, <1>22 DEF Control
  <2>3. ASSUME ~raced' PROVE Exchange'
    <3>1. Heard'
      <4>1. EndsWithUser(g)
        BY <1>20, <2>3
      <4>2. EndsWithUser(history)'
        BY <1>4, <4>1 DEF EndsWithUser
      <4> QED BY <1>22, <4>2 DEF Heard
    <3>2. ~task' /\ d = digest' /\ g = history'
      BY <1>2, <1>3, <1>4
    <3>3. Current' /\ ~waiting'
      BY <1>2, <1>3, <1>22, <3>2 DEF Current
    <3>4. PICK none : none = <<>>
      OBVIOUS
    <3>5. more = abandoned' /\ none = calls' /\ d = digest'
      BY <1>22, <3>2, <3>4
    <3>6. Running(g, none)
      BY <3>4 DEF Running
    <3>7. Answered(g, more, none)
      BY <1>20, <2>3, <3>4
    <3> QED BY <1>4, <1>20, <2>3, <3>1, <3>3, <3>5, <3>6, <3>7, ExchangeThen
  <2> QED BY <1>18, <2>1, <2>2, <2>3 DEF IInv
<1> QED BY <1>17, <1>21, <1>22

---------------------------------------------------------------------------
(* Answers of the user *)

\* The items that ask the user something, and the questions of one that are open.
AskingAt(h) == {i \in 1..Len(h) : \E j \in 1..Len(h[i].calls) : h[i].calls[j] = "ask"}

OpenAt(h, m) == {j \in 1..Len(m.calls) : m.calls[j] = "ask" /\ \A i \in 1..Len(h) : h[i].of # <<m.n, j>>}

LEMMA AskingIs ==
    ASSUME NEW h \in Seq(Message), AskingAt(h) # {}
    PROVE  /\ Max(AskingAt(h)) \in 1..Len(h) /\ Max(AskingAt(h)) \in AskingAt(h)
           /\ \A y \in AskingAt(h) : Max(AskingAt(h)) >= y
           /\ h[Max(AskingAt(h))] \in Message
<1>1. PICK S, N : S = AskingAt(h) /\ N = Len(h)
  OBVIOUS
<1>2. N \in Nat /\ S \subseteq 1..N /\ S # {}
  BY <1>1 DEF AskingAt
<1>3. S \subseteq 0..N
  BY <1>2
<1>4. Max(S) \in S /\ \A y \in S : Max(S) >= y
  BY <1>2, <1>3, MaxIs
<1>5. Max(S) \in 1..Len(h)
  BY <1>1, <1>2, <1>4
<1> QED BY <1>1, <1>4, <1>5

LEMMA OpenIs ==
    ASSUME NEW h, NEW m \in Message, NEW N, N = Len(m.calls)
    PROVE  /\ OpenAt(h, m) \subseteq 1..N /\ N \in Nat
           /\ Lists(Places(m.calls, OpenAt(h, m)), OpenAt(h, m), N)
<1>1. PICK S : S = OpenAt(h, m)
  OBVIOUS
<1>2. N \in Nat
  BY MessageIs
<1>3. S \subseteq 1..N
  BY <1>1 DEF OpenAt
<1>4. Lists(Places(m.calls, S), S, N)
  BY <1>2, <1>3, PlacesAre
<1> QED BY <1>1, <1>2, <1>3, <1>4

\* The results that the user's answer becomes.
Gives(rs, m, open, newest) ==
    /\ rs \in Seq(Message) /\ Len(rs) = Len(open) /\ Len(open) \in Nat
    /\ \A k \in 1..Len(open) :
          /\ rs[k].n = newest + k /\ rs[k].role = "tool" /\ rs[k].calls = <<>>
          /\ rs[k].of = <<m.n, open[k]>>

LEMMA AnswersAre ==
    ASSUME NEW m \in Message, NEW N \in Nat, NEW S, S \subseteq 1..N, NEW open, Lists(open, S, N), NEW newest \in Nat,
           NEW rs, rs = [k \in 1..Len(open) |-> ResultItem(newest + k, <<m.n, open[k]>>)]
    PROVE  Gives(rs, m, open, newest)
<1>1. PICK K \in Nat : K = Len(open)
  BY DEF Lists
<1>2. \A k \in 1..K : open[k] \in Nat
  BY <1>1 DEF Lists
<1>3. rs = [k \in 1..K |-> ResultItem(newest + k, <<m.n, open[k]>>)]
  BY <1>1
<1>4. ASSUME NEW k \in 1..K
      PROVE  /\ rs[k] \in Message /\ rs[k].n = newest + k /\ rs[k].role = "tool" /\ rs[k].calls = <<>>
             /\ rs[k].of = <<m.n, open[k]>>
  <2>1. PICK r, x, id : r = rs[k] /\ x = newest + k /\ id = <<m.n, open[k]>>
    OBVIOUS
  <2>2. x \in Nat
    BY <2>1
  <2>3. id \in Nat \X Nat
    BY <1>2, <2>1, MessageIs
  <2>4. r = ResultItem(x, id)
    BY <1>3, <2>1, Zenon
  <2>5. r \in Message /\ r.n = x /\ r.role = "tool" /\ r.calls = <<>> /\ r.of = id
    BY <2>2, <2>3, <2>4, ResultItemIs
  <2> QED BY <2>1, <2>5, Zenon
<1>5. rs \in Seq(Message) /\ Len(rs) = K
  <2>1. \A k \in 1..K : rs[k] \in Message
    BY <1>4
  <2>2. rs \in [1..K -> Message]
    BY <1>3, <2>1
  <2> QED BY <2>2
<1> QED BY <1>1, <1>4, <1>5 DEF Gives

\* The last item that asks is the one the run stopped at, and its questions have no
\* result yet.
LEMMA AskedLast ==
    ASSUME NEW h \in Seq(Message), Asking(h)
    PROVE  \E i \in 1..Len(h) :
              /\ Answering(h, i) /\ h[i] \in Message
              /\ AskingAt(h) # {} /\ Max(AskingAt(h)) = i
              /\ OpenAt(h, h[i]) \subseteq (Len(h) - i + 1)..Len(h[i].calls)
<1>1. PICK i \in 1..Len(h) : Answering(h, i) /\ h[i].calls[Len(h) - i + 1] = "ask"
  BY DEF Asking
<1>2. h[i] \in Message
  OBVIOUS
<1>3. PICK H \in Nat : H = Len(h)
  OBVIOUS
<1>4. PICK C \in Nat : C = Len(h[i].calls)
  BY <1>2, MessageIs
<1>5. /\ i \in 1..H /\ H - i < C
      /\ \A k \in 1..(H - i) : h[i + k].role = "tool" /\ h[i].calls[k] # "ask"
  BY <1>1, <1>3, <1>4 DEF Answering
<1>6. i \in AskingAt(h)
  <2>1. Len(h) - i + 1 \in 1..Len(h[i].calls)
    BY <1>3, <1>4, <1>5
  <2> QED BY <1>1, <2>1 DEF AskingAt
<1>7. ASSUME NEW y \in AskingAt(h) PROVE y <= i
  <2>1. y \in 1..H /\ h[y].calls # <<>>
    BY <1>3 DEF AskingAt
  <2>2. ASSUME y > i PROVE FALSE
    <3>1. y - i \in 1..(H - i) /\ i + (y - i) = y
      BY <1>5, <2>1, <2>2
    <3>2. h[y].role = "tool"
      BY <1>5, <3>1
    <3>3. h[y] \in Message
      BY <1>3, <2>1
    <3> QED BY <2>1, <3>2, <3>3 DEF Message
  <2> QED BY <1>5, <2>1, <2>2
<1>8. Max(AskingAt(h)) = i
  <2>1. Max(AskingAt(h)) \in AskingAt(h) /\ Max(AskingAt(h)) >= i /\ Max(AskingAt(h)) \in 1..Len(h)
    BY <1>6, AskingIs
  <2>2. Max(AskingAt(h)) <= i
    BY <1>7, <2>1
  <2> QED BY <1>3, <2>1, <2>2
<1>9. ASSUME NEW j \in OpenAt(h, h[i]) PROVE j \in (Len(h) - i + 1)..Len(h[i].calls)
  <2>1. j \in 1..C /\ h[i].calls[j] = "ask"
    BY <1>4 DEF OpenAt
  <2>2. ~(j \in 1..(H - i))
    BY <1>5, <2>1
  <2> QED BY <1>3, <1>4, <1>5, <2>1, <2>2
<1> QED BY <1>1, <1>2, <1>6, <1>8, <1>9

LEMMA ProvidedPaired ==
    ASSUME NEW h \in Seq(Message), Paired(h), NEW i \in 1..Len(h), Answering(h, i), NEW m \in Message, m = h[i],
           NEW N \in Nat, N = Len(m.calls), NEW S, S \subseteq (Len(h) - i + 1)..N, NEW open, Lists(open, S, N),
           NEW newest \in Nat, NEW rs, Gives(rs, m, open, newest)
    PROVE  Paired(h \o rs)
<1>1. PICK p \in Nat : p = Len(h) - i
  OBVIOUS
<1>2. S \subseteq (p + 1)..N
  BY <1>1
<1>3. \A k \in 1..Len(open) : open[k] >= p + k
  BY <1>2, PlacesApart
<1>4. rs \in Seq(Message) /\ Len(rs) = Len(open)
  BY DEF Gives
<1>5. ASSUME NEW k \in 1..Len(rs)
      PROVE  /\ rs[k].role = "tool" /\ rs[k].of[1] = h[i].n /\ rs[k].of[2] = open[k]
             /\ rs[k].of[2] \in (Len(h) - i + k)..Len(h[i].calls)
  <2>1. k \in 1..Len(open) /\ k \in Nat
    BY <1>4
  <2>2. rs[k].role = "tool" /\ rs[k].of = <<m.n, open[k]>>
    BY <2>1, Zenon DEF Gives
  <2>3. rs[k].of[1] = m.n /\ rs[k].of[2] = open[k]
    BY <2>2
  <2>4. open[k] >= p + k /\ open[k] <= N /\ open[k] \in Nat
    BY <1>3, <2>1, SMTT(40) DEF Lists
  <2>5. open[k] \in (p + k)..N
    BY <2>1, <2>4
  <2> QED BY <1>1, <2>2, <2>3, <2>5, Zenon
<1>6. ASSUME NEW k \in 1..Len(rs), NEW l \in 1..Len(rs), k < l PROVE rs[k].of[2] < rs[l].of[2]
  <2>1. open[k] < open[l]
    BY <1>4, <1>6 DEF Lists
  <2> QED BY <1>5, <2>1
<1> QED BY <1>4, <1>5, <1>6, PairedResults

\* less has what is given without the open calls.
Without(less, given, m, open) == less = given \ {<<m.n, open[k]>> : k \in 1..Len(open)}

LEMMA ProvidedAnswers ==
    ASSUME NEW h \in Seq(Message), NEW given, Answered(h, given, <<>>), NEW m, NEW open, NEW newest \in Nat,
           NEW rs, Gives(rs, m, open, newest), NEW less, Without(less, given, m, open)
    PROVE  Answered(h \o rs, less, <<>>)
<1>1. PICK g : g = h \o rs
  OBVIOUS
<1>2. PICK R \in Nat, H \in Nat : H = Len(h) /\ R = Len(rs)
  BY DEF Gives
<1>3. /\ g \in Seq(Message) /\ Extends(g, h) /\ Len(g) = H + R
      /\ \A k \in 1..R : g[H + k] = rs[k]
  <2>1. rs \in Seq(Message)
    BY DEF Gives
  <2> QED BY <1>1, <1>2, <2>1, ConcatExtends
<1>4. ASSUME NEW id \in Nat \X Nat, id \in given \/ HasId(<<>>, id)
      PROVE  \/ id \in less \/ HasId(<<>>, id)
             \/ \E j \in (Len(h) + 1)..Len(g) : g[j].of = id
  <2>1. ~HasId(<<>>, id)
    BY DEF HasId
  <2>2. ASSUME ~(id \in less) PROVE \E j \in (Len(h) + 1)..Len(g) : g[j].of = id
    <3>1. PICK k \in 1..Len(open) : id = <<m.n, open[k]>>
      BY <1>4, <2>1, <2>2, Zenon DEF Without
    <3>2. rs[k].of = id
      BY <3>1 DEF Gives
    <3>3. k \in 1..R
      BY <1>2 DEF Gives
    <3>4. H + k \in (Len(h) + 1)..Len(g) /\ g[H + k] = rs[k]
      BY <1>2, <1>3, <3>3
    <3> QED BY <3>2, <3>4
  <2> QED BY <2>2
<1>5. ASSUME NEW j \in (Len(h) + 1)..Len(g), NEW q \in 1..Len(g[j].calls) PROVE HasId(<<>>, <<g[j].n, q>>)
  <2>1. j - H \in 1..R /\ H + (j - H) = j
    BY <1>2, <1>3
  <2>2. g[j] = rs[j - H]
    BY <1>3, <2>1
  <2>3. rs[j - H].calls = <<>>
    BY <1>2, <2>1 DEF Gives
  <2> QED BY <2>2, <2>3
<1>6. Answered(g, less, <<>>)
  BY <1>3, <1>4, <1>5, AnsweredExtends
<1> QED BY <1>1, <1>6

\* The question stays open when it has got no result; nobody waits for it any more.
LEMMA NotProvidedStep ==
    ASSUME IInv, pc = "idle", waiting' = FALSE,
           UNCHANGED <<history, n, pc, task, stopped, abandoned, digest, bundle, calls, final, tasks, base, raced>>
    PROVE  IInv'
<1>1. TypeOK /\ Control /\ (~raced => Exchange)
  BY DEF IInv
<1>2. TypeOK'
  BY <1>1 DEF TypeOK
<1>3. Control'
  BY <1>1 DEF Control
<1>4. Kept(history, digest, n, base)'
  BY SameHistory
<1>5. ASSUME ~raced' PROVE Exchange'
  <2>1. Heard' /\ Current'
    BY DEF Heard, Current
  <2> QED BY <1>1, <1>5, <2>1, SameExchange
<1> QED BY <1>2, <1>3, <1>4, <1>5 DEF IInv

LEMMA ProvideStep == ASSUME IInv, ProvideAskUserResult PROVE IInv'
<1>1. TypeOK /\ Control /\ (~raced => Exchange)
  BY DEF IInv
<1>2. PICK h, d, newest, gone, given, left :
          h = history /\ d = digest /\ newest = n /\ gone = base /\ given = abandoned /\ left = calls
  OBVIOUS
<1>3. PICK m, open : m = h[Max(AskingAt(h))] /\ open = Places(m.calls, OpenAt(h, m))
  OBVIOUS
<1>4. PICK rs : rs = [k \in 1..Len(open) |-> ResultItem(newest + k, <<m.n, open[k]>>)]
  OBVIOUS
<1>5. /\ pc = "idle" /\ waiting /\ waiting' = FALSE
      /\ UNCHANGED <<digest, bundle, calls, final, tasks, base, raced>>
      /\ IF AskingAt(h) = {} \/ open = <<>>
         THEN UNCHANGED <<history, n, pc, task, stopped, abandoned>>
         ELSE /\ history' = h \o rs /\ n' = newest + Len(open)
              /\ abandoned' = given \ {<<m.n, open[k]>> : k \in 1..Len(open)}
              /\ pc' = "top" /\ task' = FALSE /\ stopped' = FALSE
  <2>1. LET a == history[Max(AskingAt(history))]
            o == Places(a.calls, OpenAt(history, a))
        IN  /\ pc = "idle" /\ waiting /\ waiting' = FALSE
            /\ UNCHANGED <<digest, bundle, calls, final, tasks, base, raced>>
            /\ IF AskingAt(history) = {} \/ o = <<>>
               THEN UNCHANGED <<history, n, pc, task, stopped, abandoned>>
               ELSE /\ history' = history \o [k \in 1..Len(o) |-> ResultItem(n + k, <<a.n, o[k]>>)]
                    /\ n' = n + Len(o)
                    /\ abandoned' = abandoned \ {<<a.n, o[k]>> : k \in 1..Len(o)}
                    /\ pc' = "top" /\ task' = FALSE /\ stopped' = FALSE
    BY Zenon DEF ProvideAskUserResult, AskingAt, OpenAt
  <2> QED BY <1>2, <1>3, <1>4, <2>1, Zenon
<1>6. CASE AskingAt(h) = {} \/ open = <<>>
  BY <1>5, <1>6, NotProvidedStep
<1>7. CASE AskingAt(h) # {} /\ open # <<>>
  <2>1. /\ h \in Seq(Message) /\ d \in Seq(Nat) /\ newest \in Nat /\ gone \in Nat /\ left = <<>>
        /\ given \subseteq Nat \X Nat /\ Kept(h, d, newest, gone)
    BY <1>1, <1>2, <1>5 DEF IInv, TypeOK, Control
  <2>2. PICK g, K, less : g = h \o rs /\ K = Len(open) /\ less = given \ {<<m.n, open[k]>> : k \in 1..Len(open)}
    OBVIOUS
  <2>3. /\ history' = g /\ n' = newest + K /\ abandoned' = less
        /\ pc' = "top" /\ task' = FALSE /\ stopped' = FALSE
    BY <1>5, <1>7, <2>2
  <2>4. m \in Message
    BY <1>3, <1>7, <2>1, AskingIs
  <2>5. PICK N : N = Len(m.calls)
    OBVIOUS
  <2>6. OpenAt(h, m) \subseteq 1..N /\ N \in Nat /\ Lists(open, OpenAt(h, m), N)
    BY <1>3, <2>4, <2>5, OpenIs
  <2>7. Gives(rs, m, open, newest)
    BY <1>4, <2>1, <2>4, <2>6, AnswersAre
  <2>8. rs \in Seq(Message) /\ Len(rs) = K /\ K \in Nat
    BY <2>2, <2>7 DEF Gives
  <2>9. g \in Seq(Message)
    BY <2>1, <2>2, <2>8, ConcatExtends
  <2>10. Kept(g, d, newest + K, gone)
    <3>1. \A k \in 1..Len(rs) : rs[k].n = newest + k
      BY <2>2, <2>7, <2>8 DEF Gives
    <3>2. Kept(h \o rs, d, newest + Len(rs), gone)
      BY <2>1, <2>8, <3>1, KeptConcat
    <3> QED BY <2>2, <2>8, <3>2
  <2>11. Kept(history, digest, n, base)'
    <3>1. g = history' /\ newest + K = n' /\ gone = base' /\ d = digest'
      BY <1>2, <1>5, <2>3
    <3> QED BY <2>10, <3>1, KeptThen
  <2>12. TypeOK'
    <3>1. history' \in Seq(Message) /\ n' \in Nat /\ abandoned' \subseteq Nat \X Nat
      BY <2>1, <2>2, <2>3, <2>8, <2>9
    <3>2. task' \in BOOLEAN /\ stopped' \in BOOLEAN /\ waiting' \in BOOLEAN
      BY <1>5, <2>3
    <3>3. pc' \in {"idle", "top", "chat", "receive", "reply", "tool", "append", "summary"}
      BY <2>3
    <3> QED BY <1>1, <1>5, <3>1, <3>2, <3>3 DEF TypeOK
  <2>13. Control'
    BY <1>1, <1>5, <2>3 DEF Control
  <2>14. ASSUME ~raced' PROVE Exchange'
    <3>1. Paired(h) /\ Answered(h, given, <<>>) /\ TakesTurns(h, d) /\ Asking(h)
      BY <1>1, <1>2, <1>5, <2>1, <2>14 DEF Exchange
    <3>2. PICK i \in 1..Len(h) :
              /\ Answering(h, i) /\ h[i] \in Message
              /\ AskingAt(h) # {} /\ Max(AskingAt(h)) = i
              /\ OpenAt(h, h[i]) \subseteq (Len(h) - i + 1)..Len(h[i].calls)
      BY <2>1, <3>1, AskedLast
    <3>3. m = h[i] /\ OpenAt(h, m) \subseteq (Len(h) - i + 1)..N
      BY <1>3, <2>5, <3>2, Zenon
    <3>4. Paired(g)
      BY <2>1, <2>2, <2>4, <2>5, <2>6, <2>7, <3>1, <3>2, <3>3, ProvidedPaired
    <3>5. Answered(g, less, <<>>)
      <4>a. Without(less, given, m, open)
        BY <2>2, Zenon DEF Without
      <4>1. Answered(h \o rs, less, <<>>)
        BY <2>1, <2>7, <3>1, <4>a, ProvidedAnswers
      <4> QED BY <2>2, <4>1, Zenon
    <3>6. h # <<>> /\ rs # <<>>
      <4>1. Len(rs) > 0
        <5>1. open \in Seq(Nat)
          BY <2>6 DEF Lists
        <5> QED BY <1>7, <2>2, <2>8, <5>1
      <4> QED BY <3>2, <4>1
    <3>7. \A k \in 1..Len(rs) : rs[k].role = "tool"
      BY <2>2, <2>7, <2>8 DEF Gives
    <3>8. TakesTurns(g, d) /\ EndsWithUser(g)
      BY <2>1, <2>2, <2>8, <3>1, <3>6, <3>7, TurnsResults
    <3>9. Heard'
      <4>1. EndsWithUser(history)'
        BY <2>3, <3>8 DEF EndsWithUser
      <4> QED BY <2>3, <4>1 DEF Heard
    <3>10. Current' /\ ~waiting'
      BY <1>5, <2>3 DEF Current
    <3>11. PICK none : none = <<>>
      OBVIOUS
    <3>12. Running(g, none) /\ Answered(g, less, none)
      BY <3>5, <3>11 DEF Running
    <3>13. g = history' /\ d = digest' /\ less = abandoned' /\ none = calls'
      BY <1>2, <1>5, <2>1, <2>3, <3>11
    <3> QED BY <3>4, <3>8, <3>9, <3>10, <3>12, <3>13, ExchangeThen
  <2> QED BY <2>11, <2>12, <2>13, <2>14 DEF IInv
<1> QED BY <1>6, <1>7

---------------------------------------------------------------------------
(* The theorems *)

LEMMA SilenceStep == ASSUME IInv, UNCHANGED vars PROVE IInv'
<1>1. TypeOK /\ Control /\ (~raced => Exchange)
  BY DEF IInv
<1>2. UNCHANGED <<history, digest, pc, bundle, task, calls, final, stopped, waiting, n, tasks, base, abandoned, raced>>
  BY DEF vars
<1>3. TypeOK'
  BY <1>1, <1>2 DEF TypeOK
<1>4. Control'
  BY <1>1, <1>2 DEF Control
<1>5. Kept(history, digest, n, base)'
  BY <1>2, SameHistory
<1>6. ASSUME ~raced' PROVE Exchange'
  <2>1. Exchange
    BY <1>1, <1>2, <1>6
  <2>2. Heard' /\ Current'
    BY <1>2, <2>1 DEF Exchange, Heard, Current, EndsWithUser
  <2>3. waiting' => Asking(history)
    BY <1>2, <2>1 DEF Exchange
  <2> QED BY <1>2, <2>1, <2>2, <2>3, SameExchange
<1> QED BY <1>3, <1>4, <1>5, <1>6 DEF IInv

\* IInv is preserved by every step of the engine, of the user and of the server.
LEMMA NextStep == ASSUME IInv, [Next]_vars PROVE IInv'
<1>1. CASE StartRun
  BY <1>1, StartRunStep
<1>2. CASE ProvideAskUserResult
  BY <1>2, ProvideStep
<1>3. CASE LoopTop
  BY <1>3, LoopTopStep
<1>4. CASE ChatWithTools
  BY <1>4, ChatStep
<1>5. CASE Receive
  BY <1>5, ReceiveStep
<1>6. CASE Reply
  BY <1>6, ReplyStep
<1>7. CASE RunTool
  BY <1>7, RunToolStep
<1>8. CASE AppendResult
  BY <1>8, AppendResultStep
<1>9. CASE Summary
  BY <1>9, SummaryStep
<1>10. CASE Stop
  BY <1>10, StopStep
<1>11. CASE Reset
  BY <1>11, ResetStep
<1>12. CASE Restart
  BY <1>12, RestartStep
<1>13. CASE UNCHANGED vars
  BY <1>13, SilenceStep
<1> QED BY <1>1, <1>2, <1>3, <1>4, <1>5, <1>6, <1>7, <1>8, <1>9, <1>10, <1>11, <1>12, <1>13 DEF Next, Step

\* The history, the digest and the request under way have their types, and the place of
\* the loop says what is left of an answer and of a task, for every engine that
\* agent/engine.go runs.
THEOREM TypeCorrect == Spec => [](TypeOK /\ Control)
<1>1. IInv => TypeOK /\ Control
  BY DEF IInv
<1> QED BY <1>1, InitHolds, NextStep, PTL DEF Spec

\* Every request is one the interfaces accept: a result of a tool comes right after the
\* message with its call and once, and a call has its result unless it was given up,
\* whatever adjustCompactionBoundary has cut, whatever was stopped, asked or finalized.
THEOREM RequestsWellFormed == Spec => []RequestWellFormed
<1>1. ASSUME IInv, pc = "chat", ~raced
      PROVE  LET h == bundle.history IN
             /\ \A j \in 1..Len(h) : h[j].role = "tool" =>
                   /\ \E i \in 1..(j - 1) :
                         /\ h[j].of \in CallIds(h[i])
                         /\ \A k \in (i + 1)..j : h[k].role = "tool"
                   /\ \A k \in 1..(j - 1) : h[k].of # h[j].of
             /\ \A i \in 1..Len(h) : \A id \in CallIds(h[i]) :
                   id \in abandoned \/ \E j \in (i + 1)..Len(h) : h[j].of = id
  <2>1. PICK h, d, newest, gone, given :
            h = history /\ d = digest /\ newest = n /\ gone = base /\ given = abandoned
    OBVIOUS
  <2>2. calls = <<>> /\ bundle.history = history
    <3>1. calls = <<>>
      BY <1>1 DEF IInv, Control
    <3>2. bundle = [digest |-> digest, history |-> history, task |-> IF task THEN MaxItems + tasks ELSE 0]
      BY <1>1, Zenon DEF IInv, Exchange, Current
    <3> QED BY <3>1, <3>2
  <2>3. /\ h \in Seq(Message) /\ newest \in Nat /\ gone \in Nat /\ Numbered(h, d, newest, gone)
        /\ Paired(h) /\ Answered(h, given, <<>>)
    BY <1>1, <2>1, <2>2 DEF IInv, TypeOK, Kept, Exchange
  <2>4. \A j \in 1..Len(h) : h[j].role = "tool" =>
           /\ \E i \in 1..(j - 1) : h[j].of \in CallIds(h[i]) /\ \A k \in (i + 1)..j : h[k].role = "tool"
           /\ \A k \in 1..(j - 1) : h[k].of # h[j].of
    BY <2>3, PairedOnce, Zenon
  <2>5. ASSUME NEW i \in 1..Len(h), NEW id \in CallIds(h[i])
        PROVE  id \in given \/ \E j \in (i + 1)..Len(h) : h[j].of = id
    <3>1. PICK q \in 1..Len(h[i].calls) : id = <<h[i].n, q>>
      BY DEF CallIds
    <3>2. \A k : ~(k \in 1..Len(<<>>))
      OBVIOUS
    <3> QED BY <2>3, <3>1, <3>2, Zenon DEF Answered
  <2>6. bundle.history = h /\ abandoned = given
    BY <2>1, <2>2
  <2>7. \A i \in 1..Len(h) : \A id \in CallIds(h[i]) :
           id \in given \/ \E j \in (i + 1)..Len(h) : h[j].of = id
    BY <2>5, Zenon
  <2> QED BY <2>4, <2>6, <2>7
<1>2. IInv => RequestWellFormed
  BY <1>1, Zenon DEF RequestWellFormed
<1> QED BY <1>2, InitHolds, NextStep, PTL DEF Spec

\* However often compactMessagesLocked has run, digest and history have every item since
\* the last reset in order but for those a remark stands for, and the newest are always
\* there as they were.
THEOREM NothingIsForgotten == Spec => []NothingForgotten
<1>1. ASSUME IInv PROVE NothingForgotten
  <2>1. PICK h, d, newest, gone : h = history /\ d = digest /\ newest = n /\ gone = base
    OBVIOUS
  <2>2. /\ h \in Seq(Message) /\ d \in Seq(Nat) /\ newest \in Nat /\ gone \in Nat /\ Kept(h, d, newest, gone)
    BY <1>1, <2>1 DEF IInv, TypeOK
  <2>3. /\ \A k \in (gone + 1)..newest : newest - k < Window => \E i \in 1..Len(h) : h[i].n = k
        /\ InOrder(d \o [i \in 1..Len(h) |-> h[i].n], gone)
    BY <2>2, AllKept, Zenon
  <2>4. InOrder(digest \o [i \in 1..Len(history) |-> history[i].n], base)
    BY <2>1, <2>3, Zenon
  <2> QED BY <2>1, <2>3, <2>4, Zenon DEF NothingForgotten, InOrder
<1> QED BY <1>1, InitHolds, NextStep, PTL DEF Spec

\* buildResponsesRequest, buildChatCompletionsRequest and buildAnthropicMessages say the
\* same in the same order, of every request, also of one that a reset has overtaken.
THEOREM FormatsAgree == Spec => []WireFormatsAgree
<1>1. ASSUME IInv PROVE WireFormatsAgree
  <2>1. PICK b : b = bundle
    OBVIOUS
  <2>2. b \in Bundle
    BY <1>1, <2>1 DEF IInv, TypeOK
  <2>3. /\ Contents(BuildChatCompletionsRequest(b)) = BuildResponsesRequest(b)
        /\ Contents(BuildAnthropicMessages(b)) = BuildResponsesRequest(b)
    BY <2>2, ChatSays, AnthropicSays
  <2> QED BY <2>1, <2>3, Zenon DEF WireFormatsAgree
<1> QED BY <1>1, InitHolds, NextStep, PTL DEF Spec

\* To Anthropic the user speaks first and last and the roles take turns: the assistant
\* never speaks twice in the history, and is asked only after somebody else has spoken.
THEOREM AnthropicTurns == Spec => []AnthropicAlternates
<1>1. ASSUME IInv, pc = "chat", ~raced
      PROVE  LET ms == BuildAnthropicMessages(bundle) IN
             /\ ms # <<>>
             /\ \A i \in 1..Len(ms) : ms[i].role = (IF i % 2 = 1 THEN "user" ELSE "assistant")
             /\ Len(ms) % 2 = 1
  <2>1. PICK h, d, b : h = history /\ d = digest /\ b = bundle
    OBVIOUS
  <2>2. PICK t : t = (IF task THEN MaxItems + tasks ELSE 0)
    OBVIOUS
  <2>3. b = [digest |-> d, history |-> h, task |-> t]
    BY <1>1, <2>1, <2>2, Zenon DEF IInv, Exchange, Current
  <2>4. b \in Bundle
    BY <1>1, <2>1 DEF IInv, TypeOK
  <2>5. b.history = h /\ b.digest = d /\ b.task = t
    BY <2>3
  <2>6. TakesTurns(b.history, b.digest)
    <3>1. TakesTurns(h, d)
      BY <1>1, <2>1 DEF IInv, Exchange
    <3> QED BY <2>5, <3>1
  <2>7. b.task # 0 \/ EndsWithUser(b.history)
    <3>1. CASE task
      <4>1. tasks > 0 /\ tasks \in Nat /\ MaxItems \in Nat
        BY <1>1, <3>1, ConversationAssumption DEF IInv, Control, TypeOK
      <4> QED BY <2>2, <2>5, <3>1, <4>1
    <3>2. CASE ~task
      <4>1. EndsWithUser(h)
        BY <1>1, <2>1, <3>2 DEF IInv, Exchange, Heard
      <4> QED BY <2>5, <4>1
    <3> QED BY <3>1, <3>2
  <2>8. PICK ms : ms = BuildAnthropicMessages(b)
    OBVIOUS
  <2>9. ms # <<>> /\ Alternates(ms) /\ Len(ms) % 2 = 1
    BY <2>4, <2>6, <2>7, <2>8, AnthropicTakesTurns
  <2> QED BY <2>1, <2>8, <2>9, Zenon DEF Alternates
<1>2. IInv => AnthropicAlternates
  BY <1>1, Zenon DEF AnthropicAlternates
<1> QED BY <1>2, InitHolds, NextStep, PTL DEF Spec
=============================================================================
