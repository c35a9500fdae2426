-------------------------- MODULE ReportDraftProofs --------------------------
(***************************************************************************)
(* The report of a session keeps its blocks apart, what is stored of it    *)
(* has passed the checks, what calls itself finalized is stored, and an    *)
(* edit scope protects the rest of the report: for every set of drafts,    *)
(* charts, scopes and places and every bound.  The page that is rendered   *)
(* from it loses and repeats nothing, and its table of contents leads to   *)
(* the sections it names.                                                  *)
(*                                                                         *)
(* What the library's operators on sequences do to a list of blocks is     *)
(* stated position by position first.  The page is counted: how often a    *)
(* symbol is in a concatenation is the total of how often it is in the     *)
(* parts, and the total over the blocks is the total over the units that   *)
(* show them, since every block is shown by itself or in its anchor.       *)
(***************************************************************************)
EXTENDS ReportDraft, FiniteSetTheorems, SequenceTheorems, WellFoundedInduction, TLAPS

---------------------------------------------------------------------------
(* Lists of blocks.                                                        *)

LEMMA RemoveAtIs ==
    ASSUME NEW S, NEW s \in Seq(S), NEW i \in DOMAIN s, NEW u, u = RemoveAt(s, i)
    PROVE  /\ u \in Seq(S) /\ Len(u) = Len(s) - 1 /\ DOMAIN u = 1..(Len(s) - 1)
           /\ \A k \in DOMAIN u : k < i => k \in DOMAIN s /\ u[k] = s[k]
           /\ \A k \in DOMAIN u : k >= i => k + 1 \in DOMAIN s /\ u[k] = s[k + 1]
<1>1. DOMAIN s = 1..Len(s) /\ Len(s) \in Nat /\ \A k \in 1..Len(s) : s[k] \in S
  OBVIOUS
<1> DEFINE a == SubSeq(s, 1, i - 1)
           b == SubSeq(s, i + 1, Len(s))
<1>2. a \in Seq(S) /\ Len(a) = i - 1 /\ \A k \in 1..(i - 1) : a[k] = s[k]
  <2>1. 1 \in Int /\ i - 1 \in Int /\ \A k \in 1..(i - 1) : s[k] \in S
    BY <1>1
  <2>2. /\ a \in Seq(S) /\ Len(a) = IF 1 <= i - 1 THEN i - 1 - 1 + 1 ELSE 0
        /\ \A k \in 1..(i - 1 - 1 + 1) : a[k] = s[1 + k - 1]
    BY <2>1, SubSeqProperties
  <2> QED BY <1>1, <2>2
<1>3. b \in Seq(S) /\ Len(b) = Len(s) - i /\ \A k \in 1..(Len(s) - i) : b[k] = s[i + k]
  <2>1. i + 1 \in Int /\ Len(s) \in Int /\ \A k \in (i + 1)..Len(s) : s[k] \in S
    BY <1>1
  <2>2. /\ b \in Seq(S) /\ Len(b) = IF i + 1 <= Len(s) THEN Len(s) - (i + 1) + 1 ELSE 0
        /\ \A k \in 1..(Len(s) - (i + 1) + 1) : b[k] = s[i + 1 + k - 1]
    BY <2>1, SubSeqProperties
  <2> HIDE DEF b
  <2>3. i \in Nat /\ i <= Len(s) /\ Len(s) - (i + 1) + 1 = Len(s) - i
    BY <1>1
  <2>4. Len(b) = Len(s) - i
    BY <1>1, <2>2, <2>3
  <2>5. ASSUME NEW k \in 1..(Len(s) - i) PROVE b[k] = s[i + k]
    <3>1. k \in 1..(Len(s) - (i + 1) + 1) /\ i + 1 + k - 1 = i + k
      BY <2>3
    <3> QED BY <2>2, <3>1
  <2> QED BY <2>2, <2>4, <2>5
<1>4. u = a \o b
  BY DEF RemoveAt
<1> HIDE DEF a, b
<1>5. /\ u \in Seq(S) /\ Len(u) = Len(a) + Len(b)
      /\ \A k \in 1..(Len(a) + Len(b)) : u[k] = IF k <= Len(a) THEN a[k] ELSE b[k - Len(a)]
  <2>1. /\ a \o b \in Seq(S) /\ Len(a \o b) = Len(a) + Len(b)
        /\ \A k \in 1..(Len(a) + Len(b)) : (a \o b)[k] = IF k <= Len(a) THEN a[k] ELSE b[k - Len(a)]
    BY <1>2, <1>3, ConcatProperties, Zenon
  <2> QED BY <1>4, <2>1, Zenon
<1>6. Len(u) = Len(s) - 1 /\ DOMAIN u = 1..(Len(s) - 1) /\ Len(s) - 1 \in Nat
  <2>1. Len(a) + Len(b) = Len(s) - 1 /\ Len(s) - 1 \in Nat
    BY <1>1, <1>2, <1>3
  <2>2. DOMAIN u = 1..Len(u)
    BY <1>5
  <2> QED BY <1>5, <2>1, <2>2
<1>7. ASSUME NEW k \in DOMAIN u, k < i PROVE k \in DOMAIN s /\ u[k] = s[k]
  BY <1>1, <1>2, <1>3, <1>5, <1>6, <1>7
<1>8. ASSUME NEW k \in DOMAIN u, k >= i PROVE k + 1 \in DOMAIN s /\ u[k] = s[k + 1]
  <2>1. ~ (k <= Len(a)) /\ k - Len(a) \in 1..(Len(s) - i) /\ i + (k - Len(a)) = k + 1
    BY <1>1, <1>2, <1>6, <1>8
  <2>2. u[k] = b[k - Len(a)]
    BY <1>2, <1>3, <1>5, <1>6, <2>1
  <2>3. PICK j \in 1..(Len(s) - i) : j = k - Len(a)
    BY <2>1
  <2>4. b[j] = s[i + j] /\ i + j = k + 1
    BY <1>3, <2>1, <2>3
  <2>5. k + 1 \in DOMAIN s
    BY <1>1, <1>6
  <2> QED BY <2>2, <2>3, <2>4, <2>5
<1> QED BY <1>5, <1>6, <1>7, <1>8

LEMMA InsertAtIs ==
    ASSUME NEW S, NEW s \in Seq(S), NEW i \in 1..(Len(s) + 1), NEW e \in S, NEW u, u = InsertAt(s, i, e)
    PROVE  /\ u \in Seq(S) /\ Len(u) = Len(s) + 1 /\ DOMAIN u = 1..(Len(s) + 1)
           /\ i \in DOMAIN u /\ u[i] = e
           /\ \A k \in DOMAIN u : k < i => k \in DOMAIN s /\ u[k] = s[k]
           /\ \A k \in DOMAIN u : k > i => k - 1 \in DOMAIN s /\ u[k] = s[k - 1]
<1>1. DOMAIN s = 1..Len(s) /\ Len(s) \in Nat /\ \A k \in 1..Len(s) : s[k] \in S
  OBVIOUS
<1> DEFINE a == SubSeq(s, 1, i - 1)
           b == SubSeq(s, i, Len(s))
           ae == a \o <<e>>
<1>2. a \in Seq(S) /\ Len(a) = i - 1 /\ \A k \in 1..(i - 1) : a[k] = s[k]
  <2>1. 1 \in Int /\ i - 1 \in Int /\ \A k \in 1..(i - 1) : s[k] \in S
    BY <1>1
  <2>2. /\ a \in Seq(S) /\ Len(a) = IF 1 <= i - 1 THEN i - 1 - 1 + 1 ELSE 0
        /\ \A k \in 1..(i - 1 - 1 + 1) : a[k] = s[1 + k - 1]
    BY <2>1, SubSeqProperties
  <2> QED BY <1>1, <2>2
<1>3. b \in Seq(S) /\ Len(b) = Len(s) - i + 1 /\ \A k \in 1..(Len(s) - i + 1) : b[k] = s[i + k - 1]
  <2>1. i \in Int /\ Len(s) \in Int /\ \A k \in i..Len(s) : s[k] \in S
    BY <1>1
  <2>2. /\ b \in Seq(S) /\ Len(b) = IF i <= Len(s) THEN Len(s) - i + 1 ELSE 0
        /\ \A k \in 1..(Len(s) - i + 1) : b[k] = s[i + k - 1]
    BY <2>1, SubSeqProperties
  <2> QED BY <1>1, <2>2
<1>4. u = ae \o b
  BY DEF InsertAt
<1> HIDE DEF a, b
<1>5. ae \in Seq(S) /\ Len(ae) = i /\ ae[i] = e /\ \A k \in 1..(i - 1) : ae[k] = s[k]
  <2>1. <<e>> \in Seq(S) /\ Len(<<e>>) = 1 /\ <<e>>[1] = e
    OBVIOUS
  <2>2. /\ ae \in Seq(S) /\ Len(ae) = Len(a) + Len(<<e>>)
        /\ \A k \in 1..(Len(a) + Len(<<e>>)) : ae[k] = IF k <= Len(a) THEN a[k] ELSE <<e>>[k - Len(a)]
    BY <1>2, <2>1, ConcatProperties
  <2>3. Len(ae) = i /\ \A k \in 1..i : ae[k] = IF k <= i - 1 THEN a[k] ELSE <<e>>[k - (i - 1)]
    BY <1>1, <1>2, <2>1, <2>2
  <2>4. i - (i - 1) = 1 /\ ~ (i <= i - 1) /\ i \in 1..i
    BY <1>1
  <2>5. ae[i] = <<e>>[1]
    BY <2>3, <2>4
  <2>6. \A k \in 1..(i - 1) : ae[k] = s[k]
    BY <1>1, <1>2, <2>3
  <2> QED BY <2>1, <2>2, <2>3, <2>5, <2>6
<1> HIDE DEF ae
<1>6. /\ u \in Seq(S) /\ Len(u) = Len(ae) + Len(b)
      /\ \A k \in 1..(Len(ae) + Len(b)) : u[k] = IF k <= Len(ae) THEN ae[k] ELSE b[k - Len(ae)]
  <2>1. /\ ae \o b \in Seq(S) /\ Len(ae \o b) = Len(ae) + Len(b)
        /\ \A k \in 1..(Len(ae) + Len(b)) : (ae \o b)[k] = IF k <= Len(ae) THEN ae[k] ELSE b[k - Len(ae)]
    BY <1>3, <1>5, ConcatProperties, Zenon
  <2> QED BY <1>4, <2>1, Zenon
<1>7. Len(u) = Len(s) + 1 /\ DOMAIN u = 1..(Len(s) + 1) /\ Len(ae) + Len(b) = Len(s) + 1
  <2>1. Len(ae) + Len(b) = Len(s) + 1
    BY <1>1, <1>3, <1>5
  <2>2. DOMAIN u = 1..Len(u)
    BY <1>6
  <2> QED BY <1>6, <2>1, <2>2
<1>8. i \in DOMAIN u /\ u[i] = e
  BY <1>1, <1>5, <1>6, <1>7
<1>9. ASSUME NEW k \in DOMAIN u, k < i PROVE k \in DOMAIN s /\ u[k] = s[k]
  BY <1>1, <1>5, <1>6, <1>7, <1>9
<1>10. ASSUME NEW k \in DOMAIN u, k > i PROVE k - 1 \in DOMAIN s /\ u[k] = s[k - 1]
  <2>1. ~ (k <= Len(ae)) /\ k - Len(ae) \in 1..(Len(s) - i + 1) /\ i + (k - Len(ae)) - 1 = k - 1
    BY <1>1, <1>5, <1>7, <1>10
  <2>2. u[k] = b[k - Len(ae)]
    BY <1>6, <1>7, <2>1
  <2>3. b[k - Len(ae)] = s[i + (k - Len(ae)) - 1]
    BY <1>3, <2>1
  <2>4. k - 1 \in DOMAIN s
    BY <1>1, <1>7, <1>10
  <2> QED BY <2>1, <2>2, <2>3, <2>4
<1> QED BY <1>6, <1>7, <1>8, <1>9, <1>10

LEMMA Least == ASSUME NEW T, T \subseteq Nat, T # {} PROVE Min(T) \in T
<1> DEFINE R == {ss \in Nat \X Nat : ss[1] < ss[2]}
<1>1. IsWellFoundedOn(R, Nat)
  BY NatLessThanWellFounded DEF OpToRel
<1>2. \E x \in T : \A y \in T : ~ (<<y, x>> \in R)
  <2> HIDE DEF R
  <2> QED BY <1>1, WFMin
<1>3. \E x \in T : \A y \in T : x <= y
  <2>1. PICK x \in T : \A y \in T : ~ (<<y, x>> \in R)
    BY <1>2
  <2>2. ASSUME NEW y \in T PROVE x <= y
    <3>1. <<y, x>> \in Nat \X Nat /\ (y < x => <<y, x>> \in R)
      OBVIOUS
    <3> QED BY <2>1, <3>1
  <2> QED BY <2>2
<1> QED BY <1>3 DEF Min

\* FindReportBlockIndex: 0, or the place of a block with that id.
LEMMA FindIs ==
    ASSUME NEW bs \in Seq(Block), NEW id, NEW i, i = FindReportBlockIndex(bs, id)
    PROVE  \/ i = 0 /\ \A k \in DOMAIN bs : bs[k].id # id
           \/ i \in DOMAIN bs /\ i > 0 /\ bs[i].id = id
<1> DEFINE T == {k \in 1..Len(bs) : bs[k].id = id}
<1>1. DOMAIN bs = 1..Len(bs) /\ Len(bs) \in Nat /\ T \subseteq Nat
  OBVIOUS
<1>2. i = IF T # {} THEN Min(T) ELSE 0
  BY DEF FindReportBlockIndex, SelectInSeq
<1>3. CASE T = {}
  BY <1>1, <1>2, <1>3
<1>4. CASE T # {}
  <2>1. i \in T
    <3> HIDE DEF T
    <3> QED BY <1>1, <1>2, <1>4, Least
  <2> QED BY <1>1, <2>1
<1> QED BY <1>3, <1>4

\* ResolveReportBlockInsertIndex: 0, or a place in the list or at its end.
LEMMA ResolveIs ==
    ASSUME NEW bs \in Seq(Block), NEW before \in Nat, NEW after \in Nat,
           NEW at, at = ResolveReportBlockInsertIndex(bs, before, after)
    PROVE  at \in 0..(Len(bs) + 1)
<1>1. DOMAIN bs = 1..Len(bs) /\ Len(bs) \in Nat
  OBVIOUS
<1>2. PICK b, a : b = FindReportBlockIndex(bs, before) /\ a = FindReportBlockIndex(bs, after)
  OBVIOUS
<1>3. (b = 0 \/ b \in DOMAIN bs) /\ (a = 0 \/ a \in DOMAIN bs)
  BY <1>2, FindIs
<1> QED BY <1>1, <1>2, <1>3 DEF ResolveReportBlockInsertIndex, NoId

---------------------------------------------------------------------------
(* Ids that do not repeat.                                                 *)

Unique(bs) == \A i, j \in DOMAIN bs : bs[i].id = bs[j].id => i = j

LEMMA UniqueRemove ==
    ASSUME NEW bs \in Seq(Block), NEW i \in DOMAIN bs, Unique(bs), NEW u, u = RemoveAt(bs, i)
    PROVE  Unique(u) /\ \A k \in DOMAIN u : u[k].id # bs[i].id
<1>1. /\ DOMAIN bs = 1..Len(bs) /\ Len(bs) \in Nat /\ DOMAIN u = 1..(Len(bs) - 1)
      /\ \A k \in DOMAIN u : k < i => k \in DOMAIN bs /\ u[k] = bs[k]
      /\ \A k \in DOMAIN u : k >= i => k + 1 \in DOMAIN bs /\ u[k] = bs[k + 1]
  BY RemoveAtIs
<1>2. ASSUME NEW k \in DOMAIN u, NEW l \in DOMAIN u, u[k].id = u[l].id PROVE k = l
  <2>1. \A p, q \in DOMAIN bs : bs[p].id = bs[q].id => p = q
    BY DEF Unique
  <2>2. k \in Int /\ l \in Int /\ i \in Int
    BY <1>1
  <2>3. PICK p \in DOMAIN bs : u[k] = bs[p] /\ ((k < i /\ p = k) \/ (k >= i /\ p = k + 1))
    BY <1>1, <2>2
  <2>4. PICK q \in DOMAIN bs : u[l] = bs[q] /\ ((l < i /\ q = l) \/ (l >= i /\ q = l + 1))
    BY <1>1, <2>2
  <2>5. p = q
    BY <1>2, <2>1, <2>3, <2>4, Zenon
  <2> QED BY <2>2, <2>3, <2>4, <2>5
<1>3. ASSUME NEW k \in DOMAIN u PROVE u[k].id # bs[i].id
  BY <1>1 DEF Unique
<1> QED BY <1>2, <1>3 DEF Unique

LEMMA UniqueInsert ==
    ASSUME NEW bs \in Seq(Block), NEW i \in 1..(Len(bs) + 1), NEW b \in Block, Unique(bs),
           \A k \in DOMAIN bs : bs[k].id # b.id, NEW u, u = InsertAt(bs, i, b)
    PROVE  Unique(u)
<1>1. /\ DOMAIN bs = 1..Len(bs) /\ Len(bs) \in Nat /\ DOMAIN u = 1..(Len(bs) + 1) /\ u[i] = b
      /\ \A k \in DOMAIN u : k < i => k \in DOMAIN bs /\ u[k] = bs[k]
      /\ \A k \in DOMAIN u : k > i => k - 1 \in DOMAIN bs /\ u[k] = bs[k - 1]
  BY InsertAtIs
<1>2. ASSUME NEW k \in DOMAIN u, NEW l \in DOMAIN u, u[k].id = u[l].id PROVE k = l
  BY <1>1, <1>2 DEF Unique
<1> QED BY <1>2 DEF Unique

---------------------------------------------------------------------------
(* Blocks that stay, in their order.                                       *)

\* The blocks of a list are blocks of another one, in the same order.
Within(bs, ws) ==
    \E from \in [DOMAIN bs -> DOMAIN ws] :
        /\ \A i, j \in DOMAIN bs : i < j => from[i] < from[j]
        /\ \A i \in DOMAIN bs : bs[i] = ws[from[i]]

LEMMA WithinRefl == ASSUME NEW bs PROVE Within(bs, bs)
<1> DEFINE f == [i \in DOMAIN bs |-> i]
<1>1. f \in [DOMAIN bs -> DOMAIN bs] /\ \A i \in DOMAIN bs : f[i] = i
  OBVIOUS
<1> HIDE DEF f
<1> QED BY <1>1 DEF Within

LEMMA WithinRemove ==
    ASSUME NEW bs \in Seq(Block), NEW ws \in Seq(Block), Within(bs, ws), NEW i \in DOMAIN bs,
           NEW u, u = RemoveAt(bs, i)
    PROVE  Within(u, ws)
<1>1. /\ DOMAIN bs = 1..Len(bs) /\ Len(bs) \in Nat /\ DOMAIN u = 1..(Len(bs) - 1)
      /\ \A k \in DOMAIN u : k < i => k \in DOMAIN bs /\ u[k] = bs[k]
      /\ \A k \in DOMAIN u : k >= i => k + 1 \in DOMAIN bs /\ u[k] = bs[k + 1]
  BY RemoveAtIs
<1>2. PICK from \in [DOMAIN bs -> DOMAIN ws] :
         /\ \A k, l \in DOMAIN bs : k < l => from[k] < from[l]
         /\ \A k \in DOMAIN bs : bs[k] = ws[from[k]]
  BY DEF Within
<1> DEFINE g == [k \in DOMAIN u |-> IF k < i THEN from[k] ELSE from[k + 1]]
<1>3. g \in [DOMAIN u -> DOMAIN ws]
  BY <1>1, <1>2
<1>4. \A k \in DOMAIN u : g[k] = IF k < i THEN from[k] ELSE from[k + 1]
  OBVIOUS
<1> HIDE DEF g
<1>5. ASSUME NEW k \in DOMAIN u, NEW l \in DOMAIN u, k < l PROVE g[k] < g[l]
  BY <1>1, <1>2, <1>4, <1>5, SMTT(40)
<1>6. ASSUME NEW k \in DOMAIN u PROVE u[k] = ws[g[k]]
  BY <1>1, <1>2, <1>4
<1> QED BY <1>3, <1>5, <1>6 DEF Within

\* What is done to a block of one id leaves the others where they are.
LEMMA OthersRefl == ASSUME NEW bs, NEW id PROVE SameOthers(bs, bs, id)
<1> DEFINE O == Others(bs, id)
           f == [i \in O |-> i]
<1>1. f \in [O -> O] /\ \A i \in O : f[i] = i
  OBVIOUS
<1> HIDE DEF f, O
<1>2. \E from \in [O -> O] :
        /\ \A i, j \in O : i < j => from[i] < from[j]
        /\ \A j \in O : \E i \in O : from[i] = j
        /\ \A i \in O : bs[i] = bs[from[i]]
  BY <1>1
<1> QED BY <1>2 DEF SameOthers, O

LEMMA OthersRemove ==
    ASSUME NEW bs \in Seq(Block), NEW os \in Seq(Block), NEW id, SameOthers(bs, os, id),
           NEW i \in DOMAIN bs, bs[i].id = id, NEW u, u = RemoveAt(bs, i)
    PROVE  SameOthers(u, os, id)
<1>1. /\ DOMAIN bs = 1..Len(bs) /\ Len(bs) \in Nat /\ DOMAIN u = 1..(Len(bs) - 1)
      /\ \A k \in DOMAIN u : k < i => k \in DOMAIN bs /\ u[k] = bs[k]
      /\ \A k \in DOMAIN u : k >= i => k + 1 \in DOMAIN bs /\ u[k] = bs[k + 1]
  BY RemoveAtIs
<1> DEFINE B == Others(bs, id)
           O == Others(os, id)
           U == Others(u, id)
           to(k) == IF k < i THEN k ELSE k + 1
<1>2. PICK from \in [B -> O] :
         /\ \A k, l \in B : k < l => from[k] < from[l]
         /\ \A j \in O : \E k \in B : from[k] = j
         /\ \A k \in B : bs[k] = os[from[k]]
  BY DEF SameOthers
<1>3. \A k \in U : to(k) \in B /\ u[k] = bs[to(k)] /\ k \in Int
  BY <1>1 DEF Others
<1>4. \A k \in B : \E l \in U : to(l) = k
  <2> SUFFICES ASSUME NEW k \in B PROVE \E l \in U : to(l) = k
    OBVIOUS
  <2>1. k \in DOMAIN bs /\ bs[k].id # id /\ k # i
    BY DEF Others
  <2>2. CASE k < i
    <3>1. k \in DOMAIN u /\ u[k] = bs[k]
      BY <1>1, <2>1, <2>2
    <3> QED BY <2>1, <2>2, <3>1 DEF Others
  <2>3. CASE k > i
    <3>1. k - 1 \in DOMAIN u /\ ~ (k - 1 < i) /\ (k - 1) + 1 = k
      BY <1>1, <2>1, <2>3
    <3>2. u[k - 1] = bs[k]
      BY <1>1, <3>1
    <3>3. k - 1 \in U
      BY <2>1, <3>1, <3>2 DEF Others
    <3> QED BY <3>1, <3>3
  <2> QED BY <1>1, <2>1, <2>2, <2>3
<1>5. \A k, l \in U : k < l => to(k) < to(l)
  BY <1>3
<1> HIDE DEF B, O, U
<1> DEFINE g == [k \in U |-> from[to(k)]]
<1>6. g \in [U -> O] /\ \A k \in U : g[k] = from[to(k)]
  BY <1>2, <1>3
<1> HIDE DEF g, to
<1>7. /\ \A k, l \in U : k < l => g[k] < g[l]
      /\ \A j \in O : \E k \in U : g[k] = j
      /\ \A k \in U : u[k] = os[g[k]]
  BY <1>2, <1>3, <1>4, <1>5, <1>6
<1> QED BY <1>6, <1>7 DEF SameOthers, O, U

LEMMA OthersInsert ==
    ASSUME NEW bs \in Seq(Block), NEW os \in Seq(Block), NEW b \in Block, SameOthers(bs, os, b.id),
           NEW i \in 1..(Len(bs) + 1), NEW u, u = InsertAt(bs, i, b)
    PROVE  SameOthers(u, os, b.id)
<1>1. /\ DOMAIN bs = 1..Len(bs) /\ Len(bs) \in Nat /\ DOMAIN u = 1..(Len(bs) + 1) /\ u[i] = b
      /\ \A k \in DOMAIN u : k < i => k \in DOMAIN bs /\ u[k] = bs[k]
      /\ \A k \in DOMAIN u : k > i => k - 1 \in DOMAIN bs /\ u[k] = bs[k - 1]
  BY InsertAtIs
<1> DEFINE B == Others(bs, b.id)
           O == Others(os, b.id)
           U == Others(u, b.id)
           to(k) == IF k < i THEN k ELSE k - 1
<1>2. PICK from \in [B -> O] :
         /\ \A k, l \in B : k < l => from[k] < from[l]
         /\ \A j \in O : \E k \in B : from[k] = j
         /\ \A k \in B : bs[k] = os[from[k]]
  BY DEF SameOthers
<1>3. \A k \in U : to(k) \in B /\ u[k] = bs[to(k)] /\ k \in Int /\ k # i
  BY <1>1 DEF Others
<1>4. \A k \in B : \E l \in U : to(l) = k
  <2> SUFFICES ASSUME NEW k \in B PROVE \E l \in U : to(l) = k
    OBVIOUS
  <2>1. k \in DOMAIN bs /\ bs[k].id # b.id
    BY DEF Others
  <2>2. CASE k < i
    <3>1. k \in DOMAIN u /\ u[k] = bs[k]
      BY <1>1, <2>1, <2>2
    <3> QED BY <2>1, <2>2, <3>1 DEF Others
  <2>3. CASE k >= i
    <3>1. k + 1 \in DOMAIN u /\ ~ (k + 1 < i) /\ k + 1 > i /\ (k + 1) - 1 = k
      BY <1>1, <2>1, <2>3
    <3>2. u[k + 1] = bs[k]
      BY <1>1, <3>1
    <3>3. k + 1 \in U
      BY <2>1, <3>1, <3>2 DEF Others
    <3> QED BY <3>1, <3>3
  <2> QED BY <1>1, <2>1, <2>2, <2>3
<1>5. \A k, l \in U : k < l => to(k) < to(l)
  BY <1>1, <1>3
<1> HIDE DEF B, O, U
<1> DEFINE g == [k \in U |-> from[to(k)]]
<1>6. g \in [U -> O] /\ \A k \in U : g[k] = from[to(k)]
  BY <1>2, <1>3
<1> HIDE DEF g, to
<1>7. /\ \A k, l \in U : k < l => g[k] < g[l]
      /\ \A j \in O : \E k \in U : g[k] = j
      /\ \A k \in U : u[k] = os[g[k]]
  BY <1>2, <1>3, <1>4, <1>5, <1>6
<1> QED BY <1>6, <1>7 DEF SameOthers, O, U

---------------------------------------------------------------------------
(* What a call does to the report.                                         *)

\* A block is taken out, by a removal or because the place of its successor is not there.
Removed(i, needs) ==
    /\ i \in DOMAIN report.blocks /\ needs \in {report.needs, TRUE}
    /\ report' = [report EXCEPT !.blocks = RemoveAt(report.blocks, i), !.needs = needs]
    /\ Preserving => report.blocks[i].id = edit.scope.block

\* A block is put into a list without its id: new, changed or moved.
Put(rest, at, b) ==
    /\ rest \in Seq(Block) /\ at \in 1..(Len(rest) + 1) /\ b \in Block
    /\ report' = [report EXCEPT !.blocks = InsertAt(rest, at, b), !.needs = TRUE]
    /\ \/ rest = report.blocks /\ \A k \in DOMAIN report.blocks : report.blocks[k].id # b.id
       \/ \E i \in DOMAIN report.blocks : report.blocks[i].id = b.id /\ rest = RemoveAt(report.blocks, i)
    /\ Preserving => b.id = edit.scope.block
    /\ SelectionBlockMutationAllowed(b) \/ \E i \in DOMAIN report.blocks : b = report.blocks[i]

BlocksEffect ==
    \/ report' = report
    \/ \E i, needs : Removed(i, needs)
    \/ \E rest, at, b : Put(rest, at, b)

LEMMA UpsertEffect ==
    ASSUME report \in Report, NEW action, NEW draft \in Block, NEW id \in Nat, NEW before \in Nat, NEW after \in Nat,
           UpsertReportBlock(action, draft, id, before, after)
    PROVE  BlocksEffect
<1>0. PICK bs : bs = report.blocks
  OBVIOUS
<1>1. bs \in Seq(Block) /\ DOMAIN bs = 1..Len(bs) /\ Len(bs) \in Nat
  <2>1. bs \in Seq(Block)
    BY <1>0 DEF Report
  <2> QED BY <2>1
<1>2. PICK new : new = BuildReportBlock(draft, id)
  OBVIOUS
<1>3. new \in Block
  <2>1. \A n \in Nat : [draft EXCEPT !.id = n] \in Block
    BY DEF Block
  <2>2. (IF id = NoId THEN Len(report.blocks) + 1 ELSE id) \in Nat
    BY <1>0, <1>1
  <2> QED BY <1>2, <2>1, <2>2 DEF BuildReportBlock
<1>4. PICK old : old = FindReportBlockIndex(bs, new.id)
  OBVIOUS
<1>5. \/ old = 0 /\ \A k \in DOMAIN bs : bs[k].id # new.id
      \/ old \in DOMAIN bs /\ old > 0 /\ bs[old].id = new.id
  BY <1>1, <1>4, FindIs
<1>6. PICK b : b = KeepSources(new, old)
  OBVIOUS
<1>7. b \in Block /\ b.id = new.id
  <2>1. CASE old > 0 /\ new.src = ""
    <3>0. old # 0
      <4>1. ~ (0 > 0)
        OBVIOUS
      <4> QED BY <2>1, <4>1, Zenon
    <3>1. bs[old] \in Block
      BY <1>1, <1>5, <3>0
    <3>2. b = [new EXCEPT !.src = bs[old].src]
      BY <1>0, <1>6, <2>1 DEF KeepSources
    <3> QED BY <1>3, <3>1, <3>2 DEF Block
  <2>2. CASE ~ (old > 0 /\ new.src = "")
    BY <1>3, <1>6, <2>2 DEF KeepSources
  <2> QED BY <2>1, <2>2
<1>8. PICK rest : rest = IF old = 0 THEN bs ELSE RemoveAt(bs, old)
  OBVIOUS
<1>9. rest \in Seq(Block) /\ Len(rest) \in Nat /\ (old > 0 => Len(rest) = Len(bs) - 1)
  <2>1. CASE old = 0
    BY <1>1, <1>8, <2>1
  <2>2. CASE old # 0
    <3>1. old \in DOMAIN bs /\ rest = RemoveAt(bs, old)
      BY <1>5, <1>8, <2>2
    <3>2. rest \in Seq(Block) /\ Len(rest) = Len(bs) - 1
      BY <1>1, <3>1, RemoveAtIs
    <3> QED BY <3>2
  <2> QED BY <2>1, <2>2
<1>10. PICK at : at = IF old > 0 /\ before = NoId /\ after = NoId THEN old
                      ELSE ResolveReportBlockInsertIndex(rest, before, after)
  OBVIOUS
<1>11. at \in 0..(Len(rest) + 1)
  <2>1. CASE old > 0 /\ before = NoId /\ after = NoId
    BY <1>1, <1>5, <1>9, <1>10, <2>1
  <2>2. CASE ~ (old > 0 /\ before = NoId /\ after = NoId)
    BY <1>9, <1>10, <2>2, ResolveIs
  <2> QED BY <2>1, <2>2
<1>12. IF ~BlockMutationAllowed(action, b.id) \/ ~SelectionBlockMutationAllowed(b)
       THEN report' = report
       ELSE IF at = 0 THEN report' = [report EXCEPT !.blocks = rest]
       ELSE report' = [report EXCEPT !.blocks = InsertAt(rest, at, b), !.needs = TRUE]
  BY <1>0, <1>2, <1>4, <1>6, <1>8, <1>10, Zenon DEF UpsertReportBlock
<1>13. CASE ~BlockMutationAllowed(action, b.id) \/ ~SelectionBlockMutationAllowed(b)
  BY <1>12, <1>13 DEF BlocksEffect
<1>14. CASE BlockMutationAllowed(action, b.id) /\ SelectionBlockMutationAllowed(b)
  <2>1. Preserving => b.id = edit.scope.block
    BY <1>14 DEF BlockMutationAllowed
  <2>2. CASE at = 0 /\ old = 0
    <3>1. report' = [report EXCEPT !.blocks = report.blocks]
      BY <1>0, <1>8, <1>12, <1>14, <2>2
    <3>2. report' = report
      BY <3>1 DEF Report
    <3> QED BY <3>2 DEF BlocksEffect
  <2>3. CASE at = 0 /\ old # 0
    <3>1. report' = [report EXCEPT !.blocks = RemoveAt(report.blocks, old)]
      BY <1>0, <1>8, <1>12, <1>14, <2>3
    <3>2. [report EXCEPT !.blocks = RemoveAt(report.blocks, old)]
            = [report EXCEPT !.blocks = RemoveAt(report.blocks, old), !.needs = report.needs]
      BY DEF Report
    <3>3. Removed(old, report.needs)
      BY <1>0, <1>5, <1>7, <2>1, <2>3, <3>1, <3>2 DEF Removed
    <3> QED BY <3>3 DEF BlocksEffect
  <2>4. CASE at # 0
    <3>1. at \in 1..(Len(rest) + 1)
      BY <1>9, <1>11, <2>4
    <3>2. \/ rest = report.blocks /\ \A k \in DOMAIN report.blocks : report.blocks[k].id # b.id
          \/ \E i \in DOMAIN report.blocks : report.blocks[i].id = b.id /\ rest = RemoveAt(report.blocks, i)
      BY <1>0, <1>5, <1>7, <1>8
    <3>3. Put(rest, at, b)
      BY <1>7, <1>9, <1>12, <1>14, <2>1, <2>4, <3>1, <3>2 DEF Put
    <3> QED BY <3>3 DEF BlocksEffect
  <2> QED BY <2>2, <2>3, <2>4
<1> QED BY <1>13, <1>14

LEMMA RemoveEffect ==
    ASSUME report \in Report, NEW id, RemoveReportBlock(id)
    PROVE  BlocksEffect
<1>0. PICK i : i = FindReportBlockIndex(report.blocks, id)
  OBVIOUS
<1>1. i = 0 \/ (i \in DOMAIN report.blocks /\ i > 0)
  <2>1. PICK bs \in Seq(Block) : bs = report.blocks
    BY DEF Report
  <2>2. i = 0 \/ (i \in DOMAIN bs /\ i > 0)
    BY <1>0, <2>1, FindIs
  <2> QED BY <2>1, <2>2
<1>2. CASE BlockMutationAllowed("remove", id) /\ i > 0
  <2>1. report' = [report EXCEPT !.blocks = RemoveAt(report.blocks, i), !.needs = TRUE]
    BY <1>0, <1>2 DEF RemoveReportBlock
  <2>2. ~Preserving
    BY <1>2 DEF BlockMutationAllowed
  <2>3. Removed(i, TRUE)
    BY <1>1, <1>2, <2>1, <2>2 DEF Removed
  <2> QED BY <2>3 DEF BlocksEffect
<1>3. CASE ~ (BlockMutationAllowed("remove", id) /\ i > 0)
  BY <1>0, <1>3 DEF RemoveReportBlock, BlocksEffect
<1> QED BY <1>2, <1>3

LEMMA MoveEffect ==
    ASSUME report \in Report, NEW id, NEW before \in Nat, NEW after \in Nat, MoveReportBlock(id, before, after)
    PROVE  BlocksEffect
<1>0. PICK bs : bs = report.blocks
  OBVIOUS
<1>1. bs \in Seq(Block) /\ DOMAIN bs = 1..Len(bs) /\ Len(bs) \in Nat
  <2>1. bs \in Seq(Block)
    BY <1>0 DEF Report
  <2> QED BY <2>1
<1>2. PICK i : i = FindReportBlockIndex(bs, id)
  OBVIOUS
<1>3. i = 0 \/ (i \in DOMAIN bs /\ i > 0 /\ bs[i].id = id)
  BY <1>1, <1>2, FindIs
<1>4. PICK rest, at : rest = RemoveAt(bs, i) /\ at = ResolveReportBlockInsertIndex(rest, before, after)
  OBVIOUS
<1>5. report' = IF ~BlockMutationAllowed("move", id) \/ i = 0 THEN report
                ELSE IF at = 0 THEN report
                ELSE [report EXCEPT !.blocks = InsertAt(rest, at, report.blocks[i]), !.needs  = TRUE]
  BY <1>0, <1>2, <1>4, Zenon DEF MoveReportBlock
<1>6. CASE ~BlockMutationAllowed("move", id) \/ i = 0 \/ at = 0
  BY <1>5, <1>6 DEF BlocksEffect
<1>7. CASE BlockMutationAllowed("move", id) /\ i # 0 /\ at # 0
  <2>1. ~Preserving
    BY <1>7 DEF BlockMutationAllowed
  <2>2. rest \in Seq(Block) /\ Len(rest) \in Nat /\ bs[i] \in Block
    BY <1>1, <1>3, <1>4, <1>7, RemoveAtIs
  <2>3. at \in 1..(Len(rest) + 1)
    <3>1. at \in 0..(Len(rest) + 1)
      BY <1>4, <2>2, ResolveIs
    <3> QED BY <1>7, <2>2, <3>1
  <2>4. Put(rest, at, bs[i])
    BY <1>0, <1>3, <1>4, <1>5, <1>7, <2>1, <2>2, <2>3 DEF Put
  <2> QED BY <2>4 DEF BlocksEffect
<1> QED BY <1>6, <1>7

LEMMA BlocksStep ==
    ASSUME report \in Report, ManageReportBlocks
    PROVE  BlocksEffect
<1>1. /\ Drafts \subseteq Block /\ Ids \subseteq Nat /\ NoId \in Nat
      /\ \A at \in Places : at[1] \in Nat /\ at[2] \in Nat
  BY ReportDraftAssumption DEF Ids, NoId
<1>2. \/ \E id \in Ids \cup {NoId}, at \in Places, draft \in Drafts, action \in {"append", "upsert"} :
            UpsertReportBlock(action, draft, id, at[1], at[2])
      \/ \E id \in Ids : RemoveReportBlock(id)
      \/ \E id \in Ids, at \in Places : MoveReportBlock(id, at[1], at[2])
  BY Zenon DEF ManageReportBlocks
<1>3. CASE \E id \in Ids \cup {NoId}, at \in Places, draft \in Drafts, action \in {"append", "upsert"} :
             UpsertReportBlock(action, draft, id, at[1], at[2])
  BY <1>1, <1>3, UpsertEffect
<1>4. CASE \E id \in Ids : RemoveReportBlock(id)
  BY <1>4, RemoveEffect
<1>5. CASE \E id \in Ids, at \in Places : MoveReportBlock(id, at[1], at[2])
  BY <1>1, <1>5, MoveEffect
<1> QED BY <1>2, <1>3, <1>4, <1>5

\* Every call that may change the report leaves it one, whose blocks it has changed as above.
LEMMA BlocksTyped ==
    ASSUME report \in Report, BlocksEffect
    PROVE  report' \in Report
<1>1. CASE report' = report
  BY <1>1
<1>2. ASSUME NEW i, NEW needs, Removed(i, needs) PROVE report' \in Report
  <2>1. PICK u : u = RemoveAt(report.blocks, i)
    OBVIOUS
  <2>2. u \in Seq(Block) /\ needs \in BOOLEAN
    BY <1>2, <2>1, RemoveAtIs DEF Removed, Report
  <2>3. report' = [report EXCEPT !.blocks = u, !.needs = needs]
    BY <1>2, <2>1 DEF Removed
  <2> QED BY <2>2, <2>3 DEF Report
<1>3. ASSUME NEW rest, NEW at, NEW b, Put(rest, at, b) PROVE report' \in Report
  <2>1. PICK u : u = InsertAt(rest, at, b)
    OBVIOUS
  <2>2. u \in Seq(Block)
    BY <1>3, <2>1, InsertAtIs DEF Put
  <2>3. report' = [report EXCEPT !.blocks = u, !.needs = TRUE]
    BY <1>3, <2>1 DEF Put
  <2> QED BY <2>2, <2>3 DEF Report
<1> QED BY <1>1, <1>2, <1>3 DEF BlocksEffect

---------------------------------------------------------------------------
(* Types, the call under way and the rows.                                 *)

Pcs  == {"none", "turn", "finalize", "emit", "saving", "done"}
Call == [tool : {"none", "blocks", "chart", "layout", "finalize"}, ok : BOOLEAN, ambiguous : BOOLEAN,
         title : {"", "T"}]
Row  == [row : BOOLEAN, doc : Report]

TypeInv ==
    /\ report \in Report /\ logged \in Report /\ base \in Report /\ unsaved \subseteq Report
    /\ run \in 0..MaxRuns /\ pc \in Pcs /\ call \in Call /\ cancelled \in BOOLEAN
    /\ disk \in [Runs -> Row] /\ writes \in 0..MaxWrites

\* A report is finalized by report_finalize only, and is being saved only if it is finalized.
CallInv ==
    /\ call.ok => pc \in {"emit", "saving"} /\ call.tool = "finalize"
    /\ pc = "saving" => call.ok
    /\ pc = "finalize" => call.tool = "finalize"

\* A run has no row before its report is saved.
RowInv ==
    /\ pc # "none" => run \in Runs
    /\ \A r \in Runs : disk[r].row => r < run \/ (r = run /\ pc \in {"none", "done"})

CtlInv == TypeInv /\ CallInv /\ RowInv

LEMMA EmptyTyped == EmptyReport \in Report /\ NoCall \in Call /\ ~NoCall.ok /\ NoRow \in Row /\ ~NoRow.row
<1>1. <<>> \in Seq(Block) /\ [c \in Charts |-> 0] \in [Charts -> Nat]
  OBVIOUS
<1>2. EmptyReport \in Report
  BY <1>1 DEF EmptyReport, Report
<1> QED BY <1>2 DEF NoCall, Call, NoRow, Row

\* The report after a call that may have changed it.
LEMMA WriteTyped ==
    ASSUME report \in Report, ManageReportBlocks \/ CreateChart \/ ConfigureReport
    PROVE  report' \in Report
<1>1. CASE ManageReportBlocks
  BY <1>1, BlocksStep, BlocksTyped
<1>2. CASE CreateChart
  <2>1. PICK c \in Charts, option \in BuildOptionFromDSL : ApplyReportChartMutation(c, option)
    BY <1>2, Zenon DEF CreateChart
  <2>2. Options \subseteq Nat
    BY ReportDraftAssumption
  <2> QED BY <2>1, <2>2 DEF ApplyReportChartMutation, Report
<1>3. CASE ConfigureReport
  <2>1. PICK layout \in {"", "css"} : ApplyReportLayoutMutation(layout)
    BY <1>3, Zenon DEF ConfigureReport
  <2> QED BY <2>1 DEF ApplyReportLayoutMutation, Report
<1> QED BY <1>1, <1>2, <1>3

LEMMA CtlWrite ==
    ASSUME CtlInv, ManageReportBlocks \/ CreateChart \/ ConfigureReport
    PROVE  CtlInv'
<1>1. report' \in Report
  BY WriteTyped DEF CtlInv, TypeInv
<1>2. Calls /\ \E tool \in {"blocks", "chart", "layout"} : Wrote(tool)
  BY Zenon DEF ManageReportBlocks, CreateChart, ConfigureReport
<1>3. /\ pc = "turn" /\ pc' = "emit" /\ writes' \in 0..MaxWrites /\ call' \in Call /\ ~call'.ok
      /\ UNCHANGED <<edit, run, cancelled, disk, logged, base, unsaved>>
  <2>1. PICK tool \in {"blocks", "chart", "layout"} : Wrote(tool)
    BY <1>2
  <2>2. call' \in Call /\ ~call'.ok
    BY <2>1 DEF Wrote, NoCall, Call
  <2>3. writes' \in 0..MaxWrites
    BY <1>2, <2>1, ReportDraftAssumption DEF Calls, Wrote, CtlInv, TypeInv
  <2> QED BY <1>2, <2>1, <2>2, <2>3 DEF Calls, Wrote
<1>4. TypeInv'
  BY <1>1, <1>3 DEF CtlInv, TypeInv, Pcs
<1>5. CallInv' /\ RowInv'
  BY <1>3 DEF CtlInv, CallInv, RowInv
<1> QED BY <1>4, <1>5 DEF CtlInv

LEMMA CtlFinalize ==
    ASSUME CtlInv, (\E title \in {"", "T"}, ambiguous \in BOOLEAN : FinalizeReadSources(title, ambiguous))
                   \/ FinalizeReport
    PROVE  CtlInv'
<1>1. ASSUME NEW title \in {"", "T"}, NEW ambiguous \in BOOLEAN, FinalizeReadSources(title, ambiguous)
      PROVE  CtlInv'
  <2>1. /\ pc = "turn" /\ pc' = "finalize" /\ call' \in Call /\ ~call'.ok /\ call'.tool = "finalize"
        /\ UNCHANGED <<report, edit, run, cancelled, disk, logged, writes, base, unsaved>>
    BY <1>1 DEF FinalizeReadSources, Call
  <2> QED BY <2>1 DEF CtlInv, TypeInv, Pcs, CallInv, RowInv
<1>2. CASE FinalizeReport
  <2>1. /\ pc = "finalize" /\ pc' = "emit"
        /\ UNCHANGED <<edit, run, cancelled, disk, logged, writes, base, unsaved>>
        /\ \/ UNCHANGED <<report, call>>
           \/ /\ report' = [report EXCEPT !.title = call.title, !.needs = FALSE]
              /\ call' = [call EXCEPT !.ok = TRUE]
    BY <1>2 DEF FinalizeReport
  <2>2. report' \in Report /\ call' \in Call /\ call'.tool = "finalize"
    BY <2>1 DEF CtlInv, TypeInv, CallInv, Report, Call
  <2> QED BY <2>1, <2>2 DEF CtlInv, TypeInv, Pcs, CallInv, RowInv
<1> QED BY <1>1, <1>2

\* The end of a run, with no row or the one it has.
LEMMA CtlEnds ==
    ASSUME CtlInv, Ends, report' \in Report, unsaved' \subseteq Report, UNCHANGED <<run, writes>>, logged' = logged,
           disk' \in [Runs -> Row], \A r \in Runs : disk'[r].row => disk[r].row \/ r = run
    PROVE  CtlInv'
<1>1. pc' = "none" /\ call' = NoCall /\ cancelled' = FALSE /\ base' = EmptyReport
  BY DEF Ends
<1>2. TypeInv' /\ CallInv'
  BY <1>1, EmptyTyped DEF CtlInv, TypeInv, Pcs, CallInv
<1>3. RowInv'
  BY <1>1 DEF CtlInv, RowInv
<1> QED BY <1>2, <1>3 DEF CtlInv

LEMMA StoresIs ==
    ASSUME TypeInv, NEW row \in BOOLEAN, Stores(row), run \in Runs
    PROVE  /\ disk' \in [Runs -> Row]
           /\ \A r \in Runs : r # run => disk'[r] = disk[r]
           /\ disk'[run].row = row /\ disk'[run].doc = IF row THEN report ELSE EmptyReport
<1> DEFINE x == [row |-> row, doc |-> IF row THEN report ELSE EmptyReport]
<1>1. x \in Row /\ x.row = row /\ x.doc = IF row THEN report ELSE EmptyReport
  BY EmptyTyped DEF Row, TypeInv
<1>2. disk' = [disk EXCEPT ![run] = x]
  BY DEF Stores
<1> HIDE DEF x
<1> QED BY <1>1, <1>2 DEF TypeInv

LEMMA CtlResults ==
    ASSUME CtlInv, DropResult \/ EmitResult \/ FinalizeAndPersistReport \/ SaveFails \/ EndRun
    PROVE  CtlInv'
<1>1. CASE DropResult
  <2>1. UNCHANGED <<report, run, disk, logged, writes>> /\ Ends /\ unsaved' \subseteq Report
    BY <1>1 DEF DropResult, CtlInv, TypeInv
  <2> QED BY <2>1, CtlEnds DEF CtlInv, TypeInv
<1>2. CASE EmitResult
  <2>1. /\ pc = "emit" /\ UNCHANGED <<report, edit, run, cancelled, disk, writes, base, unsaved>>
        /\ logged' \in Report
        /\ (call.ok /\ pc' = "saving" /\ call' = call) \/ (pc' = "turn" /\ call' = NoCall)
    BY <1>2 DEF EmitResult, CtlInv, TypeInv
  <2> QED BY <2>1, EmptyTyped DEF CtlInv, TypeInv, Pcs, CallInv, RowInv
<1>3. CASE FinalizeAndPersistReport
  <2>1. /\ pc = "saving" /\ Stores(TRUE) /\ logged' = report /\ pc' = "done" /\ call' = NoCall
        /\ UNCHANGED <<report, edit, run, cancelled, writes, base, unsaved>>
    BY <1>3 DEF FinalizeAndPersistReport
  <2>2. run \in Runs
    BY <2>1 DEF CtlInv, RowInv
  <2>3. disk' \in [Runs -> Row] /\ \A r \in Runs : r # run => disk'[r] = disk[r]
    BY <2>1, <2>2, StoresIs DEF CtlInv
  <2>4. TypeInv' /\ CallInv'
    BY <2>1, <2>3, EmptyTyped DEF CtlInv, TypeInv, Pcs, CallInv
  <2>5. RowInv'
    BY <2>1, <2>2, <2>3 DEF CtlInv, RowInv
  <2> QED BY <2>4, <2>5 DEF CtlInv
<1>4. CASE SaveFails
  <2>1. PICK rowLeft \in BOOLEAN : Stores(rowLeft)
    BY <1>4, Zenon DEF SaveFails
  <2>2. /\ pc = "saving" /\ Ends /\ UNCHANGED <<run, logged, writes, unsaved>>
        /\ report' = [report EXCEPT !.needs = TRUE, !.title = call.title]
    BY <1>4 DEF SaveFails
  <2>3. run \in Runs
    BY <2>2 DEF CtlInv, RowInv
  <2>4. disk' \in [Runs -> Row] /\ \A r \in Runs : r # run => disk'[r] = disk[r]
    BY <2>1, <2>3, StoresIs DEF CtlInv
  <2>5. report' \in Report
    BY <2>2 DEF CtlInv, TypeInv, Report, Call
  <2> QED BY <2>2, <2>4, <2>5, CtlEnds DEF CtlInv, TypeInv
<1>5. CASE EndRun
  <2>1. UNCHANGED <<report, run, disk, logged, writes, unsaved>> /\ Ends
    BY <1>5 DEF EndRun
  <2> QED BY <2>1, CtlEnds DEF CtlInv, TypeInv
<1> QED BY <1>1, <1>2, <1>3, <1>4, <1>5

\* The report that a run starts with.
LEMMA PrepareIs ==
    ASSUME CtlInv, NEW target \in 0..MaxRuns, NEW scope \in Scopes, PrepareUserRun(target, scope)
    PROVE  /\ pc = "none" /\ pc' = "turn" /\ run' = run + 1 /\ run' \in Runs
           /\ UNCHANGED <<call, cancelled, disk, logged, writes, unsaved>>
           /\ \/ report' = report
              \/ target \in Runs /\ disk[target].row /\ report' = disk[target].doc
           /\ report' \in Report
           /\ base' = IF scope = NoScope THEN EmptyReport ELSE report'
           /\ edit' = ConfigureEditState(report', scope)
<1>1. /\ pc = "none" /\ pc' = "turn" /\ run' = run + 1 /\ run < MaxRuns
      /\ UNCHANGED <<call, cancelled, disk, logged, writes, unsaved>>
      /\ report' = IF target = 0 THEN report ELSE TargetReport(target)
      /\ target # 0 => target \in 1..run
      /\ base' = IF scope = NoScope THEN EmptyReport ELSE report'
      /\ edit' = ConfigureEditState(report', scope)
  BY DEF PrepareUserRun
<1>2. run' \in Runs /\ (target # 0 => target \in Runs)
  BY <1>1, ReportDraftAssumption DEF CtlInv, TypeInv, Runs
<1>3. \/ report' = report
      \/ target \in Runs /\ disk[target].row /\ report' = disk[target].doc
  BY <1>1, <1>2 DEF TargetReport
<1>4. report' \in Report
  BY <1>3 DEF CtlInv, TypeInv, Row
<1> QED BY <1>1, <1>2, <1>3, <1>4

LEMMA CtlOutside ==
    ASSUME CtlInv, \/ \E target \in 0..MaxRuns, scope \in Scopes : PrepareUserRun(target, scope)
                   \/ Stop \/ Reset \/ Restart \/ UNCHANGED vars
    PROVE  CtlInv'
<1>1. ASSUME NEW target \in 0..MaxRuns, NEW scope \in Scopes, PrepareUserRun(target, scope)
      PROVE  CtlInv'
  <2>1. /\ pc = "none" /\ pc' = "turn" /\ run' = run + 1 /\ run' \in Runs
        /\ UNCHANGED <<call, cancelled, disk, logged, writes, unsaved>>
        /\ report' \in Report /\ base' \in Report
    BY <1>1, PrepareIs, EmptyTyped
  <2>2. TypeInv' /\ CallInv'
    BY <2>1, ReportDraftAssumption DEF CtlInv, TypeInv, Pcs, CallInv, Runs
  <2>3. RowInv'
    BY <2>1, ReportDraftAssumption DEF CtlInv, TypeInv, RowInv, Runs
  <2> QED BY <2>2, <2>3 DEF CtlInv
<1>2. CASE Stop
  BY <1>2 DEF Stop, CtlInv, TypeInv, CallInv, RowInv
<1>3. CASE Reset
  <2>1. /\ report' = EmptyReport /\ base' = EmptyReport /\ cancelled' \in BOOLEAN
        /\ UNCHANGED <<run, pc, call, disk, logged, writes, unsaved>>
    BY <1>3 DEF Reset
  <2> QED BY <2>1, EmptyTyped DEF CtlInv, TypeInv, CallInv, RowInv
<1>4. CASE Restart
  <2>1. report' = logged /\ Ends /\ UNCHANGED <<run, disk, logged, writes, unsaved>>
    BY <1>4 DEF Restart
  <2> QED BY <2>1, CtlEnds DEF CtlInv, TypeInv
<1>5. CASE UNCHANGED vars
  BY <1>5 DEF vars, CtlInv, TypeInv, CallInv, RowInv
<1> QED BY <1>1, <1>2, <1>3, <1>4, <1>5

\* Types; a finalized report is being saved only after report_finalize has checked it, and
\* the row of a run is written once, by its last step.
THEOREM ControlInvariance == Spec => []CtlInv
<1>1. Init => CtlInv
  <2> SUFFICES ASSUME Init PROVE CtlInv
    OBVIOUS
  <2>1. TypeInv
    <3>1. 0 \in 0..MaxRuns /\ 0 \in 0..MaxWrites
      BY ReportDraftAssumption
    <3> QED BY <3>1, EmptyTyped DEF Init, TypeInv, Pcs
  <2>2. CallInv /\ RowInv
    BY EmptyTyped DEF Init, CallInv, RowInv
  <2> QED BY <2>1, <2>2 DEF CtlInv
<1>2. CtlInv /\ [Next]_vars => CtlInv'
  BY CtlWrite, CtlFinalize, CtlResults, CtlOutside DEF Next
<1> QED BY <1>1, <1>2, PTL DEF Spec

---------------------------------------------------------------------------
(* Ids do not repeat.                                                      *)

\* Where the blocks of report, log and rows come from.
DocEffect ==
    /\ \/ BlocksEffect \/ report'.blocks = report.blocks
       \/ report'.blocks = <<>> \/ report'.blocks = logged.blocks
       \/ \E r \in Runs : report'.blocks = disk[r].doc.blocks
    /\ logged'.blocks = logged.blocks \/ logged'.blocks = report.blocks
    /\ \A r \in Runs : \/ disk'[r].doc.blocks = disk[r].doc.blocks \/ disk'[r].doc.blocks = report.blocks
                       \/ disk'[r].doc.blocks = <<>>

LEMMA DocStep == ASSUME CtlInv, [Next]_vars PROVE DocEffect
<1>0. EmptyReport.blocks = <<>> /\ report \in Report
  BY DEF EmptyReport, CtlInv, TypeInv
<1>1. CASE ManageReportBlocks
  <2>1. BlocksEffect
    BY <1>0, <1>1, BlocksStep
  <2>2. UNCHANGED <<disk, logged>>
    BY <1>1 DEF ManageReportBlocks, Wrote
  <2> QED BY <2>1, <2>2 DEF DocEffect
<1>2. CASE CreateChart \/ ConfigureReport
  <2>1. UNCHANGED <<disk, logged>>
    BY <1>2 DEF CreateChart, ConfigureReport, Wrote
  <2>2. report'.blocks = report.blocks
    BY <1>0, <1>2 DEF CreateChart, ConfigureReport, ApplyReportChartMutation, ApplyReportLayoutMutation, Report
  <2> QED BY <2>1, <2>2 DEF DocEffect
<1>3. CASE \/ \E title \in {"", "T"}, ambiguous \in BOOLEAN : FinalizeReadSources(title, ambiguous)
           \/ FinalizeReport
  <2>1. UNCHANGED <<disk, logged>>
    BY <1>3 DEF FinalizeReadSources, FinalizeReport
  <2>2. report'.blocks = report.blocks
    BY <1>0, <1>3 DEF FinalizeReadSources, FinalizeReport, Report
  <2> QED BY <2>1, <2>2 DEF DocEffect
<1>4. CASE DropResult \/ EmitResult \/ EndRun \/ Stop \/ UNCHANGED vars
  <2>1. UNCHANGED <<report, disk>> /\ (logged' = logged \/ logged' = report)
    BY <1>4 DEF DropResult, EmitResult, EndRun, Stop, vars
  <2> QED BY <2>1 DEF DocEffect
<1>5. CASE FinalizeAndPersistReport \/ SaveFails
  <2>1. PICK row \in BOOLEAN : Stores(row)
    BY <1>5 DEF FinalizeAndPersistReport, SaveFails
  <2>2. run \in Runs /\ TypeInv
    BY <1>5 DEF FinalizeAndPersistReport, SaveFails, CtlInv, RowInv
  <2>3. \A r \in Runs : \/ disk'[r].doc.blocks = disk[r].doc.blocks \/ disk'[r].doc.blocks = report.blocks
                        \/ disk'[r].doc.blocks = <<>>
    BY <1>0, <2>1, <2>2, StoresIs
  <2>4. report'.blocks = report.blocks /\ (logged' = logged \/ logged' = report)
    BY <1>0, <1>5 DEF FinalizeAndPersistReport, SaveFails, Report
  <2> QED BY <2>3, <2>4 DEF DocEffect
<1>6. ASSUME NEW target \in 0..MaxRuns, NEW scope \in Scopes, PrepareUserRun(target, scope)
      PROVE  DocEffect
  BY <1>6, PrepareIs DEF DocEffect
<1>7. CASE Reset \/ Restart
  <2>1. UNCHANGED <<disk, logged>> /\ (report' = EmptyReport \/ report' = logged)
    BY <1>7 DEF Reset, Restart
  <2> QED BY <1>0, <2>1 DEF DocEffect
<1> QED BY <1>1, <1>2, <1>3, <1>4, <1>5, <1>6, <1>7 DEF Next

UniqueInv ==
    /\ Unique(report.blocks) /\ Unique(logged.blocks)
    /\ \A r \in Runs : Unique(disk[r].doc.blocks)

\* A call of report_manage_blocks takes out the block whose id it writes, before it writes.
LEMMA BlocksUnique ==
    ASSUME report \in Report, BlocksEffect, Unique(report.blocks), NEW u, u = report'.blocks
    PROVE  Unique(u)
<1>0. PICK bs : bs = report.blocks
  OBVIOUS
<1>1. bs \in Seq(Block) /\ Unique(bs)
  BY <1>0 DEF Report
<1>2. CASE report' = report
  BY <1>0, <1>1, <1>2
<1>3. ASSUME NEW i, NEW needs, Removed(i, needs) PROVE Unique(u)
  <2>1. i \in DOMAIN bs /\ u = RemoveAt(bs, i)
    BY <1>0, <1>3 DEF Removed, Report
  <2> QED BY <1>1, <2>1, UniqueRemove
<1>4. ASSUME NEW rest, NEW at, NEW b, Put(rest, at, b) PROVE Unique(u)
  <2>1. rest \in Seq(Block) /\ at \in 1..(Len(rest) + 1) /\ b \in Block /\ u = InsertAt(rest, at, b)
    BY <1>4 DEF Put, Report
  <2>2. \/ rest = bs /\ \A k \in DOMAIN bs : bs[k].id # b.id
        \/ \E i \in DOMAIN bs : bs[i].id = b.id /\ rest = RemoveAt(bs, i)
    BY <1>0, <1>4 DEF Put
  <2>3. Unique(rest) /\ \A k \in DOMAIN rest : rest[k].id # b.id
    BY <1>1, <2>2, UniqueRemove
  <2> QED BY <2>1, <2>3, UniqueInsert
<1> QED BY <1>2, <1>3, <1>4 DEF BlocksEffect

LEMMA UniqueStep == ASSUME CtlInv, UniqueInv, DocEffect PROVE UniqueInv'
<1>0. Unique(<<>>) /\ report \in Report
  BY DEF Unique, CtlInv, TypeInv
<1>1. PICK u, l : u = report'.blocks /\ l = logged'.blocks
  OBVIOUS
<1>2. Unique(u)
  BY <1>0, <1>1, BlocksUnique DEF DocEffect, UniqueInv
<1>3. Unique(l)
  BY <1>1 DEF DocEffect, UniqueInv
<1>4. ASSUME NEW r \in Runs, NEW d, d = disk'[r].doc.blocks PROVE Unique(d)
  <2>1. d = disk[r].doc.blocks \/ d = report.blocks \/ d = <<>>
    BY <1>4 DEF DocEffect
  <2> QED BY <1>0, <2>1 DEF UniqueInv
<1>5. Unique(report.blocks)'
  BY <1>1, <1>2 DEF Unique
<1>6. Unique(logged.blocks)'
  BY <1>1, <1>3 DEF Unique
<1>7. ASSUME NEW r \in Runs PROVE Unique(disk[r].doc.blocks)'
  <2>1. PICK d : d = disk'[r].doc.blocks
    OBVIOUS
  <2>2. Unique(d)
    BY <1>4, <2>1
  <2> QED BY <2>1, <2>2 DEF Unique
<1> QED BY <1>5, <1>6, <1>7 DEF UniqueInv

LEMMA UniqueInvariance == Spec => []UniqueInv
<1>1. Init => UniqueInv
  <2> SUFFICES ASSUME Init PROVE UniqueInv
    OBVIOUS
  <2>1. Unique(<<>>) /\ EmptyReport.blocks = <<>>
    BY DEF Unique, EmptyReport
  <2>2. \A r \in Runs : disk[r].doc = EmptyReport
    BY DEF Init, NoRow
  <2> QED BY <2>1, <2>2 DEF Init, UniqueInv
<1>2. CtlInv /\ UniqueInv /\ [Next]_vars => UniqueInv'
  BY DocStep, UniqueStep
<1> QED BY <1>1, <1>2, ControlInvariance, PTL DEF Spec

\* Whatever is appended, replaced, moved, removed, loaded, stored or replayed, no two blocks
\* of a report share an id: report_blocks.go finds a block by its id only.
THEOREM BlocksApart == Spec => []UniqueIds
<1>1. UniqueInv => UniqueIds
  BY DEF UniqueInv, UniqueIds, Unique
<1> QED BY <1>1, UniqueInvariance, PTL

---------------------------------------------------------------------------
(* What is stored has passed the checks.                                   *)

\* Reports without an issue, and the one a reset leaves.
Passed == {d \in Report : ReportFinalizeIssues(d) = {} /\ ~d.needs} \cup {EmptyReport}

PassInv ==
    /\ call.ok => report \in Passed
    /\ \A r \in Runs : disk[r].row => disk[r].doc \in Passed

\* The issues of a report are about its blocks and charts, not about its title.
LEMMA IssuesOf ==
    ASSUME NEW d, NEW e, d.blocks = e.blocks, d.charts = e.charts, ReportFinalizeIssues(d) = {}
    PROVE  ReportFinalizeIssues(e) = {}
<1>1. Have(d) = Have(e)
  BY DEF Have
<1>2. PICK bs, h : bs = d.blocks /\ h = Have(d)
  OBVIOUS
<1>3. /\ ReportFinalizeIssues(d) =
            (IF bs = <<>> THEN {<<"no_blocks", "">>} ELSE {})
              \cup {<<"missing", c>>   : c \in {c \in Charts \ h : RefCount(bs, c) > 0}}
              \cup {<<"duplicate", c>> : c \in {c \in Charts : RefCount(bs, c) > 1}}
      /\ ReportFinalizeIssues(e) =
            (IF bs = <<>> THEN {<<"no_blocks", "">>} ELSE {})
              \cup {<<"missing", c>>   : c \in {c \in Charts \ h : RefCount(bs, c) > 0}}
              \cup {<<"duplicate", c>> : c \in {c \in Charts : RefCount(bs, c) > 1}}
  BY <1>1, <1>2, Zenon DEF ReportFinalizeIssues
<1> QED BY <1>3, Zenon

LEMMA PassStep == ASSUME CtlInv, PassInv, [Next]_vars PROVE PassInv'
<1>0. report \in Report /\ EmptyReport \in Passed
  BY DEF CtlInv, TypeInv, Passed
<1>1. CASE ManageReportBlocks \/ CreateChart \/ ConfigureReport
  <2>1. UNCHANGED disk /\ ~call'.ok
    BY <1>1 DEF ManageReportBlocks, CreateChart, ConfigureReport, Wrote, NoCall
  <2> QED BY <2>1 DEF PassInv
<1>2. ASSUME NEW title \in {"", "T"}, NEW ambiguous \in BOOLEAN, FinalizeReadSources(title, ambiguous)
      PROVE  PassInv'
  BY <1>2 DEF FinalizeReadSources, PassInv
<1>3. CASE FinalizeReport
  <2>1. UNCHANGED disk /\ pc = "finalize"
    BY <1>3 DEF FinalizeReport
  <2>2. \/ UNCHANGED <<report, call>>
        \/ /\ report' = [report EXCEPT !.title = call.title, !.needs = FALSE]
           /\ ReportFinalizeIssues(report) = {}
    BY <1>3 DEF FinalizeReport
  <2>3. CASE UNCHANGED <<report, call>>
    BY <2>1, <2>3 DEF PassInv
  <2>4. CASE /\ report' = [report EXCEPT !.title = call.title, !.needs = FALSE]
             /\ ReportFinalizeIssues(report) = {}
    <3>1. PICK d, e : d = report /\ e = report'
      OBVIOUS
    <3>2. d \in Report /\ e = [d EXCEPT !.title = call.title, !.needs = FALSE] /\ call.title \in {"", "T"}
      BY <1>0, <2>4, <3>1 DEF CtlInv, TypeInv, Call
    <3>3. e \in Report /\ ~e.needs /\ e.blocks = d.blocks /\ e.charts = d.charts
      BY <3>2 DEF Report
    <3>4. ReportFinalizeIssues(e) = {}
      BY <2>4, <3>1, <3>3, IssuesOf
    <3>5. e \in Passed
      BY <3>3, <3>4 DEF Passed
    <3> QED BY <2>1, <3>1, <3>5 DEF PassInv
  <2> QED BY <2>2, <2>3, <2>4
<1>4. CASE DropResult \/ EmitResult \/ EndRun \/ Stop \/ UNCHANGED vars
  <2>1. UNCHANGED <<report, disk>> /\ (call' = call \/ call' = NoCall)
    BY <1>4 DEF DropResult, EmitResult, EndRun, Stop, Ends, vars
  <2> QED BY <2>1, EmptyTyped DEF PassInv
<1>5. CASE FinalizeAndPersistReport \/ SaveFails
  <2>1. PICK row \in BOOLEAN : Stores(row)
    BY <1>5 DEF FinalizeAndPersistReport, SaveFails
  <2>2. run \in Runs /\ TypeInv /\ call.ok /\ ~call'.ok
    BY <1>5, EmptyTyped DEF FinalizeAndPersistReport, SaveFails, CtlInv, RowInv, CallInv, Ends
  <2>3. \A r \in Runs : disk'[r].row => disk'[r].doc \in Passed
    BY <1>0, <2>1, <2>2, StoresIs DEF PassInv
  <2> QED BY <2>2, <2>3 DEF PassInv
<1>6. ASSUME NEW target \in 0..MaxRuns, NEW scope \in Scopes, PrepareUserRun(target, scope)
      PROVE  PassInv'
  <2>1. ~call'.ok /\ UNCHANGED disk
    BY <1>6, PrepareIs DEF CtlInv, CallInv
  <2> QED BY <2>1 DEF PassInv
<1>7. CASE Reset
  BY <1>0, <1>7 DEF Reset, PassInv
<1>8. CASE Restart
  <2>1. UNCHANGED disk /\ ~call'.ok
    BY <1>8, EmptyTyped DEF Restart, Ends
  <2> QED BY <2>1 DEF PassInv
<1> QED BY <1>1, <1>2, <1>3, <1>4, <1>5, <1>6, <1>7, <1>8 DEF Next

\* Whatever is stored for a run has passed the checks of report_finalize: no call, reset,
\* stop or failing step between the check and the saving changes what is saved, but for a
\* reset, which leaves the empty report.
THEOREM StoredPassed == Spec => []SavedPassedChecks
<1>1. Init => PassInv
  <2> SUFFICES ASSUME Init PROVE PassInv
    OBVIOUS
  <2>1. \A r \in Runs : ~disk[r].row
    BY DEF Init, NoRow
  <2> QED BY <2>1, EmptyTyped DEF Init, PassInv
<1>2. CtlInv /\ PassInv /\ [Next]_vars => PassInv'
  BY PassStep
<1>3. PassInv => SavedPassedChecks
  BY DEF PassInv, SavedPassedChecks, Passed
<1> QED BY <1>1, <1>2, <1>3, ControlInvariance, PTL DEF Spec

---------------------------------------------------------------------------
(* What calls itself finalized is stored.                                  *)

Finalized == {d \in Report : IsFinalized(d)}
Parts     == {p \in Report \X Report : PartOf(p[1], p[2])}

\* The document is not finalized, or part of a stored or dropped one.
Safe(doc) ==
    doc \in Finalized => \/ \E r \in Runs : disk[r].row /\ <<doc, disk[r].doc>> \in Parts
                         \/ \E d \in unsaved : <<doc, d>> \in Parts

SavedInv == Safe(logged) /\ (~call.ok => Safe(report))

LEMMA PartsRefl == ASSUME NEW d \in Report PROVE <<d, d>> \in Parts
<1>1. Within(d.blocks, d.blocks)
  BY WithinRefl
<1>2. PartOf(d, d)
  BY <1>1 DEF PartOf, Within
<1> QED BY <1>2 DEF Parts

\* A block less is still a part.
LEMMA PartsRemove ==
    ASSUME NEW d \in Report, NEW w \in Report, <<d, w>> \in Parts, NEW i \in DOMAIN d.blocks,
           NEW e \in Report, e = [d EXCEPT !.blocks = RemoveAt(d.blocks, i)]
    PROVE  <<e, w>> \in Parts
<1>1. PartOf(d, w)
  BY DEF Parts
<1>2. PICK u : u = RemoveAt(d.blocks, i)
  OBVIOUS
<1>3. Within(d.blocks, w.blocks) /\ d.blocks \in Seq(Block) /\ w.blocks \in Seq(Block)
  BY <1>1 DEF PartOf, Within, Report
<1>4. Within(u, w.blocks)
  BY <1>2, <1>3, WithinRemove
<1>5. e.blocks = u /\ e.charts = d.charts /\ e.layout = d.layout /\ e.title = d.title
  BY <1>2 DEF Report
<1>6. <<d.charts, d.layout, d.title>> = <<w.charts, w.layout, w.title>>
  BY <1>1 DEF PartOf
<1>7. Within(e.blocks, w.blocks)
  BY <1>4, <1>5
<1>8. PartOf(e, w)
  BY <1>5, <1>6, <1>7 DEF PartOf, Within
<1> QED BY <1>8 DEF Parts

\* A row is written once, and a dropped report stays on record.
LEMMA RowsKept ==
    ASSUME CtlInv, [Next]_vars
    PROVE  (\A r \in Runs : disk[r].row => disk'[r] = disk[r]) /\ unsaved \subseteq unsaved'
<1>1. CASE FinalizeAndPersistReport \/ SaveFails
  <2>1. PICK row \in BOOLEAN : Stores(row)
    BY <1>1 DEF FinalizeAndPersistReport, SaveFails
  <2>2. run \in Runs /\ TypeInv /\ pc = "saving" /\ UNCHANGED unsaved
    BY <1>1 DEF FinalizeAndPersistReport, SaveFails, CtlInv, RowInv
  <2>3. ~disk[run].row
    <3>1. ~ (run < run)
      BY <2>2, ReportDraftAssumption DEF Runs
    <3> QED BY <2>2, <3>1 DEF CtlInv, RowInv
  <2> QED BY <2>1, <2>2, <2>3, StoresIs
<1>2. CASE ManageReportBlocks \/ CreateChart \/ ConfigureReport
  BY <1>2 DEF ManageReportBlocks, CreateChart, ConfigureReport, Wrote
<1>3. CASE \/ \E title \in {"", "T"}, ambiguous \in BOOLEAN : FinalizeReadSources(title, ambiguous)
           \/ FinalizeReport \/ DropResult \/ EmitResult \/ EndRun
  BY <1>3 DEF FinalizeReadSources, FinalizeReport, DropResult, EmitResult, EndRun
<1>4. CASE \/ \E target \in 0..MaxRuns, scope \in Scopes : PrepareUserRun(target, scope)
           \/ Stop \/ Reset \/ Restart \/ UNCHANGED vars
  BY <1>4 DEF PrepareUserRun, Stop, Reset, Restart, vars
<1> QED BY <1>1, <1>2, <1>3, <1>4 DEF Next

LEMMA SafeKept ==
    ASSUME NEW doc, Safe(doc), \A r \in Runs : disk[r].row => disk'[r] = disk[r], unsaved \subseteq unsaved'
    PROVE  Safe(doc)'
BY DEF Safe

LEMMA NeedsNotSafe == ASSUME NEW d, d \notin Finalized PROVE Safe(d)'
BY DEF Safe

\* A call leaves the report as it is, makes it a draft again, or loses a block of it.
LEMMA SavedWrite ==
    ASSUME CtlInv, Safe(report), ManageReportBlocks \/ CreateChart \/ ConfigureReport,
           NEW e, e = report', UNCHANGED <<disk, unsaved>>
    PROVE  Safe(e)'
<1>0. PICK d : d = report
  OBVIOUS
<1>1. d \in Report /\ e \in Report /\ Safe(d)
  BY <1>0, WriteTyped DEF CtlInv, TypeInv
<1>2. CASE e = d
  <2>1. Safe(d)'
    BY <1>1, SafeKept
  <2> QED BY <1>2, <2>1
<1>3. CASE e.needs
  <2>1. e \notin Finalized
    BY <1>3 DEF Finalized, IsFinalized
  <2> QED BY <2>1, NeedsNotSafe
<1>4. ASSUME NEW i \in DOMAIN d.blocks, e = [d EXCEPT !.blocks = RemoveAt(d.blocks, i)]
      PROVE  Safe(e)'
  <2>1. e.needs = d.needs /\ e.title = d.title /\ d.blocks # <<>>
    <3>1. d.blocks # <<>>
      OBVIOUS
    <3> QED BY <1>1, <1>4, <3>1 DEF Report
  <2>2. e \in Finalized => d \in Finalized
    BY <1>1, <2>1 DEF Finalized, IsFinalized, HasContent
  <2>3. \A w \in Report : <<d, w>> \in Parts => <<e, w>> \in Parts
    BY <1>1, <1>4, PartsRemove
  <2>4. \A w : <<d, w>> \in Parts => w \in Report
    BY DEF Parts
  <2> QED BY <1>1, <2>2, <2>3, <2>4 DEF Safe
<1>5. CASE ManageReportBlocks
  <2>1. BlocksEffect
    BY <1>0, <1>1, <1>5, BlocksStep
  <2>2. ASSUME NEW i, NEW needs, Removed(i, needs) PROVE Safe(e)'
    <3>1. i \in DOMAIN d.blocks /\ e = [d EXCEPT !.blocks = RemoveAt(d.blocks, i), !.needs = needs]
      BY <1>0, <2>2 DEF Removed
    <3>2. CASE needs = d.needs
      <4>1. [d EXCEPT !.blocks = RemoveAt(d.blocks, i), !.needs = d.needs] = [d EXCEPT !.blocks = RemoveAt(d.blocks, i)]
        BY <1>1 DEF Report
      <4> QED BY <1>4, <3>1, <3>2, <4>1
    <3>3. CASE needs = TRUE
      <4>1. e.needs
        BY <1>1, <3>1, <3>3 DEF Report
      <4> QED BY <1>3, <4>1
    <3> QED BY <1>0, <2>2, <3>2, <3>3 DEF Removed
  <2>3. ASSUME NEW rest, NEW at, NEW b, Put(rest, at, b) PROVE Safe(e)'
    <3>1. e = [d EXCEPT !.blocks = InsertAt(rest, at, b), !.needs = TRUE]
      BY <1>0, <2>3 DEF Put
    <3>2. e.needs
      BY <1>1, <3>1 DEF Report
    <3> QED BY <1>3, <3>2
  <2> QED BY <1>0, <1>2, <2>1, <2>2, <2>3 DEF BlocksEffect
<1>6. CASE CreateChart \/ ConfigureReport
  <2>1. e = d \/ e.needs
    BY <1>0, <1>1, <1>6 DEF CreateChart, ConfigureReport, ApplyReportChartMutation, ApplyReportLayoutMutation, Report
  <2> QED BY <1>2, <1>3, <2>1
<1> QED BY <1>5, <1>6

LEMMA SavedStep == ASSUME CtlInv, SavedInv, [Next]_vars PROVE SavedInv'
<1>0. PICK l, d, m, e : l = logged /\ d = report /\ m = logged' /\ e = report'
  OBVIOUS
<1>1. (\A r \in Runs : disk[r].row => disk'[r] = disk[r]) /\ unsaved \subseteq unsaved'
  BY RowsKept
<1>2. Safe(l)' /\ (~call.ok => Safe(d)') /\ l \in Report /\ d \in Report
  BY <1>0, <1>1, SafeKept DEF SavedInv, CtlInv, TypeInv
<1>3. SUFFICES Safe(m)' /\ (~call'.ok => Safe(e)')
  <2>1. ASSUME Safe(m)' PROVE Safe(logged)'
    BY <1>0, <2>1 DEF Safe
  <2>2. ASSUME Safe(e)' PROVE Safe(report)'
    BY <1>0, <2>2 DEF Safe
  <2> QED BY <2>1, <2>2 DEF SavedInv
<1>4. CASE ManageReportBlocks \/ CreateChart \/ ConfigureReport
  <2>1. m = l /\ UNCHANGED <<disk, unsaved>> /\ pc = "turn"
    BY <1>0, <1>4 DEF ManageReportBlocks, CreateChart, ConfigureReport, Wrote, Calls
  <2>2. Safe(report)
    BY <2>1 DEF CtlInv, CallInv, SavedInv
  <2> QED BY <1>0, <1>2, <1>4, <2>1, <2>2, SavedWrite
<1>5. CASE \/ \E title \in {"", "T"}, ambiguous \in BOOLEAN : FinalizeReadSources(title, ambiguous)
           \/ FinalizeReport
  <2>1. m = l /\ pc \in {"turn", "finalize"} /\ (e = d \/ call'.ok)
    BY <1>0, <1>5 DEF FinalizeReadSources, FinalizeReport, CtlInv, TypeInv, Call
  <2>2. ~call.ok
    BY <2>1 DEF CtlInv, CallInv
  <2> QED BY <1>2, <2>1, <2>2
<1>6. CASE DropResult
  <2>1. m = l /\ e = d /\ (call.ok => d \in unsaved')
    BY <1>0, <1>6 DEF DropResult
  <2>2. call.ok => Safe(d)'
    BY <1>2, <2>1, PartsRefl DEF Safe
  <2> QED BY <1>2, <2>1, <2>2
<1>7. CASE EmitResult
  <2>1. e = d /\ (m = l \/ (call.tool # "finalize" /\ m = d)) /\ (call.ok => call'.ok)
    BY <1>0, <1>7 DEF EmitResult
  <2>2. call.ok => call.tool = "finalize"
    BY DEF CtlInv, CallInv
  <2> QED BY <1>2, <2>1, <2>2
<1>8. CASE FinalizeAndPersistReport
  <2>1. Stores(TRUE) /\ m = d /\ e = d /\ run \in Runs /\ TypeInv
    BY <1>0, <1>8 DEF FinalizeAndPersistReport, CtlInv, RowInv
  <2>2. disk'[run].row /\ disk'[run].doc = d
    BY <1>0, <2>1, StoresIs
  <2>3. Safe(d)'
    BY <1>2, <2>1, <2>2, PartsRefl DEF Safe
  <2> QED BY <2>1, <2>3
<1>9. CASE SaveFails
  <2>1. m = l /\ e.needs
    BY <1>0, <1>2, <1>9 DEF SaveFails, Report
  <2>2. e \notin Finalized
    BY <2>1 DEF Finalized, IsFinalized
  <2> QED BY <1>2, <2>1, <2>2, NeedsNotSafe
<1>10. CASE EndRun \/ Stop \/ UNCHANGED vars
  <2>1. m = l /\ e = d /\ (call' = call \/ pc \in {"turn", "done"})
    BY <1>0, <1>10 DEF EndRun, Stop, vars
  <2>2. pc \in {"turn", "done"} => ~call.ok
    BY DEF CtlInv, CallInv
  <2> QED BY <1>2, <2>1, <2>2
<1>11. ASSUME NEW target \in 0..MaxRuns, NEW scope \in Scopes, PrepareUserRun(target, scope)
       PROVE  Safe(m)' /\ (~call'.ok => Safe(e)')
  <2>1. /\ m = l /\ pc = "none" /\ UNCHANGED disk /\ e \in Report
        /\ e = d \/ (target \in Runs /\ disk[target].row /\ e = disk[target].doc)
    BY <1>0, <1>11, PrepareIs
  <2>2. ~call.ok
    BY <2>1 DEF CtlInv, CallInv
  <2>3. target \in Runs /\ disk[target].row /\ e = disk[target].doc => Safe(e)'
    BY <2>1, PartsRefl DEF Safe
  <2> QED BY <1>2, <2>1, <2>2, <2>3
<1>12. CASE Reset
  <2>1. m = l /\ e = EmptyReport
    BY <1>0, <1>12 DEF Reset
  <2>2. e \notin Finalized
    BY <2>1 DEF Finalized, IsFinalized, EmptyReport
  <2> QED BY <1>2, <2>1, <2>2, NeedsNotSafe
<1>13. CASE Restart
  <2>1. m = l /\ e = l
    BY <1>0, <1>13 DEF Restart
  <2> QED BY <1>2, <2>1
<1> QED BY <1>4, <1>5, <1>6, <1>7, <1>8, <1>9, <1>10, <1>11, <1>12, <1>13 DEF Next

\* A report that calls itself finalized, in the session or in the event log, is stored for
\* some run or a stop has dropped its result: a failing step of saving is rolled back, what
\* changes a finalized report makes it a draft, and a block that an upsert loses on its way
\* is the only difference.
THEOREM FinalizedStored == Spec => []FinalizedIsSaved
<1>1. Init => SavedInv
  <2> SUFFICES ASSUME Init PROVE SavedInv
    OBVIOUS
  <2>1. EmptyReport \notin Finalized
    BY DEF Finalized, IsFinalized, EmptyReport
  <2> QED BY <2>1 DEF Init, SavedInv, Safe
<1>2. CtlInv /\ SavedInv /\ [Next]_vars => SavedInv'
  BY SavedStep
<1>3. CtlInv /\ SavedInv => FinalizedIsSaved
  <2> SUFFICES ASSUME CtlInv, SavedInv, NEW doc \in {logged} \cup (IF call.ok THEN {} ELSE {report}), IsFinalized(doc)
               PROVE  \/ \E r \in Runs : disk[r].row /\ PartOf(doc, disk[r].doc)
                      \/ \E d \in unsaved : PartOf(doc, d)
    BY DEF FinalizedIsSaved
  <2>1. doc \in Report /\ Safe(doc)
    BY DEF SavedInv, CtlInv, TypeInv
  <2>2. doc \in Finalized
    BY <2>1 DEF Finalized
  <2>3. \A w : <<doc, w>> \in Parts => PartOf(doc, w)
    BY DEF Parts
  <2> QED BY <2>1, <2>2, <2>3 DEF Safe
<1> QED BY <1>1, <1>2, <1>3, ControlInvariance, PTL DEF Spec

---------------------------------------------------------------------------
(* The edit scope.                                                         *)

\* A report and the edit state that a scope gives it.
Configs == {<<d, ConfigureEditState(d, s)>> : d \in Report, s \in Scopes}

\* Lists that are the same but for one id; scopes of a selection; a block and the one it was
\* rewritten from, under such a scope.
Distinct  == {bs \in Seq(Block) : Unique(bs)}
SameLists == {q \in Seq(Block) \X Seq(Block) \X Nat : SameOthers(q[1], q[2], q[3])}
Selecting == {s \in EditScope : ScopeKind(s) = "partial_selection"}
Rewritten ==
    {q \in Block \X Block \X EditScope :
        LET bounds == SelectionBounds(q[2].text, q[3])
        IN  /\ bounds # <<>>
            /\ [q[1] EXCEPT !.text = <<>>] = [q[2] EXCEPT !.text = <<>>]
            /\ IsPrefix(SubSeq(q[2].text, 1, bounds[1] - 1), q[1].text)
            /\ IsSuffix(SubSeq(q[2].text, bounds[2], Len(q[2].text)), q[1].text)}

OthersInv ==
    edit.scope.preserve =>
        /\ <<report.blocks, base.blocks, edit.scope.block>> \in SameLists
        /\ \A c \in Charts \ edit.allowed : report.charts[c] = base.charts[c]

SelectionInv ==
    edit.scope \in Selecting =>
        \A i \in DOMAIN report.blocks, j \in DOMAIN base.blocks :
            /\ report.blocks[i].id = edit.scope.block /\ base.blocks[j].id = edit.scope.block
            /\ report.blocks[i] # base.blocks[j]
            => <<report.blocks[i], base.blocks[j], edit.scope>> \in Rewritten

\* While a run has an edit scope, it is that of the report the run began with.
ScopeInv ==
    pc # "none" /\ edit.scope.mode # "" =>
        /\ <<base, edit>> \in Configs /\ base.blocks \in Distinct
        /\ OthersInv /\ SelectionInv

LEMMA ConfigsIs ==
    ASSUME NEW d, NEW x, <<d, x>> \in Configs
    PROVE  /\ d \in Report /\ x.scope \in EditScope /\ x = ConfigureEditState(d, x.scope)
           /\ x.allowed = EditableCharts(d, x.scope)
<1>1. PICK s \in Scopes : d \in Report /\ x = ConfigureEditState(d, s)
  BY DEF Configs
<1>2. x.scope = s /\ x.allowed = EditableCharts(d, s)
  BY <1>1 DEF ConfigureEditState
<1> QED BY <1>1, <1>2, ReportDraftAssumption

TargetOf(o) == [text |-> o.text, kind |-> o.kind, title |-> o.title, chart |-> o.chart, src |-> o.src]

LEMMA BlockOf == ASSUME NEW bs \in Seq(Block), NEW j \in DOMAIN bs PROVE bs[j] \in Block
OBVIOUS

\* The target of a scope is the block of its id.
LEMMA TargetIs ==
    ASSUME NEW d \in Report, NEW bs \in Seq(Block), bs = d.blocks, Unique(bs), NEW s, NEW j \in DOMAIN bs,
           bs[j].id = s.block, NEW t, t = ConfigureEditState(d, s).target, t.text # <<>>
    PROVE  t = TargetOf(bs[j])
<1>1. PICK n : n = FindReportBlockIndex(bs, s.block)
  OBVIOUS
<1>2. n \in DOMAIN bs /\ bs[n].id = s.block
  BY <1>1, FindIs
<1>3. n = j
  BY <1>2 DEF Unique
<1>4. n # 0
  BY <1>2
<1>5. t = IF s.block = NoId \/ n = 0 THEN NoTarget
          ELSE [text |-> bs[n].text, kind |-> bs[n].kind, title |-> bs[n].title, chart |-> bs[n].chart, src |-> bs[n].src]
  <2>1. \A sc, al, ta : [scope |-> sc, allowed |-> al, target |-> ta].target = ta
    OBVIOUS
  <2> QED BY <1>1, <2>1, Zenon DEF ConfigureEditState
<1>6. NoTarget.text = <<>>
  BY DEF NoTarget
<1> QED BY <1>3, <1>4, <1>5, <1>6 DEF TargetOf

\* A block with the fields of another and the text around its selection.
LEMMA RewrittenBy ==
    ASSUME NEW b \in Block, NEW o \in Block, NEW s \in EditScope, NEW t,
           t = TargetOf(o),
           b.id = o.id, t.kind \in {"", b.kind}, <<b.title, b.chart, b.src>> = <<t.title, t.chart, t.src>>,
           SelectionBounds(t.text, s) # <<>>,
           IsPrefix(SubSeq(t.text, 1, SelectionBounds(t.text, s)[1] - 1), b.text),
           IsSuffix(SubSeq(t.text, SelectionBounds(t.text, s)[2], Len(t.text)), b.text)
    PROVE  <<b, o, s>> \in Rewritten
<1>1. t.text = o.text /\ t.kind = o.kind /\ t.title = o.title /\ t.chart = o.chart /\ t.src = o.src
  BY DEF TargetOf
<1>2. b.kind = o.kind /\ b.title = o.title /\ b.chart = o.chart /\ b.src = o.src
  BY <1>1 DEF Block
<1>3. [b EXCEPT !.text = <<>>] = [o EXCEPT !.text = <<>>]
  BY <1>2 DEF Block
<1>4. /\ SelectionBounds(o.text, s) # <<>>
      /\ IsPrefix(SubSeq(o.text, 1, SelectionBounds(o.text, s)[1] - 1), b.text)
      /\ IsSuffix(SubSeq(o.text, SelectionBounds(o.text, s)[2], Len(o.text)), b.text)
  BY <1>1, Zenon
<1>5. PICK q : q = <<b, o, s>>
  OBVIOUS
<1>6. q \in Block \X Block \X EditScope /\ q[1] = b /\ q[2] = o /\ q[3] = s
  BY <1>5
<1>7. q \in Rewritten
  BY <1>3, <1>4, <1>6, Zenon DEF Rewritten
<1> QED BY <1>5, <1>7

\* The block that may replace the selected one has its fields, and the text around the selection.
LEMMA SelectionAllowed ==
    ASSUME NEW x, x = edit, NEW d, <<d, x>> \in Configs, d.blocks \in Distinct, x.scope.mode # "",
           x.scope \in Selecting, NEW b \in Block, SelectionBlockMutationAllowed(b),
           NEW j \in DOMAIN d.blocks, d.blocks[j].id = x.scope.block
    PROVE  <<b, d.blocks[j], x.scope>> \in Rewritten
<1>0. PICK s, t, bs : s = x.scope /\ t = x.target /\ bs = d.blocks
  OBVIOUS
<1>1. d \in Report /\ s \in EditScope /\ x = ConfigureEditState(d, s) /\ ScopeKind(s) = "partial_selection"
  BY <1>0, ConfigsIs DEF Selecting
<1>2. bs \in Seq(Block) /\ Unique(bs) /\ j \in DOMAIN bs /\ bs[j].id = s.block
  BY <1>0 DEF Distinct
<1>3. bs[j] \in Block
  BY <1>2, BlockOf, Zenon
<1>4. /\ b.id = s.block /\ t.text # <<>>
      /\ SelectionBounds(t.text, s) # <<>>
      /\ IsPrefix(SubSeq(t.text, 1, SelectionBounds(t.text, s)[1] - 1), b.text)
      /\ IsSuffix(SubSeq(t.text, SelectionBounds(t.text, s)[2], Len(t.text)), b.text)
  BY <1>0, <1>1, Zenon DEF SelectionBlockMutationAllowed, SelectionMutationAllowed
<1>5. t.kind \in {"", b.kind} /\ <<b.title, b.chart, b.src>> = <<t.title, t.chart, t.src>>
  BY <1>0, <1>1, Zenon DEF SelectionBlockMutationAllowed
<1>6. t = ConfigureEditState(d, s).target
  BY <1>0, <1>1, Zenon
<1>7. t = TargetOf(bs[j])
  <2>1. bs = d.blocks /\ t.text # <<>>
    BY <1>0, <1>4
  <2> QED BY <1>1, <1>2, <1>6, <2>1, TargetIs, ZenonT(60)
<1>8. <<b, bs[j], s>> \in Rewritten
  BY <1>1, <1>2, <1>3, <1>4, <1>5, <1>7, RewrittenBy
<1> QED BY <1>0, <1>8

LEMMA SameListsIs ==
    ASSUME NEW x, NEW y, NEW id
    PROVE  <<x, y, id>> \in SameLists <=> x \in Seq(Block) /\ y \in Seq(Block) /\ id \in Nat /\ SameOthers(x, y, id)
BY DEF SameLists

\* A step that leaves blocks, charts and scope alone.
LEMMA ScopeQuiet ==
    ASSUME ScopeInv, UNCHANGED <<edit, base>>, report'.blocks = report.blocks, report'.charts = report.charts,
           pc' # "none" => pc # "none"
    PROVE  ScopeInv'
<1>1. edit' = edit /\ base' = base
  OBVIOUS
<1>2. OthersInv' <=> OthersInv
  BY <1>1, Zenon DEF OthersInv
<1>3. SelectionInv' <=> SelectionInv
  BY <1>1, Zenon DEF SelectionInv
<1> QED BY <1>1, <1>2, <1>3, Zenon DEF ScopeInv

LEMMA ScopeOver == ASSUME pc' = "none" \/ edit'.scope.mode = "" PROVE ScopeInv'
BY DEF ScopeInv

LEMMA NoScopeMode == NoEdit.scope.mode = "" /\ NoScope.mode = ""
BY DEF NoEdit, NoScope

\* What is left of a list after a removal was in it.
LEMMA RemovedFrom ==
    ASSUME NEW s \in Seq(Block), NEW i \in DOMAIN s, NEW v, v = RemoveAt(s, i), NEW m \in DOMAIN v
    PROVE  \E l \in DOMAIN s : v[m] = s[l]
<1>1. /\ DOMAIN v = 1..(Len(s) - 1)
      /\ \A k \in DOMAIN v : k < i => k \in DOMAIN s /\ v[k] = s[k]
      /\ \A k \in DOMAIN v : k >= i => k + 1 \in DOMAIN s /\ v[k] = s[k + 1]
  BY RemoveAtIs
<1>2. DOMAIN s = 1..Len(s) /\ Len(s) \in Nat
  OBVIOUS
<1>3. m \in Int /\ i \in Int
  BY <1>1, <1>2
<1> QED BY <1>1, <1>3

\* Every block after the call was there before, or the selection allows it.
LEMMA BlocksFrom ==
    ASSUME report \in Report, BlocksEffect, NEW bs, bs = report.blocks, NEW u, u = report'.blocks, NEW k \in DOMAIN u
    PROVE  (\E l \in DOMAIN bs : u[k] = bs[l]) \/ (u[k] \in Block /\ SelectionBlockMutationAllowed(u[k]))
<1>1. bs \in Seq(Block)
  BY DEF Report
<1>2. CASE report' = report
  BY <1>2
<1>3. ASSUME NEW i \in DOMAIN bs, NEW v, v = RemoveAt(bs, i), NEW m \in DOMAIN v PROVE \E l \in DOMAIN bs : v[m] = bs[l]
  BY <1>1, <1>3, RemovedFrom
<1>4. ASSUME NEW i, NEW needs, Removed(i, needs) PROVE \E l \in DOMAIN bs : u[k] = bs[l]
  <2>1. i \in DOMAIN bs /\ u = RemoveAt(bs, i)
    BY <1>4 DEF Removed, Report
  <2> QED BY <1>3, <2>1
<1>5. ASSUME NEW rest, NEW at, NEW b, Put(rest, at, b)
      PROVE  (\E l \in DOMAIN bs : u[k] = bs[l]) \/ (u[k] \in Block /\ SelectionBlockMutationAllowed(u[k]))
  <2>1. rest \in Seq(Block) /\ at \in 1..(Len(rest) + 1) /\ b \in Block /\ u = InsertAt(rest, at, b)
    BY <1>5 DEF Put, Report
  <2>2. \A m \in DOMAIN rest : \E l \in DOMAIN bs : rest[m] = bs[l]
    BY <1>3, <1>5 DEF Put
  <2>3. u[k] = b \/ \E m \in DOMAIN rest : u[k] = rest[m]
    <3>1. /\ DOMAIN u = 1..(Len(rest) + 1) /\ u[at] = b
          /\ (k < at => k \in DOMAIN rest /\ u[k] = rest[k]) /\ (k > at => k - 1 \in DOMAIN rest /\ u[k] = rest[k - 1])
      BY <2>1, InsertAtIs
    <3>2. k \in Int /\ at \in Int
      BY <2>1, <3>1
    <3> QED BY <3>1, <3>2
  <2>4. SelectionBlockMutationAllowed(b) \/ \E l \in DOMAIN bs : b = bs[l]
    BY <1>5 DEF Put
  <2>5. CASE u[k] = b /\ SelectionBlockMutationAllowed(b)
    BY <2>1, <2>5, Zenon
  <2> QED BY <2>2, <2>3, <2>4, <2>5, Zenon
<1> QED BY <1>2, <1>4, <1>5, Zenon DEF BlocksEffect

\* Under a scope that preserves the rest, only the block of the scope is touched.
LEMMA OthersStay ==
    ASSUME report \in Report, BlocksEffect, Preserving, NEW bs, bs = report.blocks, NEW u, u = report'.blocks,
           NEW os, NEW id, id = edit.scope.block, <<bs, os, id>> \in SameLists
    PROVE  <<u, os, id>> \in SameLists
<1>1. bs \in Seq(Block) /\ os \in Seq(Block) /\ id \in Nat /\ SameOthers(bs, os, id)
  BY SameListsIs
<1>2. CASE report' = report
  BY <1>2
<1>3. ASSUME NEW i \in DOMAIN bs, NEW v, v = RemoveAt(bs, i), bs[i].id = id PROVE v \in Seq(Block) /\ SameOthers(v, os, id)
  BY <1>1, <1>3, RemoveAtIs, OthersRemove
<1>4. ASSUME NEW i, NEW needs, Removed(i, needs) PROVE <<u, os, id>> \in SameLists
  <2>1. i \in DOMAIN bs /\ u = RemoveAt(bs, i) /\ bs[i].id = id
    BY <1>4 DEF Removed, Report
  <2> QED BY <1>1, <1>3, <2>1, SameListsIs
<1>5. ASSUME NEW rest, NEW at, NEW b, Put(rest, at, b) PROVE <<u, os, id>> \in SameLists
  <2>1. rest \in Seq(Block) /\ at \in 1..(Len(rest) + 1) /\ b \in Block /\ u = InsertAt(rest, at, b) /\ b.id = id
    BY <1>5 DEF Put, Report
  <2>2. rest = bs \/ \E i \in DOMAIN bs : bs[i].id = id /\ rest = RemoveAt(bs, i)
    BY <1>5, <2>1 DEF Put
  <2>3. SameOthers(rest, os, b.id)
    BY <1>1, <1>3, <2>1, <2>2
  <2>4. u \in Seq(Block) /\ SameOthers(u, os, b.id)
    BY <1>1, <2>1, <2>3, InsertAtIs, OthersInsert
  <2> QED BY <1>1, <2>1, <2>4, SameListsIs
<1> QED BY <1>2, <1>4, <1>5 DEF BlocksEffect

LEMMA ScopeBlocks ==
    ASSUME report \in Report, ScopeInv, BlocksEffect, UNCHANGED <<edit, base>>, report'.charts = report.charts,
           pc # "none"
    PROVE  ScopeInv'
<1>0. PICK bs, u, d, x : bs = report.blocks /\ u = report'.blocks /\ d = base /\ x = edit
  OBVIOUS
<1>1. SUFFICES ASSUME x.scope.mode # "" PROVE ScopeInv'
  BY <1>0 DEF ScopeInv
<1>2. <<d, x>> \in Configs /\ d.blocks \in Distinct /\ OthersInv /\ SelectionInv
  BY <1>0, <1>1 DEF ScopeInv
<1>3. OthersInv'
  <2>1. ASSUME x.scope.preserve PROVE <<u, d.blocks, x.scope.block>> \in SameLists
    <3>1. <<bs, d.blocks, x.scope.block>> \in SameLists
      BY <1>0, <1>2, <2>1 DEF OthersInv
    <3>2. Preserving
      BY <1>0, <1>1, <2>1 DEF Preserving
    <3> QED BY <1>0, <3>1, <3>2, OthersStay
  <2>2. x.scope.preserve => \A c \in Charts \ x.allowed : report.charts[c] = base.charts[c]
    BY <1>0, <1>2 DEF OthersInv
  <2> QED BY <1>0, <2>1, <2>2 DEF OthersInv
<1>4. SelectionInv'
  <2>1. ASSUME x.scope \in Selecting, NEW k \in DOMAIN u, NEW j \in DOMAIN d.blocks,
               u[k].id = x.scope.block, d.blocks[j].id = x.scope.block, u[k] # d.blocks[j]
        PROVE  <<u[k], d.blocks[j], x.scope>> \in Rewritten
    <3>1. CASE \E l \in DOMAIN bs : u[k] = bs[l]
      BY <1>0, <1>2, <2>1, <3>1 DEF SelectionInv
    <3>2. CASE u[k] \in Block /\ SelectionBlockMutationAllowed(u[k])
      BY <1>0, <1>1, <1>2, <2>1, <3>2, SelectionAllowed
    <3> QED BY <1>0, <3>1, <3>2, BlocksFrom
  <2> QED BY <1>0, <2>1 DEF SelectionInv
<1> QED BY <1>0, <1>2, <1>3, <1>4 DEF ScopeInv

LEMMA ScopeStep == ASSUME CtlInv, UniqueInv, ScopeInv, [Next]_vars PROVE ScopeInv'
<1>0. report \in Report
  BY DEF CtlInv, TypeInv
<1>1. CASE ManageReportBlocks
  <2>1. UNCHANGED <<edit, base>> /\ pc # "none"
    BY <1>1 DEF ManageReportBlocks, Wrote, Calls
  <2>2. BlocksEffect
    BY <1>0, <1>1, BlocksStep
  <2>3. report'.charts = report.charts
    BY <1>0, <2>2 DEF BlocksEffect, Removed, Put, Report
  <2> QED BY <1>0, <2>1, <2>2, <2>3, ScopeBlocks
<1>2. CASE CreateChart
  <2>1. UNCHANGED <<edit, base>> /\ pc # "none"
    BY <1>2 DEF CreateChart, Wrote, Calls
  <2>2. PICK c \in Charts, option \in BuildOptionFromDSL : ApplyReportChartMutation(c, option)
    BY <1>2, Zenon DEF CreateChart
  <2>3. CASE report' = report
    BY <2>1, <2>3, ScopeQuiet
  <2>4. CASE ChartMutationAllowed(c) /\ report' = [report EXCEPT !.charts[c] = option, !.needs = TRUE]
    <3>1. report'.blocks = report.blocks /\ \A e \in Charts : e # c => report'.charts[e] = report.charts[e]
      BY <1>0, <2>4 DEF Report
    <3>2. edit.scope.mode # "" /\ edit.scope.preserve => c \in edit.allowed
      BY <2>4 DEF ChartMutationAllowed, Preserving
    <3>3. edit.scope.mode # "" /\ OthersInv => OthersInv'
      BY <2>1, <3>1, <3>2 DEF OthersInv
    <3>4. SelectionInv => SelectionInv'
      BY <2>1, <3>1 DEF SelectionInv
    <3> QED BY <2>1, <3>3, <3>4 DEF ScopeInv
  <2> QED BY <2>2, <2>3, <2>4 DEF ApplyReportChartMutation
<1>3. CASE \/ ConfigureReport \/ FinalizeReport
           \/ \E title \in {"", "T"}, ambiguous \in BOOLEAN : FinalizeReadSources(title, ambiguous)
  <2>1. UNCHANGED <<edit, base>> /\ pc # "none"
    BY <1>3 DEF ConfigureReport, Wrote, Calls, FinalizeReport, FinalizeReadSources
  <2>2. report'.blocks = report.blocks /\ report'.charts = report.charts
    BY <1>0, <1>3 DEF ConfigureReport, ApplyReportLayoutMutation, FinalizeReport, FinalizeReadSources, Report
  <2> QED BY <2>1, <2>2, ScopeQuiet
<1>4. CASE EmitResult \/ FinalizeAndPersistReport \/ Stop \/ UNCHANGED vars
  <2>1. UNCHANGED <<edit, base, report>> /\ (pc' # "none" => pc # "none")
    BY <1>4 DEF EmitResult, FinalizeAndPersistReport, Stop, vars
  <2> QED BY <2>1, ScopeQuiet
<1>5. CASE DropResult \/ SaveFails \/ EndRun \/ Restart
  <2>1. pc' = "none"
    BY <1>5 DEF DropResult, SaveFails, EndRun, Restart, Ends
  <2> QED BY <2>1, ScopeOver
<1>6. CASE Reset
  <2>1. edit'.scope.mode = ""
    BY <1>6, NoScopeMode DEF Reset
  <2> QED BY <2>1, ScopeOver
<1>7. ASSUME NEW target \in 0..MaxRuns, NEW scope \in Scopes, PrepareUserRun(target, scope)
      PROVE  ScopeInv'
  <2>1. /\ report' = report \/ (\E r \in Runs : report' = disk[r].doc)
        /\ report' \in Report /\ base' = (IF scope = NoScope THEN EmptyReport ELSE report')
        /\ edit' = ConfigureEditState(report', scope)
    BY <1>7, PrepareIs
  <2>2. PICK e, x : e = report' /\ x = edit'
    OBVIOUS
  <2>3. e \in Report /\ Unique(e.blocks) /\ x = ConfigureEditState(e, scope) /\ x.scope = scope
    BY <2>1, <2>2 DEF UniqueInv, ConfigureEditState
  <2>4. CASE scope.mode = ""
    <3>1. edit'.scope.mode = ""
      BY <2>2, <2>3, <2>4
    <3> QED BY <3>1, ScopeOver
  <2>5. CASE scope.mode # ""
    <3>1. base' = e
      BY <2>1, <2>2, <2>5, NoScopeMode
    <3>2. <<e, x>> \in Configs
      BY <2>3 DEF Configs
    <3>3. e.blocks \in Distinct /\ scope.block \in Nat
      BY <2>3, ReportDraftAssumption DEF Distinct, Report, EditScope
    <3>4. <<e.blocks, e.blocks, scope.block>> \in SameLists
      BY <2>3, <3>3, OthersRefl, SameListsIs DEF Distinct
    <3>5. OthersInv'
      BY <2>2, <2>3, <3>1, <3>4 DEF OthersInv
    <3>6. SelectionInv'
      BY <2>2, <2>3, <3>1 DEF SelectionInv, Unique
    <3> QED BY <2>2, <3>1, <3>2, <3>3, <3>5, <3>6 DEF ScopeInv
  <2> QED BY <2>4, <2>5
<1> QED BY <1>1, <1>2, <1>3, <1>4, <1>5, <1>6, <1>7 DEF Next

\* Whatever number of calls a run makes, what its edit scope does not name is as it was when
\* the run began: the other blocks in their order, the charts that are not the target's, and
\* of a selection the block's fields and the text around it.
THEOREM ScopeKept == Spec => []ScopePreserved
<1>1. Init => ScopeInv
  BY DEF Init, ScopeInv
<1>2. CtlInv /\ UniqueInv /\ ScopeInv /\ [Next]_vars => ScopeInv'
  BY ScopeStep
<1>3. ScopeInv => ScopePreserved
  <2> SUFFICES ASSUME ScopeInv PROVE OthersKept /\ SelectionKept
    BY DEF ScopePreserved
  <2>1. OthersKept
    <3> SUFFICES ASSUME pc # "none", Preserving
                 PROVE  /\ SameOthers(report.blocks, base.blocks, edit.scope.block)
                        /\ \A c \in Charts \ EditableCharts(base, edit.scope) : report.charts[c] = base.charts[c]
      BY DEF OthersKept
    <3>1. <<base, edit>> \in Configs /\ OthersInv /\ edit.scope.preserve
      BY DEF ScopeInv, Preserving
    <3>2. edit.allowed = EditableCharts(base, edit.scope)
      BY <3>1, ConfigsIs
    <3>3. SameOthers(report.blocks, base.blocks, edit.scope.block)
      BY <3>1, SameListsIs DEF OthersInv
    <3> QED BY <3>1, <3>2, <3>3 DEF OthersInv
  <2>2. SelectionKept
    <3> SUFFICES ASSUME pc # "none", edit.scope.mode # "", ScopeKind(edit.scope) = "partial_selection",
                        NEW i \in DOMAIN report.blocks, NEW j \in DOMAIN base.blocks,
                        report.blocks[i].id = edit.scope.block, base.blocks[j].id = report.blocks[i].id,
                        report.blocks[i] # base.blocks[j]
                 PROVE  LET b == report.blocks[i]
                            o == base.blocks[j]
                            bounds == SelectionBounds(o.text, edit.scope)
                        IN  /\ bounds # <<>>
                            /\ [b EXCEPT !.text = <<>>] = [o EXCEPT !.text = <<>>]
                            /\ IsPrefix(SubSeq(o.text, 1, bounds[1] - 1), b.text)
                            /\ IsSuffix(SubSeq(o.text, bounds[2], Len(o.text)), b.text)
      BY Zenon DEF SelectionKept
    <3>1. PICK b, o, s : b = report.blocks[i] /\ o = base.blocks[j] /\ s = edit.scope
      OBVIOUS
    <3>2. s \in EditScope
      BY <3>1, ConfigsIs DEF ScopeInv
    <3>3. <<b, o, s>> \in Rewritten
      BY <3>1, <3>2 DEF ScopeInv, SelectionInv, Selecting
    <3>4. LET bounds == SelectionBounds(o.text, s)
          IN  /\ bounds # <<>>
              /\ [b EXCEPT !.text = <<>>] = [o EXCEPT !.text = <<>>]
              /\ IsPrefix(SubSeq(o.text, 1, bounds[1] - 1), b.text)
              /\ IsSuffix(SubSeq(o.text, bounds[2], Len(o.text)), b.text)
      BY <3>3 DEF Rewritten
    <3> QED BY <3>1, <3>4, Zenon
  <2> QED BY <2>1, <2>2
<1>4. Spec => []UniqueInv
  BY UniqueInvariance
<1> QED BY <1>1, <1>2, <1>3, <1>4, ControlInvariance, PTL DEF Spec

-----------------------------------------------------------------------------
(* The page and its table of contents.  Both are made by going through     *)
(* lists; an induction over a list is one over a set of numbers.           *)

LEMMA Smallest == ASSUME NEW S, S \subseteq Nat, S # {} PROVE \E x \in S : \A y \in S : x <= y
<1> DEFINE R == {ss \in Nat \X Nat : ss[1] < ss[2]}
<1>1. IsWellFoundedOn(R, Nat)
  BY NatLessThanWellFounded DEF OpToRel
<1>2. PICK x \in S : \A y \in S : ~ (<<y, x>> \in R)
  <2> HIDE DEF R
  <2> QED BY <1>1, WFMin
<1>3. ASSUME NEW y \in S PROVE x <= y
  <2>1. <<y, x>> \in Nat \X Nat /\ (y < x => <<y, x>> \in R)
    OBVIOUS
  <2> QED BY <1>2, <2>1
<1> QED BY <1>3

LEMMA Induct ==
    ASSUME NEW N \in Nat, NEW T, 0 \in T, \A i \in 1..N : i - 1 \in T => i \in T
    PROVE  \A i \in 0..N : i \in T
<1> DEFINE S == {i \in 0..N : i \notin T}
<1>1. SUFFICES ASSUME S # {} PROVE FALSE
  OBVIOUS
<1>2. PICK x \in S : \A y \in S : x <= y
  <2>1. S \subseteq Nat
    OBVIOUS
  <2> HIDE DEF S
  <2> QED BY <1>1, <2>1, Smallest
<1>3. x \in 1..N /\ x - 1 \in 0..N /\ x - 1 \in Nat /\ ~(x <= x - 1)
  BY <1>2
<1>4. x - 1 \in T
  BY <1>2, <1>3
<1> QED BY <1>2, <1>3, <1>4

\* f goes from start over the steps 1 to N.
IsLoop(f, N, S, start, next) ==
    f \in [0..N -> S] /\ f[0] = start /\ \A i \in 1..N : f[i] = next[<<f[i - 1], i>>]

LEMMA Loop ==
    ASSUME NEW N \in Nat, NEW S, NEW start \in S, NEW next, next \in [S \X (1..N) -> S]
    PROVE  \E f : IsLoop(f, N, S, start, next)
<1> DEFINE Done(k) == \E f \in [0..k -> S] : f[0] = start /\ \A i \in 1..k : f[i] = next[<<f[i - 1], i>>]
           T == {k \in 0..N : Done(k)}
<1>1. 0 \in T
  <2>1. [i \in 0..0 |-> start] \in [0..0 -> S] /\ [i \in 0..0 |-> start][0] = start /\ 1..0 = {}
    OBVIOUS
  <2>2. Done(0)
    BY <2>1
  <2> QED BY <2>2
<1>2. ASSUME NEW k \in 1..N, k - 1 \in T PROVE k \in T
  <2>1. PICK f \in [0..(k - 1) -> S] : f[0] = start /\ \A i \in 1..(k - 1) : f[i] = next[<<f[i - 1], i>>]
    BY <1>2
  <2>2. k - 1 \in 0..(k - 1) /\ k \in 0..k /\ 0 \in 0..(k - 1)
    OBVIOUS
  <2>3. PICK v : v = next[<<f[k - 1], k>>]
    OBVIOUS
  <2>4. v \in S
    BY <2>2, <2>3
  <2>5. PICK g : g = [i \in 0..k |-> IF i = k THEN v ELSE f[i]]
    OBVIOUS
  <2>6. g \in [0..k -> S]
    BY <2>4, <2>5
  <2>7. \A i \in 0..(k - 1) : g[i] = f[i]
    BY <2>5
  <2>8. ASSUME NEW i \in 1..k PROVE g[i] = next[<<g[i - 1], i>>]
    <3>1. i - 1 \in 0..(k - 1) /\ g[i - 1] = f[i - 1]
      BY <2>7
    <3>2. CASE i = k
      <4>1. g[i] = v
        BY <2>2, <2>5, <3>2
      <4> QED BY <2>3, <3>1, <3>2, <4>1
    <3>3. CASE i # k
      <4>1. i \in 1..(k - 1) /\ i \in 0..(k - 1)
        BY <3>3
      <4> QED BY <2>1, <2>7, <3>1, <4>1
    <3> QED BY <3>2, <3>3
  <2>9. g[0] = start
    BY <2>1, <2>2, <2>7
  <2>10. Done(k)
    BY <2>6, <2>8, <2>9
  <2> QED BY <2>10
<1>3. N \in T
  <2> HIDE DEF T
  <2>1. N \in 0..N
    OBVIOUS
  <2> QED BY <1>1, <1>2, <2>1, Induct
<1> QED BY <1>3 DEF IsLoop


LEMMA FlattenEmpty == FlattenSeq(<<>>) = <<>>
BY DEF FlattenSeq

\* FlattenSeq goes through the sequence and appends.
LEMMA FlattenIs ==
    ASSUME NEW A, NEW ss \in Seq(Seq(A))
    PROVE  \E f \in [0..Len(ss) -> Seq(A)] :
               /\ f[0] = <<>> /\ \A i \in 1..Len(ss) : f[i] = f[i - 1] \o ss[i]
               /\ FlattenSeq(ss) = f[Len(ss)]
<1>1. PICK N \in Nat : N = Len(ss) /\ \A i \in 1..N : ss[i] \in Seq(A)
  OBVIOUS
<1>2. PICK next : next = [p \in Seq(A) \X (1..N) |-> p[1] \o ss[p[2]]]
  OBVIOUS
<1>3. next \in [Seq(A) \X (1..N) -> Seq(A)] /\ <<>> \in Seq(A)
  <2>1. ASSUME NEW p \in Seq(A) \X (1..N) PROVE p[1] \o ss[p[2]] \in Seq(A)
    <3>1. p[1] \in Seq(A) /\ ss[p[2]] \in Seq(A)
      BY <1>1
    <3> QED BY <3>1
  <2> QED BY <1>2, <2>1
<1>4. PICK f \in [0..N -> Seq(A)] : f[0] = <<>> /\ \A i \in 1..N : f[i] = next[<<f[i - 1], i>>]
  <2>1. PICK S : S = Seq(A)
    OBVIOUS
  <2>2. PICK e \in S : e = <<>>
    BY <1>3, <2>1
  <2>3. next \in [S \X (1..N) -> S]
    BY <1>3, <2>1
  <2>4. PICK f : IsLoop(f, N, S, e, next)
    BY <2>3, Loop, Zenon
  <2> QED BY <2>1, <2>2, <2>4 DEF IsLoop
<1>5. ASSUME NEW i \in 1..N PROVE f[i - 1] \in Seq(A) /\ f[i] = f[i - 1] \o ss[i]
  <2>1. i - 1 \in 0..N
    OBVIOUS
  <2>2. f[i - 1] \in Seq(A) /\ <<f[i - 1], i>> \in Seq(A) \X (1..N)
    BY <2>1
  <2>3. next[<<f[i - 1], i>>] = f[i - 1] \o ss[i]
    BY <1>2, <2>2
  <2> QED BY <1>4, <2>2, <2>3
<1>6. CASE N = 0
  <2>1. ss = <<>>
    <3>1. Len(ss) \notin Nat \ {0}
      BY <1>1, <1>6
    <3> QED BY <3>1, EmptySeq, Zenon
  <2>2. FlattenSeq(ss) = <<>>
    BY <2>1, FlattenEmpty, Zenon
  <2> QED BY <1>1, <1>4, <1>5, <1>6, <2>2
<1>7. CASE N # 0
  <2> DEFINE Solves(c) == c = [i \in 1..N |-> IF i = 1 THEN ss[i] ELSE c[i - 1] \o ss[i]]
  <2>1. PICK g : g = [i \in 1..N |-> f[i]]
    OBVIOUS
  <2>2. ASSUME NEW i \in 1..N PROVE g[i] = IF i = 1 THEN ss[i] ELSE g[i - 1] \o ss[i]
    <3>1. CASE i = 1
      <4>1. f[0] \o ss[1] = ss[1] /\ f[i - 1] = f[0]
        BY <1>1, <1>4, <3>1, ConcatEmptySeq
      <4> QED BY <1>5, <2>1, <3>1, <4>1
    <3>2. CASE i # 1
      <4>1. i - 1 \in 1..N
        BY <3>2
      <4> QED BY <1>5, <2>1, <3>2, <4>1
    <3> QED BY <3>1, <3>2
  <2>3. Solves(g)
    <3>1. PICK g2 : g2 = [i \in 1..N |-> IF i = 1 THEN ss[i] ELSE g[i - 1] \o ss[i]]
      OBVIOUS
    <3>2. g = g2
      BY <2>1, <2>2, <3>1
    <3> QED BY <3>1, <3>2
  <2>4. PICK c : Solves(c) /\ FlattenSeq(ss) = c[N]
    BY <1>1, <1>7, <2>3 DEF FlattenSeq
  <2>5. \A i \in 1..N : c[i] = IF i = 1 THEN ss[i] ELSE c[i - 1] \o ss[i]
    BY <2>4
  <2> DEFINE T == {i \in 0..N : i = 0 \/ c[i] = f[i]}
  <2>6. 0 \in T
    OBVIOUS
  <2>7. ASSUME NEW i \in 1..N, i - 1 \in T PROVE i \in T
    <3>1. CASE i = 1
      <4>1. f[i] = ss[i]
        BY <2>1, <2>2, <3>1
      <4> QED BY <2>5, <3>1, <4>1
    <3>2. CASE i # 1
      <4>1. c[i - 1] = f[i - 1]
        BY <2>7, <3>2
      <4>2. c[i] = c[i - 1] \o ss[i]
        BY <2>5, <3>2, Zenon
      <4>3. c[i] = f[i]
        BY <1>5, <4>1, <4>2, Zenon
      <4> QED BY <4>3
    <3> QED BY <3>1, <3>2
  <2>8. N \in T
    <3> HIDE DEF T
    <3>1. N \in 0..N
      OBVIOUS
    <3> QED BY <2>6, <2>7, <3>1, Induct
  <2> QED BY <1>1, <1>4, <1>5, <1>7, <2>4, <2>8
<1> QED BY <1>6, <1>7

\* p has the members of S up to i, in order.
Lists(p, S, i) ==
    /\ p \in Seq(Nat)
    /\ \A k \in 1..Len(p) : p[k] \in S /\ p[k] <= i
    /\ \A k, l \in 1..Len(p) : k < l => p[k] < p[l]
    /\ \A x \in S : x <= i => \E k \in 1..Len(p) : p[k] = x

LEMMA PositionsAre ==
    ASSUME NEW seq, NEW N \in Nat, Len(seq) = N, NEW S, S \subseteq 1..N
    PROVE  Lists(Positions(seq, S), S, N)
<1>1. PICK ss : ss = [i \in 1..N |-> IF i \in S THEN <<i>> ELSE <<>>]
  OBVIOUS
<1>2. ss \in Seq(Seq(Nat)) /\ Len(ss) = N
  <2>1. ASSUME NEW i \in 1..N PROVE (IF i \in S THEN <<i>> ELSE <<>>) \in Seq(Nat)
    <3>1. i \in Nat
      OBVIOUS
    <3> QED BY <3>1
  <2> QED BY <1>1, <2>1
<1>3. \E f \in [0..Len(ss) -> Seq(Nat)] :
          /\ f[0] = <<>> /\ \A i \in 1..Len(ss) : f[i] = f[i - 1] \o ss[i]
          /\ FlattenSeq(ss) = f[Len(ss)]
  BY <1>2, FlattenIs, Zenon
<1>4. PICK f : /\ f \in [0..N -> Seq(Nat)] /\ f[0] = <<>> /\ \A i \in 1..N : f[i] = f[i - 1] \o ss[i]
               /\ FlattenSeq(ss) = f[N]
  BY <1>2, <1>3, Zenon
<1> DEFINE T == {i \in 0..N : Lists(f[i], S, i)}
<1>5. 0 \in T
  <2>1. 0 \in 0..N /\ Len(<<>>) = 0 /\ <<>> \in Seq(Nat) /\ \A x \in S : ~(x <= 0)
    OBVIOUS
  <2>2. Lists(<<>>, S, 0)
    BY <2>1 DEF Lists
  <2>3. Lists(f[0], S, 0)
    BY <1>4, <2>2, Zenon
  <2> QED BY <2>1, <2>3
<1>6. ASSUME NEW i \in 1..N, i - 1 \in T PROVE i \in T
  <2>1. i \in 0..N /\ i - 1 \in 0..N
    OBVIOUS
  <2>2. PICK q, r : q = f[i - 1] /\ r = f[i]
    OBVIOUS
  <2>3. q \in Seq(Nat) /\ Lists(q, S, i - 1) /\ r = q \o ss[i]
    BY <1>4, <1>6, <2>1, <2>2
  <2>4. PICK K \in Nat : K = Len(q)
    BY <2>3
  <2>5. /\ \A k \in 1..K : q[k] \in Nat /\ q[k] \in S /\ q[k] <= i - 1
        /\ \A k, l \in 1..K : k < l => q[k] < q[l]
        /\ \A x \in S : x <= i - 1 => \E k \in 1..K : q[k] = x
    BY <2>3, <2>4 DEF Lists
  <2>6. CASE i \in S
    <3>1. r \in Seq(Nat) /\ Len(r) = K + 1 /\ r[K + 1] = i /\ \A k \in 1..K : r[k] = q[k]
      <4>1. ss[i] = <<i>>
        BY <1>1, <2>6
      <4> QED BY <2>3, <2>4, <4>1
    <3>2. ASSUME NEW k \in 1..(K + 1) PROVE r[k] \in S /\ r[k] <= i
      <4>1. CASE k = K + 1
        BY <2>6, <3>1, <4>1
      <4>2. CASE k # K + 1
        BY <2>5, <3>1, <4>2, k \in 1..K
      <4> QED BY <4>1, <4>2
    <3>3. ASSUME NEW k \in 1..(K + 1), NEW l \in 1..(K + 1), k < l PROVE r[k] < r[l]
      <4>1. k \in 1..K /\ r[k] = q[k] /\ q[k] <= i - 1 /\ q[k] \in Nat
        BY <2>5, <3>1, <3>3
      <4>2. CASE l = K + 1
        BY <3>1, <4>1, <4>2
      <4>3. CASE l # K + 1
        BY <2>5, <3>1, <3>3, <4>1, <4>3, l \in 1..K
      <4> QED BY <4>2, <4>3
    <3>4. ASSUME NEW x \in S, x <= i PROVE \E k \in 1..(K + 1) : r[k] = x
      <4>1. CASE x = i
        BY <3>1, <4>1, K + 1 \in 1..(K + 1)
      <4>2. CASE x # i
        <5>1. x <= i - 1
          BY <3>4, <4>2, x \in 1..N
        <5>2. PICK k \in 1..K : q[k] = x
          BY <2>5, <5>1
        <5> QED BY <3>1, <5>2, k \in 1..(K + 1)
      <4> QED BY <4>1, <4>2
    <3>5. Lists(r, S, i)
      BY <3>1, <3>2, <3>3, <3>4 DEF Lists
    <3> QED BY <2>1, <2>2, <3>5
  <2>7. CASE i \notin S
    <3>1. ss[i] = <<>>
      BY <1>1, <2>7
    <3>2. r = q
      BY <2>3, <3>1, ConcatEmptySeq
    <3>3. \A x \in S : x <= i => x <= i - 1
      <4> TAKE x \in S
      <4> QED BY <2>7, x \in 1..N
    <3>4. ASSUME NEW k \in 1..K PROVE q[k] \in S /\ q[k] <= i
      BY <2>5
    <3>5. Lists(q, S, i)
      BY <2>3, <2>4, <2>5, <3>3, <3>4 DEF Lists
    <3> QED BY <2>1, <2>2, <3>2, <3>5
  <2> QED BY <2>6, <2>7
<1>7. Lists(f[N], S, N)
  <2>1. N \in 0..N
    OBVIOUS
  <2>2. \A i \in 0..N : i \in T
    <3> HIDE DEF T
    <3> QED BY <1>5, <1>6, Induct
  <2> QED BY <2>1, <2>2
<1>8. Positions(seq, S) = FlattenSeq(ss)
  BY <1>1 DEF Positions
<1> QED BY <1>4, <1>7, <1>8

\* A list of n members, whatever they are.
IsList(s, n) == n \in Nat /\ s = [i \in 1..n |-> s[i]]

LEMMA ListLen == ASSUME NEW s, NEW n, IsList(s, n) PROVE Len(s) = n /\ DOMAIN s = 1..n
<1>1. n \in Nat /\ s = [i \in 1..n |-> s[i]]
  BY DEF IsList
<1>2. PICK A : A = {s[i] : i \in 1..n}
  OBVIOUS
<1>3. \A i \in 1..n : s[i] \in A
  BY <1>2
<1>4. s \in [1..n -> A]
  BY <1>1, <1>3
<1>5. s \in Seq(A) /\ Len(s) = n
  BY <1>1, <1>4
<1> QED BY <1>4, <1>5

\* Lists of lists are sequences of sequences of something.
LEMMA ListsTyped ==
    ASSUME NEW ss, NEW N, IsList(ss, N), \A k \in 1..N : \E n : IsList(ss[k], n)
    PROVE  \E A : ss \in Seq(Seq(A))
<1>1. N \in Nat /\ ss = [i \in 1..N |-> ss[i]]
  BY DEF IsList
<1>2. PICK A : A = UNION {{ss[k][j] : j \in DOMAIN ss[k]} : k \in 1..N}
  OBVIOUS
<1>3. ASSUME NEW k \in 1..N PROVE ss[k] \in Seq(A)
  <2>1. PICK s : s = ss[k]
    OBVIOUS
  <2>2. PICK n : IsList(s, n)
    BY <2>1
  <2>3. n \in Nat /\ s = [i \in 1..n |-> s[i]] /\ DOMAIN s = 1..n
    BY <2>2, ListLen DEF IsList
  <2>4. ASSUME NEW j \in 1..n PROVE s[j] \in A
    <3>1. s[j] \in {ss[k][i] : i \in DOMAIN ss[k]}
      BY <2>1, <2>3
    <3> QED BY <1>2, <3>1
  <2>5. s \in [1..n -> A]
    BY <2>3, <2>4
  <2>6. s \in Seq(A)
    BY <2>3, <2>5
  <2> QED BY <2>1, <2>6
<1>4. PICK S : S = Seq(A)
  OBVIOUS
<1>5. ss \in [1..N -> S]
  BY <1>1, <1>3, <1>4
<1>6. ss \in Seq(S)
  BY <1>1, <1>5
<1> QED BY <1>4, <1>6

\* FlattenSeq of lists, step by step.
Flattens(f, ss, N) ==
    /\ f[0] = <<>> /\ FlattenSeq(ss) = f[N]
    /\ \A i \in 0..N : Len(f[i]) \in Nat /\ DOMAIN f[i] = 1..Len(f[i])
    /\ \A i \in 1..N : /\ f[i] = f[i - 1] \o ss[i]
                       /\ Len(f[i - 1]) \in Nat /\ Len(ss[i]) \in Nat
                       /\ Len(f[i]) = Len(f[i - 1]) + Len(ss[i])
                       /\ \A j \in 1..Len(f[i - 1]) : f[i][j] = f[i - 1][j]
                       /\ \A j \in 1..Len(ss[i]) : f[i][Len(f[i - 1]) + j] = ss[i][j]

LEMMA FlattenList ==
    ASSUME NEW ss, NEW N, IsList(ss, N), \A k \in 1..N : \E n : IsList(ss[k], n)
    PROVE  \E f : Flattens(f, ss, N)
<1>1. PICK A : ss \in Seq(Seq(A))
  BY ListsTyped
<1>2. Len(ss) = N /\ N \in Nat
  BY ListLen DEF IsList
<1>3. \E f \in [0..Len(ss) -> Seq(A)] :
          /\ f[0] = <<>> /\ \A i \in 1..Len(ss) : f[i] = f[i - 1] \o ss[i]
          /\ FlattenSeq(ss) = f[Len(ss)]
  BY <1>1, FlattenIs, Zenon
<1>4. PICK f : /\ f \in [0..N -> Seq(A)] /\ f[0] = <<>> /\ \A i \in 1..N : f[i] = f[i - 1] \o ss[i]
               /\ FlattenSeq(ss) = f[N]
  BY <1>2, <1>3, Zenon
<1>5. ASSUME NEW i \in 1..N
      PROVE  /\ Len(f[i - 1]) \in Nat /\ Len(ss[i]) \in Nat
             /\ Len(f[i]) = Len(f[i - 1]) + Len(ss[i])
             /\ \A j \in 1..Len(f[i - 1]) : f[i][j] = f[i - 1][j]
             /\ \A j \in 1..Len(ss[i]) : f[i][Len(f[i - 1]) + j] = ss[i][j]
  <2>1. i - 1 \in 0..N
    BY <1>2
  <2>2. PICK p, q, r : p = f[i - 1] /\ q = f[i] /\ r = ss[i]
    OBVIOUS
  <2>3. p \in Seq(A)
    BY <1>4, <2>1, <2>2
  <2>4. r \in Seq(A)
    <3>1. PICK S : S = Seq(A)
      OBVIOUS
    <3>2. ss \in Seq(S) /\ i \in 1..Len(ss)
      BY <1>1, <1>2, <3>1
    <3>3. ss[i] \in S
      BY <3>2
    <3> QED BY <2>2, <3>1, <3>3
  <2>5. q = p \o r
    BY <1>4, <2>2, Zenon
  <2>6. /\ Len(p) \in Nat /\ Len(r) \in Nat /\ Len(q) = Len(p) + Len(r)
        /\ (\A j \in 1..Len(p) : q[j] = p[j]) /\ (\A j \in 1..Len(r) : q[Len(p) + j] = r[j])
    BY <2>3, <2>4, <2>5
  <2> QED BY <2>2, <2>6, Zenon
<1>6. ASSUME NEW i \in 0..N PROVE Len(f[i]) \in Nat /\ DOMAIN f[i] = 1..Len(f[i])
  <2>1. PICK p : p = f[i]
    OBVIOUS
  <2>2. p \in Seq(A)
    BY <1>4, <2>1
  <2>3. Len(p) \in Nat /\ DOMAIN p = 1..Len(p)
    BY <2>2
  <2> QED BY <2>1, <2>3, Zenon
<1>7. Flattens(f, ss, N)
  BY <1>4, <1>5, <1>6, Zenon DEF Flattens
<1> QED BY <1>7

\* c counts the members of the first lists.
Counts(c, parts, N) ==
    /\ c \in [0..N -> Nat] /\ c[0] = 0
    /\ \A j \in 1..N : c[j] = c[j - 1] + Len(parts[j])
    /\ \A k \in 1..N : SectionsBefore(parts, k) = c[k - 1]

LEMMA CountIs ==
    ASSUME NEW parts, NEW N, IsList(parts, N), \A k \in 1..N : \E n : IsList(parts[k], n)
    PROVE  \E c : Counts(c, parts, N)
<1>1. N \in Nat /\ Len(parts) = N
  BY ListLen DEF IsList
<1>2. \A k \in 1..N : Len(parts[k]) \in Nat
  <2> TAKE k \in 1..N
  <2>1. PICK n : IsList(parts[k], n)
    OBVIOUS
  <2>2. n \in Nat /\ Len(parts[k]) = n
    BY <2>1, ListLen DEF IsList
  <2> QED BY <2>2
<1> DEFINE Solves(c) == c = [j \in 0..N |-> IF j = 0 THEN 0 ELSE c[j - 1] + Len(parts[j])]
<1>3. PICK next : next = [p \in Nat \X (1..N) |-> p[1] + Len(parts[p[2]])]
  OBVIOUS
<1>4. next \in [Nat \X (1..N) -> Nat]
  <2>1. ASSUME NEW p \in Nat \X (1..N) PROVE p[1] + Len(parts[p[2]]) \in Nat
    <3>1. p[1] \in Nat /\ Len(parts[p[2]]) \in Nat
      BY <1>2
    <3> QED BY <3>1
  <2> QED BY <1>3, <2>1
<1>5. PICK f : IsLoop(f, N, Nat, 0, next)
  <2>1. 0 \in Nat
    OBVIOUS
  <2> QED BY <1>1, <1>4, <2>1, Loop, Zenon
<1>6. f \in [0..N -> Nat] /\ f[0] = 0 /\ \A j \in 1..N : f[j] = next[<<f[j - 1], j>>]
  BY <1>5, Zenon DEF IsLoop
<1>7. ASSUME NEW j \in 1..N PROVE f[j] = f[j - 1] + Len(parts[j])
  <2>1. <<f[j - 1], j>> \in Nat \X (1..N)
    BY <1>1, <1>6
  <2> QED BY <1>3, <1>6, <2>1
<1>8. Solves(f)
  <2>1. PICK g : g = [j \in 0..N |-> IF j = 0 THEN 0 ELSE f[j - 1] + Len(parts[j])]
    OBVIOUS
  <2>2. ASSUME NEW j \in 0..N PROVE f[j] = g[j]
    <3>1. CASE j = 0
      BY <1>6, <2>1, <3>1
    <3>2. CASE j # 0
      <4>1. j \in 1..N
        BY <1>1, <3>2
      <4> QED BY <1>7, <2>1, <3>2, <4>1
    <3> QED BY <3>1, <3>2
  <2>3. f = g
    BY <1>6, <2>1, <2>2
  <2> QED BY <2>1, <2>3
<1>9. PICK c : c = CHOOSE x : Solves(x)
  OBVIOUS
<1>10. Solves(c)
  BY <1>8, <1>9, Zenon
<1>11. c[0] = 0 /\ \A j \in 1..N : c[j] = c[j - 1] + Len(parts[j])
  BY <1>1, <1>10
<1> DEFINE T == {j \in 0..N : c[j] \in Nat}
<1>12. 0 \in T
  BY <1>1, <1>11
<1>13. ASSUME NEW j \in 1..N, j - 1 \in T PROVE j \in T
  BY <1>1, <1>2, <1>11, <1>13
<1>14. \A j \in 0..N : j \in T
  <2> HIDE DEF T
  <2> QED BY <1>1, <1>12, <1>13, Induct
<1>15. c \in [0..N -> Nat]
  BY <1>10, <1>14
<1>16. ASSUME NEW k \in 1..N PROVE SectionsBefore(parts, k) = c[k - 1]
  BY <1>1, <1>9, Zenon DEF SectionsBefore
<1> QED BY <1>11, <1>15, <1>16 DEF Counts

\* r has the members of the first i lists, each where c counts it.
FlatAt(r, c, ss, i) ==
    /\ Len(r) = c[i]
    /\ \A k \in 1..i : \A j \in 1..Len(ss[k]) :
           c[k - 1] + j \in 1..c[i] /\ r[c[k - 1] + j] = ss[k][j]

LEMMA FlattenAt ==
    ASSUME NEW ss, NEW N, IsList(ss, N), \A k \in 1..N : \E n : IsList(ss[k], n),
           NEW c, Counts(c, ss, N)
    PROVE  DOMAIN FlattenSeq(ss) = 1..c[N] /\ FlatAt(FlattenSeq(ss), c, ss, N)
<1>1. PICK f : Flattens(f, ss, N)
  BY FlattenList
<1>2. N \in Nat
  BY DEF IsList
<1>3. /\ f[0] = <<>> /\ FlattenSeq(ss) = f[N]
      /\ \A i \in 0..N : Len(f[i]) \in Nat /\ DOMAIN f[i] = 1..Len(f[i])
  BY <1>1 DEF Flattens
<1>4. ASSUME NEW i \in 1..N
      PROVE  /\ Len(f[i - 1]) \in Nat /\ Len(ss[i]) \in Nat
             /\ Len(f[i]) = Len(f[i - 1]) + Len(ss[i])
             /\ \A j \in 1..Len(f[i - 1]) : f[i][j] = f[i - 1][j]
             /\ \A j \in 1..Len(ss[i]) : f[i][Len(f[i - 1]) + j] = ss[i][j]
  BY <1>1, Zenon DEF Flattens
<1>5. c \in [0..N -> Nat] /\ c[0] = 0 /\ \A j \in 1..N : c[j] = c[j - 1] + Len(ss[j])
  BY DEF Counts
<1> DEFINE T == {i \in 0..N : FlatAt(f[i], c, ss, i)}
<1>6. 0 \in T
  <2>1. 0 \in 0..N /\ Len(<<>>) = 0 /\ 1..0 = {}
    BY <1>2
  <2>2. FlatAt(f[0], c, ss, 0)
    BY <1>3, <1>5, <2>1 DEF FlatAt
  <2> QED BY <2>1, <2>2
<1>7. ASSUME NEW i \in 1..N, i - 1 \in T PROVE i \in T
  <2>1. i \in 0..N /\ i - 1 \in 0..N /\ i \in Nat
    BY <1>2
  <2>2. PICK q, r, s, lo, hi : q = f[i - 1] /\ r = f[i] /\ s = ss[i] /\ lo = c[i - 1] /\ hi = c[i]
    OBVIOUS
  <2>3. FlatAt(q, c, ss, i - 1)
    BY <1>7, <2>2
  <2>4. lo \in Nat /\ hi \in Nat /\ Len(s) \in Nat /\ hi = lo + Len(s) /\ Len(q) = lo
    BY <1>4, <1>5, <2>1, <2>2, <2>3 DEF FlatAt
  <2>5. /\ Len(r) = hi /\ (\A j \in 1..lo : r[j] = q[j]) /\ \A j \in 1..Len(s) : r[lo + j] = s[j]
    BY <1>4, <2>2, <2>4
  <2>6. ASSUME NEW k \in 1..i, NEW j \in 1..Len(ss[k])
        PROVE  c[k - 1] + j \in 1..hi /\ r[c[k - 1] + j] = ss[k][j]
    <3>1. CASE k = i
      <4>1. c[k - 1] = lo /\ ss[k] = s /\ j \in 1..Len(s)
        BY <2>2, <3>1
      <4>2. lo + j \in 1..hi /\ r[lo + j] = s[j]
        BY <2>4, <2>5, <4>1
      <4> QED BY <4>1, <4>2
    <3>2. CASE k # i
      <4>1. k \in 1..(i - 1)
        BY <2>1, <3>2
      <4>2. PICK x : x = c[k - 1] + j
        OBVIOUS
      <4>3. x \in 1..lo /\ q[x] = ss[k][j]
        BY <2>2, <2>3, <4>1, <4>2 DEF FlatAt
      <4>4. x \in 1..hi
        BY <2>4, <4>3
      <4> QED BY <2>5, <4>2, <4>3, <4>4
    <3> QED BY <3>1, <3>2
  <2>7. FlatAt(r, c, ss, i)
    BY <2>2, <2>5, <2>6 DEF FlatAt
  <2> QED BY <2>1, <2>2, <2>7
<1>8. \A i \in 0..N : i \in T
  <2> HIDE DEF T
  <2> QED BY <1>2, <1>6, <1>7, Induct
<1>9. FlatAt(f[N], c, ss, N) /\ N \in 0..N
  BY <1>2, <1>8
<1>10. DOMAIN f[N] = 1..c[N]
  BY <1>3, <1>9 DEF FlatAt
<1> QED BY <1>3, <1>9, <1>10

\* The entries of one block: rising, above lo and up to hi.
BlockEntries(s, lo, hi, id) ==
    /\ \A n \in 1..Len(s) : s[n].anchor \in (lo + 1)..hi /\ s[n].id = id
    /\ \A m, n \in 1..Len(s) : m < n => s[m].anchor < s[n].anchor

\* The entries of the first i blocks.
Rises(r, c, ids, i) ==
    /\ \A n \in 1..Len(r) : \E k \in 1..i : r[n].anchor \in (c[k - 1] + 1)..c[k] /\ r[n].id = ids[k]
    /\ \A n \in 1..Len(r) : r[n].anchor \in Nat /\ r[n].anchor <= c[i]
    /\ \A m, n \in 1..Len(r) : m < n => r[m].anchor < r[n].anchor

LEMMA FlattenRises ==
    ASSUME NEW ss, NEW N, IsList(ss, N), \A k \in 1..N : \E n : IsList(ss[k], n),
           NEW c, c \in [0..N -> Nat], \A k \in 1..N : c[k - 1] <= c[k],
           NEW ids, \A k \in 1..N : BlockEntries(ss[k], c[k - 1], c[k], ids[k])
    PROVE  /\ DOMAIN FlattenSeq(ss) = 1..Len(FlattenSeq(ss))
           /\ Rises(FlattenSeq(ss), c, ids, N)
<1>1. PICK f : Flattens(f, ss, N)
  BY FlattenList
<1>2. N \in Nat
  BY DEF IsList
<1>3. /\ f[0] = <<>> /\ FlattenSeq(ss) = f[N]
      /\ \A i \in 0..N : Len(f[i]) \in Nat /\ DOMAIN f[i] = 1..Len(f[i])
  BY <1>1 DEF Flattens
<1>4. ASSUME NEW i \in 1..N
      PROVE  /\ Len(f[i - 1]) \in Nat /\ Len(ss[i]) \in Nat
             /\ Len(f[i]) = Len(f[i - 1]) + Len(ss[i])
             /\ \A j \in 1..Len(f[i - 1]) : f[i][j] = f[i - 1][j]
             /\ \A j \in 1..Len(ss[i]) : f[i][Len(f[i - 1]) + j] = ss[i][j]
  BY <1>1, Zenon DEF Flattens
<1> DEFINE T == {i \in 0..N : Rises(f[i], c, ids, i)}
<1>5. 0 \in T
  <2>1. 0 \in 0..N /\ Len(<<>>) = 0 /\ 1..0 = {}
    BY <1>2
  <2>2. Len(f[0]) = 0
    BY <1>3, <2>1
  <2>3. Rises(f[0], c, ids, 0)
    BY <2>1, <2>2 DEF Rises
  <2> QED BY <2>1, <2>3
<1>6. ASSUME NEW i \in 1..N, i - 1 \in T PROVE i \in T
  <2>1. i \in 0..N /\ i - 1 \in 0..N /\ i \in Nat /\ i \in 1..i
    BY <1>2
  <2>2. PICK q, r, s, lo, hi, L, M : /\ q = f[i - 1] /\ r = f[i] /\ s = ss[i] /\ lo = c[i - 1] /\ hi = c[i]
                                     /\ L = Len(q) /\ M = Len(s)
    OBVIOUS
  <2>3. /\ \A n \in 1..L : \E k \in 1..(i - 1) : q[n].anchor \in (c[k - 1] + 1)..c[k] /\ q[n].id = ids[k]
        /\ \A n \in 1..L : q[n].anchor \in Nat /\ q[n].anchor <= lo
        /\ \A m, n \in 1..L : m < n => q[m].anchor < q[n].anchor
    BY <1>6, <2>2 DEF Rises
  <2>4. lo \in Nat /\ hi \in Nat /\ lo <= hi
    BY <2>1, <2>2
  <2>5. /\ \A n \in 1..M : s[n].anchor \in (lo + 1)..hi /\ s[n].id = ids[i]
        /\ \A m, n \in 1..M : m < n => s[m].anchor < s[n].anchor
    BY <2>2 DEF BlockEntries
  <2>6. /\ L \in Nat /\ M \in Nat /\ Len(r) = L + M
        /\ (\A j \in 1..L : r[j] = q[j]) /\ \A j \in 1..M : r[L + j] = s[j]
    BY <1>4, <2>2
  <2>7. ASSUME NEW n \in 1..(L + M), ~(n \in 1..L) PROVE \E j \in 1..M : n = L + j /\ r[n] = s[j]
    <3>1. n - L \in 1..M /\ n = L + (n - L)
      BY <2>6, <2>7
    <3> QED BY <2>6, <3>1
  <2>8. ASSUME NEW n \in 1..(L + M)
        PROVE  /\ \E k \in 1..i : r[n].anchor \in (c[k - 1] + 1)..c[k] /\ r[n].id = ids[k]
               /\ r[n].anchor \in Nat /\ r[n].anchor <= hi
    <3>1. CASE n \in 1..L
      <4>1. PICK k \in 1..(i - 1) : q[n].anchor \in (c[k - 1] + 1)..c[k] /\ q[n].id = ids[k]
        BY <2>3, <3>1
      <4>2. k \in 1..i /\ r[n] = q[n]
        BY <2>1, <2>6, <3>1
      <4>3. q[n].anchor \in Nat /\ q[n].anchor <= hi
        BY <2>3, <2>4, <3>1
      <4> QED BY <4>1, <4>2, <4>3
    <3>2. CASE ~(n \in 1..L)
      <4>1. PICK j \in 1..M : n = L + j /\ r[n] = s[j]
        BY <2>7, <3>2
      <4>2. r[n].anchor \in (c[i - 1] + 1)..c[i] /\ r[n].id = ids[i]
        BY <2>2, <2>5, <4>1
      <4>3. r[n].anchor \in Nat /\ r[n].anchor <= hi
        BY <2>2, <2>4, <4>2
      <4> QED BY <2>1, <4>2, <4>3
    <3> QED BY <3>1, <3>2
  <2>9. ASSUME NEW m \in 1..(L + M), NEW n \in 1..(L + M), m < n PROVE r[m].anchor < r[n].anchor
    <3>1. CASE n \in 1..L
      <4>1. m \in 1..L
        BY <2>6, <2>9, <3>1
      <4>2. q[m].anchor < q[n].anchor
        BY <2>3, <2>9, <3>1, <4>1
      <4> QED BY <2>6, <3>1, <4>1, <4>2
    <3>2. CASE ~(n \in 1..L) /\ m \in 1..L
      <4>1. PICK j \in 1..M : n = L + j /\ r[n] = s[j]
        BY <2>7, <3>2
      <4>2. s[j].anchor \in (lo + 1)..hi /\ q[m].anchor \in Nat /\ q[m].anchor <= lo /\ r[m] = q[m]
        BY <2>3, <2>5, <2>6, <3>2
      <4>3. q[m].anchor < s[j].anchor
        BY <2>4, <4>2
      <4> QED BY <4>1, <4>2, <4>3
    <3>3. CASE ~(n \in 1..L) /\ ~(m \in 1..L)
      <4>1. PICK j \in 1..M : n = L + j /\ r[n] = s[j]
        BY <2>7, <3>3
      <4>2. PICK h \in 1..M : m = L + h /\ r[m] = s[h]
        BY <2>7, <3>3
      <4>3. h < j
        BY <2>6, <2>9, <4>1, <4>2
      <4>4. s[h].anchor < s[j].anchor
        BY <2>5, <4>3
      <4> QED BY <4>1, <4>2, <4>4
    <3> QED BY <3>1, <3>2, <3>3
  <2>10. Rises(r, c, ids, i)
    BY <2>2, <2>6, <2>8, <2>9, ZenonT(60) DEF Rises
  <2> QED BY <2>1, <2>2, <2>10
<1>7. \A i \in 0..N : i \in T
  <2> HIDE DEF T
  <2> QED BY <1>2, <1>5, <1>6, Induct
<1>8. Rises(f[N], c, ids, N) /\ N \in 0..N
  BY <1>2, <1>7
<1> QED BY <1>3, <1>8

Words == STRING
Sym   == Words \cup {"", "literal"}   \* what a page is made of

\* A block as it is rendered: the report's own title may have been taken from it.
LooseBlock == [id : Nat, kind : {"markdown", "html", "chart"}, title : Sym,
               text : Seq(Words), chart : Words, src : Words]

LEMMA LooseBlocks == ASSUME NEW b \in Block PROVE b \in LooseBlock
<1>1. /\ b.id \in Nat /\ b.kind \in {"markdown", "html", "chart"} /\ b.title \in Words
      /\ b.text \in Seq(Words) /\ b.chart \in Words /\ b.src \in Words
      /\ b = [id |-> b.id, kind |-> b.kind, title |-> b.title, text |-> b.text, chart |-> b.chart, src |-> b.src]
  BY DEF Block, Words
<1>2. b.title \in Sym
  BY <1>1, Zenon DEF Sym
<1> QED BY <1>1, <1>2 DEF LooseBlock

LEMMA NormalizedBlocks ==
    ASSUME NEW bs \in Seq(Block), NEW t
    PROVE  NormalizeReportBlocksForRendering(bs, t) \in Seq(LooseBlock)
<1>1. ASSUME NEW b \in Block PROVE b \in LooseBlock
  BY <1>1, LooseBlocks
<1>2. PICK N \in Nat : N = Len(bs) /\ DOMAIN bs = 1..N /\ \A k \in 1..N : bs[k] \in Block
  OBVIOUS
<1>3. bs \in [1..N -> LooseBlock]
  <2>1. bs = [k \in 1..N |-> bs[k]]
    BY <1>2
  <2> QED BY <1>1, <1>2, <2>1
<1>4. PICK i : i = SelectInSeq(bs, LAMBDA b : RepeatsReportTitle(b, t))
  OBVIOUS
<1>5. PICK u : u = [bs EXCEPT ![i].text  = SubSeq(@, 3, Len(@)),
                              ![i].title = IF @ = t THEN "" ELSE @]
  OBVIOUS
<1>6. u \in [1..N -> LooseBlock]
  <2>1. PICK text, title : text = SubSeq(bs[i].text, 3, Len(bs[i].text)) /\ title = IF bs[i].title = t THEN "" ELSE bs[i].title
    OBVIOUS
  <2>2. PICK v : v = [bs[i] EXCEPT !.text = text, !.title = title]
    OBVIOUS
  <2>3. ASSUME i \in 1..N PROVE v \in LooseBlock
    <3>1. bs[i] \in LooseBlock
      BY <1>1, <1>2, <2>3
    <3>2. bs[i].text \in Seq(Words) /\ bs[i].title \in Sym
      BY <3>1 DEF LooseBlock
    <3>3. text \in Seq(Words)
      <4>1. PICK w \in Seq(Words) : w = bs[i].text
        BY <3>2
      <4>2. 3 \in Int /\ Len(w) \in Int /\ \A k \in 3..Len(w) : w[k] \in Words
        BY <4>1
      <4>3. SubSeq(w, 3, Len(w)) \in Seq(Words)
        BY <4>2, SubSeqProperties
      <4> QED BY <2>1, <4>1, <4>3
    <3>4. title \in Sym
      <4>1. "" \in Sym
        BY Zenon DEF Sym
      <4> QED BY <2>1, <3>2, <4>1, Zenon
    <3> QED BY <2>2, <3>1, <3>3, <3>4 DEF LooseBlock
  <2>4. u = [bs EXCEPT ![i] = v]
    BY <1>5, <2>1, <2>2
  <2>5. ASSUME NEW k \in 1..N PROVE u[k] \in LooseBlock
    <3>1. CASE k = i
      BY <1>2, <2>3, <2>4, <3>1
    <3>2. CASE k # i
      BY <1>3, <2>4, <3>2
    <3> QED BY <3>1, <3>2
  <2>6. u = [k \in 1..N |-> u[k]]
    BY <1>2, <2>4
  <2> QED BY <2>5, <2>6
<1>7. bs \in Seq(LooseBlock) /\ u \in Seq(LooseBlock)
  BY <1>3, <1>6
<1>8. NormalizeReportBlocksForRendering(bs, t) = bs \/ NormalizeReportBlocksForRendering(bs, t) = u
  BY <1>4, <1>5 DEF NormalizeReportBlocksForRendering
<1> QED BY <1>7, <1>8

\* The blocks that are shown by themselves.
LEMMA UnitsAre ==
    ASSUME NEW bs \in Seq(LooseBlock), NEW anchor
    PROVE  \E n : /\ IsList(RenderUnits(bs, anchor), n)
                  /\ \A k \in 1..n : RenderUnits(bs, anchor)[k].block \in LooseBlock
<1>1. PICK N \in Nat : N = Len(bs) /\ DOMAIN bs = 1..N /\ \A k \in 1..N : bs[k] \in LooseBlock
  OBVIOUS
<1>2. PICK S : S = {i \in DOMAIN bs : anchor[i] = 0}
  OBVIOUS
<1>3. PICK order : order = Positions(bs, S)
  OBVIOUS
<1>4. Lists(order, S, N)
  <2>1. S \subseteq 1..N
    BY <1>1, <1>2
  <2> QED BY <1>1, <1>3, <2>1, PositionsAre
<1>5. PICK n \in Nat : n = Len(order) /\ DOMAIN order = 1..n
  BY <1>4 DEF Lists
<1>6. \A k \in 1..n : order[k] \in 1..N
  BY <1>1, <1>2, <1>4, <1>5 DEF Lists
<1>7. PICK us : us = RenderUnits(bs, anchor)
  OBVIOUS
<1> DEFINE charts(i) == Positions(bs, {j \in DOMAIN bs : anchor[j] = i})
           att(k) == [m \in DOMAIN charts(order[k]) |-> bs[charts(order[k])[m]]]
<1>8. us = [k \in 1..n |-> [block |-> bs[order[k]], attached |-> att(k)]]
  BY <1>2, <1>3, <1>5, <1>7, Zenon DEF RenderUnits
<1> HIDE DEF att
<1>9. IsList(us, n)
  BY <1>8 DEF IsList
<1>10. ASSUME NEW k \in 1..n PROVE us[k].block \in LooseBlock
  <2>1. us[k].block = bs[order[k]]
    BY <1>8
  <2> QED BY <1>1, <1>6, <2>1
<1> QED BY <1>7, <1>9, <1>10

LEMMA SplitTextIs ==
    ASSUME NEW text \in Seq(Words)
    PROVE  \E n \in Nat \ {0} : IsList(SplitMarkdownIntoTopLevelSections(text), n)
<1>1. PICK N \in Nat : N = Len(text) /\ DOMAIN text = 1..N
  OBVIOUS
<1> DEFINE levels == {Level(text[i]) : i \in DOMAIN text} \cap {1, 2}
<1>2. PICK tops : tops = {i \in DOMAIN text : levels # {} /\ Level(text[i]) = Min(levels)}
  OBVIOUS
<1>3. PICK parts : parts = SplitMarkdownIntoTopLevelSections(text)
  OBVIOUS
<1>4. parts = IF Cardinality(tops) <= 1 THEN <<text>> ELSE CutText(text, Positions(text, {1} \cup tops))
  BY <1>2, <1>3 DEF SplitMarkdownIntoTopLevelSections
<1>5. CASE Cardinality(tops) <= 1
  <2>1. parts = <<text>>
    BY <1>4, <1>5
  <2>2. IsList(parts, 1)
    BY <2>1 DEF IsList
  <2> QED BY <1>3, <2>2
<1>6. CASE ~(Cardinality(tops) <= 1)
  <2>1. tops # {}
    <3>1. Cardinality({}) = 0
      BY FS_EmptySet
    <3> HIDE DEF levels
    <3>2. tops = {} => Cardinality(tops) = 0
      BY <3>1, Zenon
    <3>3. ~(0 <= 1) => FALSE
      OBVIOUS
    <3> QED BY <1>6, <3>2, <3>3
  <2>2. PICK S : S = {1} \cup tops
    OBVIOUS
  <2>3. S \subseteq 1..N /\ 1 \in S /\ 1 <= N
    <3>1. tops \subseteq DOMAIN text
      BY <1>2, Zenon
    <3> HIDE DEF levels
    <3> QED BY <1>1, <2>1, <2>2, <3>1
  <2>4. PICK cuts : cuts = Positions(text, S)
    OBVIOUS
  <2>5. Lists(cuts, S, N)
    BY <1>1, <2>3, <2>4, PositionsAre
  <2>6. PICK n \in Nat : n = Len(cuts) /\ DOMAIN cuts = 1..n /\ n # 0
    BY <2>3, <2>5 DEF Lists
  <2> DEFINE end(k) == IF k = Len(cuts) THEN Len(text) ELSE cuts[k + 1] - 1
             cut(k) == SubSeq(text, cuts[k], end(k))
  <2>7. parts = [k \in 1..n |-> cut(k)]
    BY <1>4, <1>6, <2>2, <2>4, <2>6, Zenon DEF CutText
  <2> HIDE DEF cut
  <2>8. IsList(parts, n)
    BY <2>7 DEF IsList
  <2> QED BY <1>3, <2>6, <2>8
<1> QED BY <1>5, <1>6

\* The sections of one block are sections of that block, and there is one at least.
LEMMA SplitUnitIs ==
    ASSUME NEW u, u.block \in LooseBlock
    PROVE  \E n \in Nat \ {0} : /\ IsList(SplitRenderUnitSections(u), n)
                                /\ \A j \in 1..n : SplitRenderUnitSections(u)[j].block.id = u.block.id
<1>1. PICK b : b = u.block
  OBVIOUS
<1>2. b \in LooseBlock
  BY <1>1
<1>3. b.text \in Seq(Words)
  BY <1>2 DEF LooseBlock
<1>4. PICK parts : parts = SplitMarkdownIntoTopLevelSections(b.text)
  OBVIOUS
<1>5. PICK n \in Nat \ {0} : IsList(parts, n)
  BY <1>3, <1>4, SplitTextIs
<1>6. DOMAIN parts = 1..n
  BY <1>5, ListLen
<1>7. PICK ss : ss = SplitRenderUnitSections(u)
  OBVIOUS
<1>8. CASE b.kind # "markdown"
  <2>1. ss = <<u>>
    BY <1>1, <1>7, <1>8 DEF SplitRenderUnitSections
  <2>2. IsList(ss, 1) /\ \A j \in 1..1 : ss[j].block.id = u.block.id
    BY <2>1 DEF IsList
  <2> QED BY <1>7, <2>2
<1>9. CASE b.kind = "markdown"
  <2> DEFINE blk(k) == [b EXCEPT !.text = parts[k]]
             att(k) == IF k = 1 THEN u.attached ELSE <<>>
  <2>1. ss = [k \in 1..n |-> [block |-> blk(k), attached |-> att(k)]]
    BY <1>1, <1>4, <1>6, <1>7, <1>9, Zenon DEF SplitRenderUnitSections
  <2>2. \A k \in 1..n : blk(k).id = b.id
    BY <1>2 DEF LooseBlock
  <2> HIDE DEF blk, att
  <2>3. IsList(ss, n)
    BY <2>1 DEF IsList
  <2>4. \A k \in 1..n : ss[k].block = blk(k)
    BY <2>1
  <2> QED BY <1>1, <1>7, <2>2, <2>3, <2>4
<1> QED BY <1>8, <1>9

LEMMA OneIsList == ASSUME NEW e PROVE Len(<<e>>) = 1 /\ <<e>>[1] = e /\ IsList(<<e>>, 1)
BY DEF IsList

\* The entries of one block are about its sections.
LEMMA ItemsAre ==
    ASSUME NEW block, NEW whole, NEW parts, NEW n \in Nat \ {0}, IsList(parts, n), NEW before \in Nat, NEW t,
           NEW items, items = BlockTOCItems(block, whole, parts, before, t)
    PROVE  (\E m : IsList(items, m)) /\ BlockEntries(items, before, before + n, block.id)
<1> DEFINE item(j, title) == [anchor |-> before + j, id |-> block.id, title |-> title]
           own(j) == DocumentTOCTitle(parts[j].block, t)
<1>1. PICK S : S = {j \in 1..Len(parts) : own(j) # ""}
  OBVIOUS
<1>2. PICK titled : titled = Positions(parts, S)
  OBVIOUS
<1>3. Len(parts) = n
  BY ListLen
<1>4. items = IF whole # "" THEN <<item(1, whole)>> ELSE [k \in 1..Len(titled) |-> item(titled[k], own(titled[k]))]
  BY <1>1, <1>2, Zenon DEF BlockTOCItems
<1> HIDE DEF own
<1>5. CASE whole # ""
  <2>1. items = <<item(1, whole)>>
    BY <1>4, <1>5
  <2>2. items[1] = item(1, whole) /\ Len(items) = 1 /\ IsList(items, 1)
    <3>1. PICK e : e = item(1, whole)
      OBVIOUS
    <3>2. items = <<e>>
      BY <2>1, <3>1, Zenon
    <3>3. Len(items) = 1 /\ items[1] = e /\ IsList(items, 1)
      BY <3>2, OneIsList, Zenon
    <3> QED BY <3>1, <3>3
  <2>3. items[1].anchor = before + 1 /\ items[1].id = block.id
    BY <2>2
  <2>4. before + 1 \in (before + 1)..(before + n)
    OBVIOUS
  <2>5. BlockEntries(items, before, before + n, block.id)
    BY <2>2, <2>3, <2>4 DEF BlockEntries
  <2> QED BY <2>2, <2>5
<1>6. CASE whole = ""
  <2>1. Lists(titled, S, n)
    <3>1. S \subseteq 1..n
      BY <1>1, <1>3
    <3> QED BY <1>2, <1>3, <3>1, PositionsAre
  <2>2. PICK m \in Nat : m = Len(titled)
    BY <2>1 DEF Lists
  <2>3. /\ \A k \in 1..m : titled[k] \in 1..n
        /\ \A k, l \in 1..m : k < l => titled[k] < titled[l]
    BY <1>1, <1>3, <2>1, <2>2 DEF Lists
  <2>4. items = [k \in 1..m |-> item(titled[k], own(titled[k]))]
    BY <1>4, <1>6, <2>2
  <2>5. IsList(items, m)
    BY <2>4 DEF IsList
  <2>6. Len(items) = m
    BY <2>5, ListLen
  <2>7. \A k \in 1..m : items[k].anchor = before + titled[k] /\ items[k].id = block.id
    BY <2>4
  <2>8. ASSUME NEW k \in 1..m PROVE items[k].anchor \in (before + 1)..(before + n) /\ items[k].id = block.id
    <3>1. titled[k] \in 1..n /\ items[k].anchor = before + titled[k] /\ items[k].id = block.id
      BY <2>3, <2>7
    <3> QED BY <3>1
  <2>9. ASSUME NEW k \in 1..m, NEW l \in 1..m, k < l PROVE items[k].anchor < items[l].anchor
    <3>1. titled[k] \in 1..n /\ titled[l] \in 1..n /\ titled[k] < titled[l]
      BY <2>3, <2>9
    <3>2. items[k].anchor = before + titled[k] /\ items[l].anchor = before + titled[l]
      BY <2>7
    <3> QED BY <3>1, <3>2
  <2>10. BlockEntries(items, before, before + n, block.id)
    BY <2>6, <2>8, <2>9, Zenon DEF BlockEntries
  <2> QED BY <2>5, <2>10
<1> QED BY <1>5, <1>6

\* The table of contents of a list of units against the page made of them.
LEMMA TocOfUnits ==
    ASSUME NEW us, NEW N, IsList(us, N), \A k \in 1..N : us[k].block \in LooseBlock, NEW have, NEW t
    PROVE  Resolve(TOCOfUnits(us, t), RenderSections(SplitRenderUnits(us), have))
<1>1. N \in Nat /\ DOMAIN us = 1..N
  BY ListLen DEF IsList
<1>2. PICK tt : tt = [k \in DOMAIN us |-> SplitRenderUnitSections(us[k])]
  OBVIOUS
<1>3. IsList(tt, N) /\ DOMAIN tt = 1..N /\ \A k \in 1..N : tt[k] = SplitRenderUnitSections(us[k])
  BY <1>1, <1>2 DEF IsList
<1>4. ASSUME NEW k \in 1..N
      PROVE  \E n \in Nat \ {0} : IsList(tt[k], n) /\ \A j \in 1..n : tt[k][j].block.id = us[k].block.id
  <2>1. PICK u : u = us[k]
    OBVIOUS
  <2>2. u.block \in LooseBlock
    BY <2>1
  <2>3. \E n \in Nat \ {0} : /\ IsList(SplitRenderUnitSections(u), n)
                             /\ \A j \in 1..n : SplitRenderUnitSections(u)[j].block.id = u.block.id
    BY <2>2, SplitUnitIs
  <2> QED BY <1>3, <2>1, <2>3, Zenon
<1>5. \A k \in 1..N : \E n : IsList(tt[k], n)
  BY <1>4
<1>6. PICK c : Counts(c, tt, N)
  BY <1>3, <1>5, CountIs
<1>7. /\ c \in [0..N -> Nat] /\ c[0] = 0
      /\ \A j \in 1..N : c[j] = c[j - 1] + Len(tt[j])
      /\ \A k \in 1..N : SectionsBefore(tt, k) = c[k - 1]
  BY <1>6 DEF Counts
<1>8. PICK units : units = FlattenSeq(tt)
  OBVIOUS
<1>9. DOMAIN units = 1..c[N] /\ FlatAt(units, c, tt, N)
  BY <1>3, <1>5, <1>6, <1>8, FlattenAt
<1>10. PICK page : page = RenderSections(SplitRenderUnits(us), have)
  OBVIOUS
<1>11. DOMAIN page = 1..c[N] /\ \A n \in 1..c[N] : page[n].id = units[n].block.id
  <2>1. SplitRenderUnits(us) = units
    BY <1>2, <1>8, Zenon DEF SplitRenderUnits
  <2>2. page = [n \in 1..c[N] |-> [id |-> units[n].block.id, body |-> RenderUnit(units[n], have)]]
    BY <1>9, <1>10, <2>1, Zenon DEF RenderSections
  <2> QED BY <2>2
<1>12. PICK ids : ids = [k \in 1..N |-> us[k].block.id]
  OBVIOUS
<1>13. PICK ii : ii = [k \in DOMAIN us |->
                          BlockTOCItems(us[k].block, StructuredBlockTOCTitle(us[k].block, t),
                                        tt[k], SectionsBefore(tt, k), t)]
  OBVIOUS
<1>14. IsList(ii, N)
  BY <1>1, <1>13 DEF IsList
<1>15. ASSUME NEW k \in 1..N
       PROVE  /\ \E m : IsList(ii[k], m)
              /\ BlockEntries(ii[k], c[k - 1], c[k], ids[k])
              /\ c[k - 1] <= c[k]
  <2>1. PICK n \in Nat \ {0} : IsList(tt[k], n)
    BY <1>4
  <2>2. PICK b, whole, parts, before, items :
            /\ b = us[k].block /\ whole = StructuredBlockTOCTitle(us[k].block, t)
            /\ parts = tt[k] /\ before = c[k - 1] /\ items = ii[k]
    OBVIOUS
  <2>3. before \in Nat /\ Len(tt[k]) = n /\ c[k] = before + n
    <3>1. k - 1 \in 0..N
      BY <1>1
    <3>2. Len(tt[k]) = n
      BY <2>1, ListLen
    <3> QED BY <1>7, <2>2, <3>1, <3>2
  <2>4. items = BlockTOCItems(b, whole, parts, before, t)
    BY <1>1, <1>7, <1>13, <2>2, Zenon
  <2>5. IsList(parts, n)
    BY <2>1, <2>2
  <2>6. (\E m : IsList(items, m)) /\ BlockEntries(items, before, before + n, b.id)
    BY <2>3, <2>4, <2>5, ItemsAre
  <2>7. ids[k] = b.id
    BY <1>12, <2>2
  <2>8. before <= c[k]
    BY <2>3
  <2> QED BY <2>2, <2>3, <2>6, <2>7, <2>8, Zenon
<1>16. PICK toc : toc = FlattenSeq(ii)
  OBVIOUS
<1>17. DOMAIN toc = 1..Len(toc) /\ Rises(toc, c, ids, N)
  BY <1>7, <1>14, <1>15, <1>16, FlattenRises
<1>18. TOCOfUnits(us, t) = toc
  BY <1>2, <1>13, <1>16, Zenon DEF TOCOfUnits, TOCItems
<1>19. ASSUME NEW n \in DOMAIN toc PROVE toc[n].anchor \in DOMAIN page /\ page[toc[n].anchor].id = toc[n].id
  <2>1. PICK k \in 1..N : toc[n].anchor \in (c[k - 1] + 1)..c[k] /\ toc[n].id = ids[k]
    BY <1>17, <1>19, Zenon DEF Rises
  <2>2. PICK a : a = toc[n].anchor
    OBVIOUS
  <2>3. PICK m \in Nat \ {0} : IsList(tt[k], m) /\ \A j \in 1..m : tt[k][j].block.id = us[k].block.id
    BY <1>4
  <2>4. Len(tt[k]) = m /\ c[k - 1] \in Nat /\ c[k] = c[k - 1] + m
    <3>1. k - 1 \in 0..N
      BY <1>1
    <3>2. Len(tt[k]) = m
      BY <2>3, ListLen
    <3> QED BY <1>7, <3>1, <3>2
  <2>5. PICK j : j = a - c[k - 1]
    OBVIOUS
  <2>6. j \in 1..m /\ a = c[k - 1] + j
    BY <2>1, <2>2, <2>4, <2>5, SMTT(40)
  <2>7. a \in 1..c[N] /\ units[a] = tt[k][j]
    BY <1>9, <2>4, <2>6 DEF FlatAt
  <2>8. units[a].block.id = us[k].block.id
    BY <2>3, <2>6, <2>7
  <2>9. page[a].id = us[k].block.id /\ ids[k] = us[k].block.id
    BY <1>11, <1>12, <2>7, <2>8
  <2> QED BY <1>11, <2>1, <2>2, <2>7, <2>9
<1>20. \A m, n \in DOMAIN toc : m < n => toc[m].anchor < toc[n].anchor
  BY <1>17, Zenon DEF Rises
<1>21. Resolve(toc, page)
  BY <1>19, <1>20, Zenon DEF Resolve
<1> QED BY <1>10, <1>18, <1>21

\* Whatever the blocks of a report are, the table of contents that is counted apart
\* from the page leads to sections of the page, in order, each of the block that the
\* entry is about (report_html.go).
THEOREM TocResolved == Spec => []TocResolves
<1>1. ASSUME NEW bs \in Seq(Block), NEW have, NEW t
      PROVE  Resolve(BuildReportTOCItems(bs, t), RenderReportHTML(bs, have, t))
  <2>1. PICK loose \in Seq(LooseBlock) : loose = NormalizeReportBlocksForRendering(bs, t)
    BY NormalizedBlocks
  <2>2. PICK us : us = AttachCharts(loose)
    OBVIOUS
  <2>3. PICK n : IsList(us, n) /\ \A k \in 1..n : us[k].block \in LooseBlock
    <3>1. PICK anchor : anchor = ChartAnchors(loose)
      OBVIOUS
    <3>2. \E n : IsList(RenderUnits(loose, anchor), n) /\ \A k \in 1..n : RenderUnits(loose, anchor)[k].block \in LooseBlock
      BY UnitsAre
    <3> QED BY <2>2, <3>1, <3>2 DEF AttachCharts
  <2>4. BuildBaseRenderUnits(bs, t) = us
    BY <2>1, <2>2 DEF BuildBaseRenderUnits
  <2>5. Resolve(TOCOfUnits(us, t), RenderSections(SplitRenderUnits(us), have))
    BY <2>3, TocOfUnits
  <2> QED BY <2>4, <2>5 DEF BuildReportTOCItems, RenderReportHTML, BuildRenderUnits
<1>2. CtlInv => TocResolves
  <2> SUFFICES ASSUME CtlInv PROVE TocResolves
    OBVIOUS
  <2>1. PICK bs, have, t : bs = report.blocks /\ have = Have(report) /\ t = report.title
    OBVIOUS
  <2>2. bs \in Seq(Block)
    BY <2>1 DEF CtlInv, TypeInv, Report
  <2>3. Resolve(BuildReportTOCItems(bs, t), RenderReportHTML(bs, have, t))
    BY <1>1, <2>2
  <2> QED BY <2>1, <2>3 DEF TocResolves, Page
<1> QED BY <1>2, ControlInvariance, PTL

---------------------------------------------------------------------------
(* What the page shows, counted.  A text is a list of symbols; how often   *)
(* one occurs in lists put together is a sum.                              *)

\* c has the sums of the first members of g.
Sums(c, g, N) == c \in [0..N -> Nat] /\ c[0] = 0 /\ \A j \in 1..N : c[j] = c[j - 1] + g[j]

Total(g, N) == (CHOOSE c : Sums(c, g, N))[N]

LEMMA TotalIs ==
    ASSUME NEW N \in Nat, NEW g, g \in [1..N -> Nat]
    PROVE  \E c : Sums(c, g, N) /\ Total(g, N) = c[N] /\ Total(g, N) \in Nat
<1>1. PICK next : next = [p \in Nat \X (1..N) |-> p[1] + g[p[2]]]
  OBVIOUS
<1>2. next \in [Nat \X (1..N) -> Nat]
  <2>1. ASSUME NEW p \in Nat \X (1..N) PROVE p[1] + g[p[2]] \in Nat
    <3>1. p[1] \in Nat /\ g[p[2]] \in Nat
      OBVIOUS
    <3> QED BY <3>1
  <2> QED BY <1>1, <2>1
<1>3. PICK f : IsLoop(f, N, Nat, 0, next)
  <2>1. 0 \in Nat
    OBVIOUS
  <2> QED BY <1>2, <2>1, Loop, Zenon
<1>4. f \in [0..N -> Nat] /\ f[0] = 0 /\ \A j \in 1..N : f[j] = next[<<f[j - 1], j>>]
  BY <1>3, Zenon DEF IsLoop
<1>5. ASSUME NEW j \in 1..N PROVE f[j] = f[j - 1] + g[j]
  <2>1. <<f[j - 1], j>> \in Nat \X (1..N)
    BY <1>4
  <2> QED BY <1>1, <1>4, <2>1
<1>6. Sums(f, g, N)
  BY <1>4, <1>5 DEF Sums
<1>7. PICK c : c = CHOOSE x : Sums(x, g, N)
  OBVIOUS
<1>8. Sums(c, g, N)
  BY <1>6, <1>7, Zenon
<1>9. c[N] \in Nat
  BY <1>8 DEF Sums
<1> QED BY <1>7, <1>8, <1>9, Zenon DEF Total

\* The sums are determined.
LEMMA SumsSame ==
    ASSUME NEW N \in Nat, NEW g, NEW c, NEW d, Sums(c, g, N), Sums(d, g, N)
    PROVE  c[N] = d[N]
<1>1. /\ c \in [0..N -> Nat] /\ c[0] = 0 /\ \A j \in 1..N : c[j] = c[j - 1] + g[j]
      /\ d \in [0..N -> Nat] /\ d[0] = 0 /\ \A j \in 1..N : d[j] = d[j - 1] + g[j]
  BY DEF Sums
<1> DEFINE T == {j \in 0..N : c[j] = d[j]}
<1>2. 0 \in T
  BY <1>1
<1>3. ASSUME NEW j \in 1..N, j - 1 \in T PROVE j \in T
  <2>1. j \in 0..N /\ c[j - 1] = d[j - 1]
    BY <1>3
  <2>2. c[j] = d[j]
    BY <1>1, <2>1, Zenon
  <2> QED BY <2>1, <2>2
<1>4. N \in T
  <2> HIDE DEF T
  <2>1. N \in 0..N
    OBVIOUS
  <2> QED BY <1>2, <1>3, <2>1, Induct
<1> QED BY <1>4

LEMMA TotalOf ==
    ASSUME NEW N \in Nat, NEW g, g \in [1..N -> Nat], NEW c, Sums(c, g, N) PROVE Total(g, N) = c[N]
<1>1. PICK d : Sums(d, g, N) /\ Total(g, N) = d[N]
  BY TotalIs
<1> QED BY <1>1, SumsSame

LEMMA TotalZero ==
    ASSUME NEW N \in Nat, NEW g, g \in [1..N -> Nat], \A k \in 1..N : g[k] = 0 PROVE Total(g, N) = 0
<1>1. PICK c : c = [j \in 0..N |-> 0]
  OBVIOUS
<1>2. Sums(c, g, N)
  BY <1>1 DEF Sums
<1>3. Total(g, N) = c[N]
  BY <1>2, TotalOf
<1> QED BY <1>1, <1>3

\* x is at least y, and is y if s is a chart.
Shows(s, x, y) == x \in Nat /\ y \in Nat /\ x >= y /\ (s \in Charts => x = y)

LEMMA ShowsSelf == ASSUME NEW s, NEW x \in Nat PROVE Shows(s, x, x)
BY DEF Shows

LEMMA ShowsPlus ==
    ASSUME NEW s, NEW x, NEW y, NEW z, NEW w, Shows(s, x, y), Shows(s, z, w) PROVE Shows(s, x + z, y + w)
<1>1. x \in Nat /\ y \in Nat /\ x >= y /\ z \in Nat /\ w \in Nat /\ z >= w
  BY DEF Shows
<1>2. s \in Charts => x = y /\ z = w
  BY DEF Shows
<1>3. x + z \in Nat /\ y + w \in Nat /\ x + z >= y + w
  BY <1>1
<1> QED BY <1>2, <1>3 DEF Shows

LEMMA ShowsTrans ==
    ASSUME NEW s, NEW x, NEW y, NEW z, Shows(s, x, y), Shows(s, y, z) PROVE Shows(s, x, z)
<1>1. x \in Nat /\ y \in Nat /\ x >= y /\ z \in Nat /\ y >= z
  BY DEF Shows
<1>2. s \in Charts => x = y /\ y = z
  BY DEF Shows
<1>3. x >= z
  BY <1>1
<1> QED BY <1>1, <1>2, <1>3 DEF Shows

LEMMA ShowsTotal ==
    ASSUME NEW s, NEW N \in Nat, NEW g, g \in [1..N -> Nat], NEW h, h \in [1..N -> Nat],
           \A k \in 1..N : Shows(s, g[k], h[k])
    PROVE  Shows(s, Total(g, N), Total(h, N))
<1>1. PICK c : Sums(c, g, N) /\ Total(g, N) = c[N]
  BY TotalIs
<1>2. PICK d : Sums(d, h, N) /\ Total(h, N) = d[N]
  BY TotalIs
<1>3. /\ c \in [0..N -> Nat] /\ c[0] = 0 /\ \A j \in 1..N : c[j] = c[j - 1] + g[j]
      /\ d \in [0..N -> Nat] /\ d[0] = 0 /\ \A j \in 1..N : d[j] = d[j - 1] + h[j]
  BY <1>1, <1>2 DEF Sums
<1> DEFINE T == {j \in 0..N : Shows(s, c[j], d[j])}
<1>4. 0 \in T
  <2>1. Shows(s, c[0], d[0]) /\ 0 \in 0..N
    BY <1>3, ShowsSelf
  <2> QED BY <2>1
<1>5. ASSUME NEW j \in 1..N, j - 1 \in T PROVE j \in T
  <2>1. j \in 0..N /\ Shows(s, c[j - 1], d[j - 1]) /\ Shows(s, g[j], h[j])
    BY <1>5
  <2>2. PICK x, y, z, w : x = c[j - 1] /\ y = d[j - 1] /\ z = g[j] /\ w = h[j]
    OBVIOUS
  <2>3. Shows(s, x + z, y + w)
    BY <2>1, <2>2, ShowsPlus
  <2>4. c[j] = x + z /\ d[j] = y + w
    BY <1>3, <2>2, Zenon
  <2> QED BY <2>1, <2>3, <2>4
<1>6. Shows(s, c[N], d[N])
  <2>1. N \in T
    <3> HIDE DEF T
    <3>1. N \in 0..N
      OBVIOUS
    <3> QED BY <1>4, <1>5, <3>1, Induct
  <2> QED BY <2>1
<1> QED BY <1>1, <1>2, <1>6

\* Two lists that differ in one place only.
DifferAt(g, h, N, i) ==
    /\ N \in Nat /\ g \in [1..N -> Nat] /\ h \in [1..N -> Nat] /\ i \in 1..N
    /\ \A k \in 1..N : k # i => g[k] = h[k]

LEMMA TotalBump ==
    ASSUME NEW g, NEW h, NEW N, NEW i, DifferAt(g, h, N, i)
    PROVE  Total(g, N) + h[i] = Total(h, N) + g[i]
<1>0. /\ N \in Nat /\ g \in [1..N -> Nat] /\ h \in [1..N -> Nat] /\ i \in 1..N
      /\ \A k \in 1..N : k # i => g[k] = h[k]
  BY DEF DifferAt
<1>1. PICK c : Sums(c, g, N) /\ Total(g, N) = c[N]
  BY <1>0, TotalIs
<1>2. PICK d : Sums(d, h, N) /\ Total(h, N) = d[N]
  BY <1>0, TotalIs
<1>3. /\ c \in [0..N -> Nat] /\ c[0] = 0 /\ \A j \in 1..N : c[j] = c[j - 1] + g[j]
      /\ d \in [0..N -> Nat] /\ d[0] = 0 /\ \A j \in 1..N : d[j] = d[j - 1] + h[j]
  BY <1>1, <1>2 DEF Sums
<1> DEFINE T == {j \in 0..N : (j < i => c[j] = d[j]) /\ (j >= i => c[j] + h[i] = d[j] + g[i])}
<1>4. 0 \in T
  BY <1>0, <1>3
<1>5. ASSUME NEW j \in 1..N, j - 1 \in T PROVE j \in T
  <2>1. j \in 0..N /\ j - 1 \in 0..N
    BY <1>0
  <2>2. PICK x, y, u, v : x = c[j - 1] /\ y = d[j - 1] /\ u = g[j] /\ v = h[j]
    OBVIOUS
  <2>3. x \in Nat /\ y \in Nat /\ u \in Nat /\ v \in Nat /\ c[j] = x + u /\ d[j] = y + v
    BY <1>0, <1>3, <2>1, <2>2
  <2>4. PICK p, q : p = g[i] /\ q = h[i]
    OBVIOUS
  <2>5. p \in Nat /\ q \in Nat
    BY <1>0, <2>4
  <2>6. (j - 1 < i => x = y) /\ (j - 1 >= i => x + q = y + p)
    BY <1>5, <2>2, <2>4
  <2>7. CASE j < i
    <3>1. u = v /\ x = y /\ ~(j >= i)
      BY <1>0, <2>2, <2>6, <2>7
    <3>2. c[j] = d[j]
      BY <2>3, <3>1
    <3> QED BY <2>1, <3>1, <3>2
  <2>8. CASE j = i
    <3>1. u = p /\ v = q /\ x = y
      BY <1>0, <2>2, <2>4, <2>6, <2>8
    <3>2. c[j] + q = d[j] + p
      BY <2>3, <2>5, <3>1
    <3> QED BY <1>0, <2>1, <2>4, <2>8, <3>2
  <2>9. CASE j > i
    <3>1. u = v /\ x + q = y + p /\ ~(j < i)
      BY <1>0, <2>2, <2>6, <2>9
    <3>2. c[j] + q = d[j] + p
      BY <2>3, <2>5, <3>1
    <3> QED BY <2>1, <2>4, <3>1, <3>2
  <2> QED BY <1>0, <2>7, <2>8, <2>9
<1>6. c[N] + h[i] = d[N] + g[i]
  <2>1. N \in T
    <3> HIDE DEF T
    <3>1. N \in 0..N
      BY <1>0
    <3> QED BY <1>0, <1>4, <1>5, <3>1, Induct
  <2> QED BY <1>0, <2>1
<1> QED BY <1>1, <1>2, <1>6

\* h is the stretch of g after place a; c has the sums of g.
Window(c, g, N, a, h, m) ==
    /\ N \in Nat /\ g \in [1..N -> Nat] /\ Sums(c, g, N)
    /\ a \in Nat /\ m \in Nat /\ a + m <= N
    /\ h \in [1..m -> Nat] /\ \A k \in 1..m : h[k] = g[a + k]

LEMMA TotalWindow ==
    ASSUME NEW c, NEW g, NEW N, NEW a, NEW h, NEW m, Window(c, g, N, a, h, m)
    PROVE  c[a + m] = c[a] + Total(h, m)
<1>0. /\ N \in Nat /\ g \in [1..N -> Nat] /\ Sums(c, g, N)
      /\ a \in Nat /\ m \in Nat /\ a + m <= N
      /\ h \in [1..m -> Nat] /\ \A k \in 1..m : h[k] = g[a + k]
  BY DEF Window
<1>1. PICK d : Sums(d, h, m) /\ Total(h, m) = d[m]
  BY <1>0, TotalIs
<1>2. /\ c \in [0..N -> Nat] /\ c[0] = 0 /\ \A j \in 1..N : c[j] = c[j - 1] + g[j]
      /\ d \in [0..m -> Nat] /\ d[0] = 0 /\ \A j \in 1..m : d[j] = d[j - 1] + h[j]
  BY <1>0, <1>1 DEF Sums
<1> DEFINE T == {j \in 0..m : c[a + j] = c[a] + d[j]}
<1>3. 0 \in T
  <2>1. a + 0 = a /\ a \in 0..N /\ c[a] \in Nat
    BY <1>0, <1>2
  <2>2. 0 \in 0..m /\ c[a + 0] = c[a] + d[0]
    BY <1>0, <1>2, <2>1
  <2> QED BY <2>2
<1>4. ASSUME NEW j \in 1..m, j - 1 \in T PROVE j \in T
  <2>1. j \in 0..m /\ j - 1 \in 0..m /\ a + j \in 1..N /\ a \in 0..N /\ (a + j) - 1 = a + (j - 1)
    BY <1>0
  <2>2. PICK x, y, z, w : x = c[a] /\ y = d[j - 1] /\ z = h[j] /\ w = c[a + (j - 1)]
    OBVIOUS
  <2>3. x \in Nat /\ y \in Nat /\ z \in Nat /\ w = x + y
    BY <1>0, <1>2, <1>4, <2>1, <2>2
  <2>4. c[a + j] = w + z
    <3>1. c[a + j] = c[(a + j) - 1] + g[a + j]
      BY <1>2, <2>1
    <3> QED BY <1>0, <2>1, <2>2, <3>1
  <2>5. d[j] = y + z
    BY <1>0, <1>2, <2>2
  <2>6. c[a + j] = x + d[j]
    BY <2>3, <2>4, <2>5
  <2> QED BY <2>1, <2>2, <2>6
<1>5. m \in T
  <2> HIDE DEF T
  <2>1. m \in 0..m
    BY <1>0
  <2> QED BY <1>0, <1>3, <1>4, <2>1, Induct
<1> QED BY <1>1, <1>5

Hits(s, t, N) == [i \in 1..N |-> IF t[i] = s THEN 1 ELSE 0]

LEMMA OccursTotal ==
    ASSUME NEW s, NEW t, NEW N, IsList(t, N)
    PROVE  /\ N \in Nat /\ Hits(s, t, N) \in [1..N -> Nat]
           /\ Occurs(s, t) = Total(Hits(s, t, N), N) /\ Occurs(s, t) \in Nat
<1>1. N \in Nat /\ DOMAIN t = 1..N
  BY ListLen DEF IsList
<1>2. PICK g : g = Hits(s, t, N)
  OBVIOUS
<1>3. g \in [1..N -> Nat] /\ \A i \in 1..N : g[i] = IF t[i] = s THEN 1 ELSE 0
  BY <1>2 DEF Hits
<1> DEFINE S(j) == {i \in 1..j : t[i] = s}
<1>4. ASSUME NEW j \in 0..N PROVE IsFiniteSet(S(j)) /\ Cardinality(S(j)) \in Nat
  <2>1. IsFiniteSet(1..j)
    BY FS_Interval
  <2>2. S(j) \subseteq 1..j
    OBVIOUS
  <2>3. IsFiniteSet(S(j))
    BY <2>1, <2>2, FS_Subset
  <2> QED BY <2>3, FS_CardinalityType
<1>5. PICK c : c = [j \in 0..N |-> Cardinality(S(j))]
  OBVIOUS
<1>6. c \in [0..N -> Nat]
  BY <1>4, <1>5
<1>7. c[0] = 0
  <2>1. S(0) = {}
    OBVIOUS
  <2>2. Cardinality(S(0)) = 0
    BY <2>1, FS_EmptySet
  <2> QED BY <1>1, <1>5, <2>2
<1>8. ASSUME NEW j \in 1..N PROVE c[j] = c[j - 1] + g[j]
  <2>1. j \in 0..N /\ j - 1 \in 0..N /\ 1..j = (1..(j - 1)) \cup {j} /\ ~(j \in 1..(j - 1))
    BY <1>1
  <2>2. PICK P, Q : P = S(j - 1) /\ Q = S(j)
    OBVIOUS
  <2>3. IsFiniteSet(P) /\ Cardinality(P) \in Nat /\ c[j - 1] = Cardinality(P) /\ c[j] = Cardinality(Q)
    BY <1>4, <1>5, <2>1, <2>2
  <2>4. CASE t[j] = s
    <3>1. Q = P \cup {j} /\ j \notin P
      BY <2>1, <2>2, <2>4
    <3>2. Cardinality(Q) = Cardinality(P) + 1
      BY <2>3, <3>1, FS_AddElement
    <3> QED BY <1>3, <2>3, <2>4, <3>2
  <2>5. CASE t[j] # s
    <3>1. Q = P
      BY <2>1, <2>2, <2>5
    <3> QED BY <1>3, <2>3, <2>5, <3>1
  <2> QED BY <2>4, <2>5
<1>9. Sums(c, g, N)
  BY <1>6, <1>7, <1>8 DEF Sums
<1>10. Total(g, N) = c[N]
  BY <1>1, <1>3, <1>9, TotalOf
<1>11. c[N] = Occurs(s, t) /\ c[N] \in Nat
  <2>1. N \in 0..N
    BY <1>1
  <2>2. c[N] = Cardinality(S(N))
    BY <1>5, <2>1
  <2> QED BY <1>1, <1>6, <2>1, <2>2 DEF Occurs
<1> QED BY <1>1, <1>2, <1>3, <1>10, <1>11

LEMMA SeqIsList == ASSUME NEW A, NEW t \in Seq(A) PROVE IsList(t, Len(t))
BY DEF IsList

LEMMA OccursNat == ASSUME NEW A, NEW t \in Seq(A), NEW s PROVE Occurs(s, t) \in Nat
BY SeqIsList, OccursTotal

\* u is a stretch of t, after place a.
Stretch(u, t, a) == a + Len(u) <= Len(t) /\ \A k \in 1..Len(u) : u[k] = t[a + k]

LEMMA OccursPart ==
    ASSUME NEW s, NEW A, NEW t \in Seq(A), NEW c, Sums(c, Hits(s, t, Len(t)), Len(t)),
           NEW a \in Nat, NEW u \in Seq(A), Stretch(u, t, a)
    PROVE  c[a + Len(u)] = c[a] + Occurs(s, u)
<1>1. PICK N \in Nat, m \in Nat : N = Len(t) /\ m = Len(u)
  OBVIOUS
<1>2. PICK g, h : g = Hits(s, t, N) /\ h = Hits(s, u, m)
  OBVIOUS
<1>3. g \in [1..N -> Nat]
  BY <1>1, <1>2, SeqIsList, OccursTotal
<1>4. h \in [1..m -> Nat] /\ Occurs(s, u) = Total(h, m)
  BY <1>1, <1>2, SeqIsList, OccursTotal
<1>5. a + m <= N /\ Sums(c, g, N) /\ \A k \in 1..m : u[k] = t[a + k]
  BY <1>1, <1>2 DEF Stretch
<1>6. ASSUME NEW k \in 1..m PROVE h[k] = g[a + k]
  <2>1. a + k \in 1..N /\ u[k] = t[a + k]
    BY <1>1, <1>5, <1>6
  <2> QED BY <1>2, <2>1 DEF Hits
<1>7. c[a + m] = c[a] + Total(h, m)
  <2>1. \A k \in 1..m : h[k] = g[a + k]
    BY <1>6
  <2>2. N \in Nat /\ m \in Nat
    BY <1>1
  <2>3. Window(c, g, N, a, h, m)
    BY <1>3, <1>4, <1>5, <2>1, <2>2, Zenon DEF Window
  <2> QED BY <2>3, TotalWindow
<1> QED BY <1>1, <1>4, <1>7

LEMMA OccursJoin ==
    ASSUME NEW s, NEW A, NEW t \in Seq(A), NEW u \in Seq(A)
    PROVE  Occurs(s, t \o u) = Occurs(s, t) + Occurs(s, u)
<1>1. PICK v \in Seq(A) : v = t \o u
  BY ConcatProperties, Zenon
<1>2. PICK N \in Nat, m \in Nat, l \in Nat : N = Len(v) /\ m = Len(t) /\ l = Len(u)
  BY <1>1
<1>3. N = m + l /\ (\A k \in 1..m : v[k] = t[k]) /\ \A k \in 1..l : v[m + k] = u[k]
  BY <1>1, <1>2
<1>4. PICK g : g = Hits(s, v, N)
  OBVIOUS
<1>5. g \in [1..N -> Nat] /\ Occurs(s, v) = Total(g, N)
  BY <1>2, <1>4, SeqIsList, OccursTotal
<1>6. PICK c : Sums(c, g, N) /\ Total(g, N) = c[N]
  BY <1>5, TotalIs
<1>7. Sums(c, Hits(s, v, Len(v)), Len(v))
  BY <1>2, <1>4, <1>6
<1>8. c[0 + Len(t)] = c[0] + Occurs(s, t)
  <2>1. 0 \in Nat /\ 0 + Len(t) <= Len(v) /\ \A k \in 1..Len(t) : t[k] = v[0 + k]
    BY <1>2, <1>3
  <2>2. Stretch(t, v, 0)
    BY <2>1 DEF Stretch
  <2> QED BY <1>7, <2>1, <2>2, OccursPart
<1>9. c[m + Len(u)] = c[m] + Occurs(s, u)
  <2>1. m + Len(u) <= Len(v) /\ \A k \in 1..Len(u) : u[k] = v[m + k]
    BY <1>2, <1>3
  <2>2. Stretch(u, v, m)
    BY <2>1 DEF Stretch
  <2> QED BY <1>7, <2>2, OccursPart
<1>10. Occurs(s, t) \in Nat /\ Occurs(s, u) \in Nat
  BY OccursNat
<1>11. c[0] = 0 /\ 0 + Len(t) = m /\ m + Len(u) = N
  BY <1>2, <1>3, <1>6 DEF Sums
<1>12. c[m] = Occurs(s, t)
  BY <1>8, <1>10, <1>11
<1>13. c[N] = c[m] + Occurs(s, u)
  BY <1>9, <1>11
<1> QED BY <1>1, <1>5, <1>6, <1>12, <1>13

LEMMA OccursNone == ASSUME NEW s PROVE Occurs(s, <<>>) = 0
<1>1. {i \in DOMAIN <<>> : <<>>[i] = s} = {}
  OBVIOUS
<1> QED BY <1>1, FS_EmptySet DEF Occurs

LEMMA OccursOne == ASSUME NEW s, NEW x PROVE Occurs(s, <<x>>) = IF x = s THEN 1 ELSE 0
<1>1. IsList(<<x>>, 1) /\ <<x>>[1] = x
  BY OneIsList
<1>2. PICK g : g = Hits(s, <<x>>, 1)
  OBVIOUS
<1>3. g \in [1..1 -> Nat] /\ Occurs(s, <<x>>) = Total(g, 1)
  BY <1>1, <1>2, OccursTotal
<1>4. g[1] = IF x = s THEN 1 ELSE 0
  BY <1>1, <1>2 DEF Hits
<1>5. PICK c : Sums(c, g, 1) /\ Total(g, 1) = c[1]
  BY <1>3, TotalIs
<1>6. c[1] = c[1 - 1] + g[1] /\ c[0] = 0
  BY <1>5 DEF Sums
<1>7. c[1] = g[1]
  BY <1>3, <1>6
<1> QED BY <1>3, <1>4, <1>5, <1>7

\* How often a symbol occurs in texts put together.
Texts(ss, N, A)    == N \in Nat /\ IsList(ss, N) /\ \A k \in 1..N : ss[k] \in Seq(A)
OccursOf(s, ss, N) == [k \in 1..N |-> Occurs(s, ss[k])]

LEMMA OccursFlatten ==
    ASSUME NEW s, NEW A, NEW ss, NEW N, Texts(ss, N, A)
    PROVE  /\ OccursOf(s, ss, N) \in [1..N -> Nat] /\ FlattenSeq(ss) \in Seq(A)
           /\ Occurs(s, FlattenSeq(ss)) = Total(OccursOf(s, ss, N), N)
<1> DEFINE g == OccursOf(s, ss, N)
<1>0. N \in Nat /\ IsList(ss, N) /\ \A k \in 1..N : ss[k] \in Seq(A)
  BY DEF Texts
<1> HIDE DEF g
<1>00. g = [k \in 1..N |-> Occurs(s, ss[k])]
  BY DEF g, OccursOf
<1>1. ss \in Seq(Seq(A)) /\ Len(ss) = N
  <2>1. PICK S : S = Seq(A)
    OBVIOUS
  <2>2. ss = [k \in 1..N |-> ss[k]]
    BY <1>0 DEF IsList
  <2>3. ss \in [1..N -> S]
    BY <1>0, <2>1, <2>2
  <2>4. ss \in Seq(S) /\ Len(ss) = N
    BY <1>0, <2>3
  <2> QED BY <2>1, <2>4
<1>2. \E f \in [0..Len(ss) -> Seq(A)] :
          /\ f[0] = <<>> /\ \A i \in 1..Len(ss) : f[i] = f[i - 1] \o ss[i]
          /\ FlattenSeq(ss) = f[Len(ss)]
  BY <1>1, FlattenIs, Zenon
<1>3. PICK f : /\ f \in [0..N -> Seq(A)] /\ f[0] = <<>> /\ \A i \in 1..N : f[i] = f[i - 1] \o ss[i]
               /\ FlattenSeq(ss) = f[N]
  BY <1>1, <1>2, Zenon
<1>4. ASSUME NEW i \in 0..N PROVE f[i] \in Seq(A) /\ Occurs(s, f[i]) \in Nat
  <2>1. PICK p : p = f[i]
    OBVIOUS
  <2>2. p \in Seq(A)
    BY <1>3, <2>1
  <2>3. Occurs(s, p) \in Nat
    BY <2>2, OccursNat
  <2> QED BY <2>1, <2>2, <2>3
<1>5. g \in [1..N -> Nat]
  <2>1. ASSUME NEW k \in 1..N PROVE Occurs(s, ss[k]) \in Nat
    <3>1. PICK p \in Seq(A) : p = ss[k]
      BY <1>0
    <3>2. Occurs(s, p) \in Nat
      BY OccursNat
    <3> QED BY <3>1, <3>2
  <2> QED BY <1>00, <2>1
<1>6. PICK c : c = [i \in 0..N |-> Occurs(s, f[i])]
  OBVIOUS
<1>7. Sums(c, g, N)
  <2>1. c \in [0..N -> Nat]
    BY <1>4, <1>6
  <2>2. c[0] = 0
    BY <1>0, <1>3, <1>6, OccursNone
  <2>3. ASSUME NEW j \in 1..N PROVE c[j] = c[j - 1] + g[j]
    <3>1. j \in 0..N /\ j - 1 \in 0..N
      BY <1>0
    <3>2. PICK p, q : p = f[j - 1] /\ q = ss[j]
      OBVIOUS
    <3>3. p \in Seq(A)
      BY <1>4, <3>1, <3>2, Zenon
    <3>4. q \in Seq(A)
      BY <1>0, <3>2, Zenon
    <3>5. Occurs(s, p \o q) = Occurs(s, p) + Occurs(s, q)
      BY <3>3, <3>4, OccursJoin
    <3>6. c[j] = Occurs(s, p \o q)
      BY <1>3, <1>6, <3>1, <3>2, Zenon
    <3>7. c[j - 1] = Occurs(s, p) /\ g[j] = Occurs(s, q)
      BY <1>00, <1>6, <3>1, <3>2
    <3> QED BY <3>5, <3>6, <3>7
  <2> QED BY <2>1, <2>2, <2>3 DEF Sums
<1>8. Total(g, N) = c[N]
  BY <1>0, <1>5, <1>7, TotalOf
<1>9. c[N] = Occurs(s, f[N]) /\ N \in 0..N
  BY <1>0, <1>6
<1>10. f[N] \in Seq(A)
  BY <1>4, <1>9, Zenon
<1> QED BY <1>3, <1>5, <1>8, <1>9, <1>10 DEF g

\* Where a symbol is to be counted in a block.
Source(s, b) == IF s \in Charts THEN ChartsNamed(b) ELSE b.text
Worth(s, b)  == Occurs(s, Source(s, b))

Keeps(s, have) == s \notin Charts \/ s \in have

LEMMA Wider == ASSUME NEW A, NEW B, A \subseteq B, NEW t \in Seq(A) PROVE t \in Seq(B)
<1>1. t \in [1..Len(t) -> B] /\ Len(t) \in Nat
  OBVIOUS
<1> QED BY <1>1

LEMMA WiderSym == ASSUME NEW t \in Seq(Words) PROVE t \in Seq(Sym)
<1>1. Words \subseteq Sym
  BY Zenon DEF Sym
<1> QED BY <1>1, Wider

LEMMA ProcessIs ==
    ASSUME NEW s, NEW have, Keeps(s, have), NEW text \in Seq(Words)
    PROVE  /\ ProcessContent(text, have) \in Seq(Words)
           /\ Occurs(s, ProcessContent(text, have)) = Occurs(s, text)
<1>1. PICK N \in Nat : N = Len(text) /\ \A i \in 1..N : text[i] \in Words
  OBVIOUS
<1>2. PICK ss : ss = [i \in 1..N |-> IF text[i] \notin Charts \/ text[i] \in have THEN <<text[i]>> ELSE <<>>]
  OBVIOUS
<1>3. IsList(ss, N)
  BY <1>1, <1>2 DEF IsList
<1>4. \A i \in 1..N : ss[i] \in Seq(Words)
  <2> TAKE i \in 1..N
  <2>1. PICK x \in Words : x = text[i]
    BY <1>1
  <2>2. <<x>> \in Seq(Words) /\ <<>> \in Seq(Words)
    OBVIOUS
  <2> QED BY <1>2, <2>1, <2>2
<1>5. PICK g : g = [k \in 1..N |-> Occurs(s, ss[k])]
  OBVIOUS
<1>6. FlattenSeq(ss) \in Seq(Words) /\ Occurs(s, FlattenSeq(ss)) = Total(g, N)
  <2>1. Texts(ss, N, Words)
    BY <1>1, <1>3, <1>4, Zenon DEF Texts
  <2>2. g = OccursOf(s, ss, N)
    BY <1>5, Zenon DEF OccursOf
  <2> QED BY <2>1, <2>2, OccursFlatten
<1>7. ASSUME NEW k \in 1..N PROVE Occurs(s, ss[k]) = IF text[k] = s THEN 1 ELSE 0
  <2>1. PICK x : x = text[k]
    OBVIOUS
  <2>2. CASE x \notin Charts \/ x \in have
    <3>1. ss[k] = <<x>>
      BY <1>2, <2>1, <2>2
    <3> QED BY <2>1, <3>1, OccursOne
  <2>3. CASE ~(x \notin Charts \/ x \in have)
    <3>1. ss[k] = <<>> /\ x # s
      BY <1>2, <2>1, <2>3 DEF Keeps
    <3> QED BY <2>1, <3>1, OccursNone
  <2> QED BY <2>2, <2>3
<1>8. g = Hits(s, text, N)
  BY <1>5, <1>7 DEF Hits
<1>9. Occurs(s, text) = Total(g, N)
  BY <1>1, <1>8, SeqIsList, OccursTotal
<1>10. ProcessContent(text, have) = FlattenSeq(ss)
  BY <1>1, <1>2 DEF ProcessContent
<1> QED BY <1>6, <1>9, <1>10

LEMMA NoMarkers == "literal" \notin Charts /\ "T" \notin Charts /\ \A s \in Charts : s \notin Markers
BY ReportDraftAssumption

LEMMA UnprocessedIs ==
    ASSUME NEW s, NEW text \in Seq(Sym)
    PROVE  /\ Unprocessed(text) \in Seq(Sym)
           /\ Shows(s, Occurs(s, Unprocessed(text)), IF s \in Charts THEN 0 ELSE Occurs(s, text))
<1>1. PICK N \in Nat : N = Len(text) /\ DOMAIN text = 1..N /\ \A i \in 1..N : text[i] \in Sym
  OBVIOUS
<1>2. PICK u : u = Unprocessed(text)
  OBVIOUS
<1>3. u = [i \in 1..N |-> IF text[i] \in Charts THEN "literal" ELSE text[i]]
  BY <1>1, <1>2 DEF Unprocessed
<1>4. "literal" \in Sym
  BY Zenon DEF Sym
<1>5. \A i \in 1..N : u[i] \in Sym
  BY <1>1, <1>3, <1>4
<1>6. u \in [1..N -> Sym]
  BY <1>3, <1>5
<1>7. u \in Seq(Sym) /\ Len(u) = N
  BY <1>6
<1>8. PICK g, h : g = Hits(s, u, N) /\ h = Hits(s, text, N)
  OBVIOUS
<1>9. g \in [1..N -> Nat] /\ Occurs(s, u) = Total(g, N) /\ Occurs(s, u) \in Nat
  BY <1>7, <1>8, SeqIsList, OccursTotal
<1>10. h \in [1..N -> Nat] /\ Occurs(s, text) = Total(h, N) /\ Occurs(s, text) \in Nat
  BY <1>1, <1>8, SeqIsList, OccursTotal
<1>11. CASE s \in Charts
  <2>1. ASSUME NEW k \in 1..N PROVE g[k] = 0
    <3>1. u[k] # s
      BY <1>3, <1>11, NoMarkers
    <3> QED BY <1>8, <3>1 DEF Hits
  <2>2. Occurs(s, u) = 0
    BY <1>9, <2>1, TotalZero
  <2> QED BY <1>2, <1>7, <1>11, <2>2 DEF Shows
<1>12. CASE s \notin Charts
  <2>1. ASSUME NEW k \in 1..N PROVE Shows(s, g[k], h[k])
    <3>1. CASE text[k] = s
      <4>1. u[k] = s
        BY <1>3, <1>12, <3>1
      <4>2. g[k] = 1 /\ h[k] = 1
        BY <1>8, <3>1, <4>1 DEF Hits
      <4> QED BY <4>2 DEF Shows
    <3>2. CASE text[k] # s
      <4>1. h[k] = 0 /\ g[k] \in Nat
        BY <1>8, <1>9, <3>2 DEF Hits
      <4> QED BY <1>12, <4>1 DEF Shows
    <3> QED BY <3>1, <3>2
  <2>2. Shows(s, Total(g, N), Total(h, N))
    BY <1>9, <1>10, <2>1, ShowsTotal
  <2> QED BY <1>2, <1>7, <1>9, <1>10, <1>12, <2>2
<1> QED BY <1>11, <1>12

LEMMA OneSeq == ASSUME NEW A, NEW x \in A PROVE <<x>> \in Seq(A)
OBVIOUS

LEMMA HeadingIs ==
    ASSUME NEW s, NEW title \in Sym
    PROVE  Heading(title) \in Seq(Sym) /\ Shows(s, Occurs(s, Heading(title)), 0)
<1>1. CASE title = ""
  <2>1. Heading(title) = <<>>
    BY <1>1, Zenon DEF Heading
  <2>2. Occurs(s, <<>>) = 0
    BY OccursNone
  <2> QED BY <2>1, <2>2 DEF Shows
<1>2. CASE title # ""
  <2>1. PICK t \in Seq(Sym) : t = <<title>>
    BY OneSeq, Zenon
  <2>2. Heading(title) = Unprocessed(t)
    BY <1>2, <2>1, Zenon DEF Heading
  <2>3. Unprocessed(t) \in Seq(Sym)
    BY UnprocessedIs
  <2>4. Shows(s, Occurs(s, Unprocessed(t)), IF s \in Charts THEN 0 ELSE Occurs(s, t))
    BY UnprocessedIs
  <2>5. Shows(s, Occurs(s, Unprocessed(t)), 0)
    BY <2>4 DEF Shows
  <2> QED BY <2>2, <2>3, <2>5
<1> QED BY <1>1, <1>2

LEMMA LooseIs ==
    ASSUME NEW b \in LooseBlock
    PROVE  /\ b.kind \in {"markdown", "html", "chart"} /\ b.title \in Sym
           /\ b.text \in Seq(Words) /\ b.chart \in Words
BY DEF LooseBlock

\* A heading of a text and what follows it.
LEMMA Headed ==
    ASSUME NEW s, NEW title \in Sym, NEW t \in Seq(Sym), NEW y, Shows(s, Occurs(s, t), y)
    PROVE  Heading(title) \o t \in Seq(Sym) /\ Shows(s, Occurs(s, Heading(title) \o t), y)
<1>1. PICK h : h = Heading(title)
  OBVIOUS
<1>2. h \in Seq(Sym) /\ Shows(s, Occurs(s, h), 0)
  BY <1>1, HeadingIs
<1>3. h \o t \in Seq(Sym)
  BY <1>2, ConcatProperties, Zenon
<1>4. Occurs(s, h \o t) = Occurs(s, h) + Occurs(s, t)
  BY <1>2, OccursJoin
<1>5. Shows(s, Occurs(s, h) + Occurs(s, t), 0 + y)
  BY <1>2, ShowsPlus
<1>6. 0 + y = y
  BY DEF Shows
<1> QED BY <1>1, <1>3, <1>4, <1>5, <1>6

LEMMA TextBlockIs ==
    ASSUME NEW s, NEW have, Keeps(s, have), NEW b \in LooseBlock, b.kind # "chart"
    PROVE  /\ RenderTextBlock(b, have) \in Seq(Sym)
           /\ Shows(s, Occurs(s, RenderTextBlock(b, have)), Worth(s, b))
<1>1. b.kind \in {"markdown", "html"} /\ b.title \in Sym /\ b.text \in Seq(Words)
  BY LooseIs
<1>2. PICK text, title, t : /\ text = b.text /\ title = (IF HeadingTitle(b.text) = "" THEN b.title ELSE "")
                            /\ t = IF b.kind = "html" THEN Unprocessed(b.text) ELSE ProcessContent(b.text, have)
  OBVIOUS
<1>3. title \in Sym /\ text \in Seq(Words) /\ text \in Seq(Sym)
  <2>1. "" \in Sym
    BY Zenon DEF Sym
  <2>2. b.text \in Seq(Sym)
    BY <1>1, WiderSym
  <2> QED BY <1>1, <1>2, <2>1, <2>2
<1>4. RenderTextBlock(b, have) = Heading(title) \o t
  BY <1>2 DEF RenderTextBlock
<1>5. t \in Seq(Sym) /\ Shows(s, Occurs(s, t), Worth(s, b))
  <2>1. CASE b.kind = "html"
    <3>1. t = Unprocessed(text)
      BY <1>2, <2>1
    <3>2. t \in Seq(Sym) /\ Shows(s, Occurs(s, t), IF s \in Charts THEN 0 ELSE Occurs(s, text))
      BY <1>3, <3>1, UnprocessedIs
    <3>3. ChartsNamed(b) = <<>>
      BY <2>1 DEF ChartsNamed
    <3>4. Worth(s, b) = IF s \in Charts THEN 0 ELSE Occurs(s, text)
      BY <1>2, <3>3, OccursNone DEF Worth, Source
    <3> QED BY <3>2, <3>4
  <2>2. CASE b.kind = "markdown"
    <3>1. t = ProcessContent(text, have)
      BY <1>2, <2>2
    <3>2. t \in Seq(Words) /\ Occurs(s, t) = Occurs(s, text)
      BY <1>3, <3>1, ProcessIs
    <3>3. ChartsNamed(b) = text
      BY <1>2, <2>2 DEF ChartsNamed
    <3>4. Worth(s, b) = Occurs(s, text)
      BY <1>2, <3>3 DEF Worth, Source
    <3>5. Occurs(s, text) \in Nat
      BY <1>3, OccursNat
    <3>6. t \in Seq(Sym)
      BY <3>2, WiderSym
    <3> QED BY <3>2, <3>4, <3>5, <3>6, ShowsSelf
  <2> QED BY <1>1, <2>1, <2>2
<1> QED BY <1>3, <1>4, <1>5, Headed

\* The title of a text is a word of it.
LEMMA HeadingTitleIs == ASSUME NEW text \in Seq(Words) PROVE HeadingTitle(text) \in Sym
<1>1. PICK I : I = {j \in 1..Len(text) : text[j] \in Markers}
  OBVIOUS
<1>2. PICK i : i = SelectInSeq(text, LAMBDA x : x \in Markers)
  OBVIOUS
<1>3. i = IF I # {} THEN Min(I) ELSE 0
  BY <1>1, <1>2 DEF SelectInSeq
<1>4. HeadingTitle(text) = IF i = 0 \/ i = Len(text) THEN "" ELSE text[i + 1]
  BY <1>2 DEF HeadingTitle
<1>5. CASE I = {}
  <2>1. "" \in Sym
    BY Zenon DEF Sym
  <2> QED BY <1>3, <1>4, <1>5, <2>1, Zenon
<1>6. CASE I # {}
  <2>1. I \subseteq Nat
    BY <1>1
  <2>2. \E x \in I : \A y \in I : x =< y
    BY <1>6, <2>1, Smallest
  <2>3. i \in I
    BY <1>3, <1>6, <2>2 DEF Min
  <2>4. i \in 1..Len(text)
    BY <1>1, <2>3
  <2>5. CASE i = Len(text)
    <3>1. "" \in Sym
      BY Zenon DEF Sym
    <3> QED BY <1>4, <2>5, <3>1, Zenon
  <2>6. CASE i # Len(text)
    <3>1. i # 0 /\ i + 1 \in 1..Len(text)
      BY <2>4, <2>6
    <3>2. text[i + 1] \in Words
      BY <3>1
    <3>3. text[i + 1] \in Sym
      BY <3>2, Zenon DEF Sym
    <3> QED BY <1>4, <2>6, <3>1, <3>3, Zenon
  <2> QED BY <2>5, <2>6
<1> QED BY <1>5, <1>6

LEMMA ChartBlockIs ==
    ASSUME NEW s, NEW have, Keeps(s, have), NEW b \in LooseBlock, b.kind = "chart"
    PROVE  /\ RenderChartBlockHTML(b, have) \in Seq(Sym)
           /\ Shows(s, Occurs(s, RenderChartBlockHTML(b, have)), Worth(s, b))
<1>1. b.title \in Sym /\ b.text \in Seq(Words) /\ b.chart \in Words
  BY LooseIs
<1>2. PICK text, title, one : text = b.text /\ title = BlockDisplayTitle(b) /\ one = <<b.chart>>
  OBVIOUS
<1>3. title \in Sym
  <2>1. HeadingTitle(b.text) \in Sym
    BY <1>1, HeadingTitleIs
  <2> QED BY <1>1, <1>2, <2>1, Zenon DEF BlockDisplayTitle
<1>4. text \in Seq(Words) /\ one \in Seq(Words)
  BY <1>1, <1>2
<1>5. PICK all : all = one \o text
  OBVIOUS
<1>6. all \in Seq(Words)
  BY <1>4, <1>5, ConcatProperties, Zenon
<1>7. PICK t : t = ProcessContent(all, have)
  OBVIOUS
<1>8. t \in Seq(Words) /\ Occurs(s, t) = Occurs(s, all)
  BY <1>6, <1>7, ProcessIs
<1>9. RenderChartBlockHTML(b, have) = Heading(title) \o t
  BY <1>2, <1>5, <1>7 DEF RenderChartBlockHTML
<1>10. Occurs(s, all) = Occurs(s, one) + Occurs(s, text)
  BY <1>4, <1>5, OccursJoin
<1>11. Occurs(s, one) \in Nat /\ Occurs(s, text) \in Nat
  BY <1>4, OccursNat
<1>12. Shows(s, Occurs(s, t), Worth(s, b))
  <2>1. CASE s \in Charts
    <3>1. ChartsNamed(b) = all
      BY <1>2, <1>5 DEF ChartsNamed
    <3>2. Worth(s, b) = Occurs(s, all) /\ Occurs(s, all) \in Nat
      BY <1>10, <1>11, <2>1, <3>1 DEF Worth, Source
    <3> QED BY <1>8, <3>2, ShowsSelf
  <2>2. CASE s \notin Charts
    <3>1. Worth(s, b) = Occurs(s, text)
      BY <1>2, <2>2 DEF Worth, Source
    <3>2. Occurs(s, one) + Occurs(s, text) \in Nat /\ Occurs(s, one) + Occurs(s, text) >= Occurs(s, text)
      BY <1>11
    <3> QED BY <1>8, <1>10, <1>11, <2>2, <3>1, <3>2 DEF Shows
  <2> QED BY <2>1, <2>2
<1>13. t \in Seq(Sym)
  BY <1>8, WiderSym
<1> QED BY <1>3, <1>9, <1>12, <1>13, Headed

\* Charts attached to a text.
ChartList(att, m) == IsList(att, m) /\ \A k \in 1..m : att[k] \in LooseBlock /\ att[k].kind = "chart"
WorthOf(s, att, m) == [k \in 1..m |-> Worth(s, att[k])]

LEMMA WorthNat == ASSUME NEW s, NEW b \in LooseBlock PROVE Worth(s, b) \in Nat
<1>1. b.text \in Seq(Words) /\ b.chart \in Words /\ b.kind \in {"markdown", "html", "chart"}
  BY LooseIs
<1>2. PICK text, one : text = b.text /\ one = <<b.chart>>
  OBVIOUS
<1>3. text \in Seq(Words) /\ one \in Seq(Words) /\ <<>> \in Seq(Words)
  BY <1>1, <1>2
<1>4. one \o text \in Seq(Words)
  BY <1>3, ConcatProperties, Zenon
<1>5. ChartsNamed(b) \in {one \o text, text, <<>>}
  BY <1>1, <1>2 DEF ChartsNamed
<1>6. PICK t \in Seq(Words) : t = Source(s, b)
  BY <1>2, <1>3, <1>4, <1>5 DEF Source
<1>7. Occurs(s, t) \in Nat
  BY OccursNat
<1> QED BY <1>6, <1>7 DEF Worth

LEMMA AttachedIs ==
    ASSUME NEW s, NEW have, Keeps(s, have), NEW att, NEW m, ChartList(att, m)
    PROVE  /\ m \in Nat /\ WorthOf(s, att, m) \in [1..m -> Nat]
           /\ RenderAttachedChartsInline(att, have) \in Seq(Sym)
           /\ Shows(s, Occurs(s, RenderAttachedChartsInline(att, have)), Total(WorthOf(s, att, m), m))
<1>1. IsList(att, m) /\ m \in Nat /\ \A k \in 1..m : att[k] \in LooseBlock /\ att[k].kind = "chart"
  BY DEF ChartList, IsList
<1>2. DOMAIN att = 1..m
  BY <1>1, ListLen
<1>3. PICK ss : ss = [k \in 1..m |-> RenderChartBlockHTML(att[k], have)]
  OBVIOUS
<1>4. RenderAttachedChartsInline(att, have) = FlattenSeq(ss)
  BY <1>2, <1>3 DEF RenderAttachedChartsInline
<1>5. ASSUME NEW k \in 1..m
      PROVE  /\ ss[k] \in Seq(Sym) /\ Shows(s, Occurs(s, ss[k]), Worth(s, att[k]))
             /\ Worth(s, att[k]) \in Nat
  <2>1. PICK b \in LooseBlock : b = att[k] /\ b.kind = "chart"
    BY <1>1
  <2>2. RenderChartBlockHTML(b, have) \in Seq(Sym) /\ Shows(s, Occurs(s, RenderChartBlockHTML(b, have)), Worth(s, b))
    BY <2>1, ChartBlockIs
  <2>3. ss[k] = RenderChartBlockHTML(b, have)
    BY <1>3, <2>1
  <2>4. Worth(s, b) \in Nat
    BY WorthNat
  <2> QED BY <2>1, <2>2, <2>3, <2>4
<1>6. IsList(ss, m)
  BY <1>1, <1>3 DEF IsList
<1>7. PICK g, h : g = [k \in 1..m |-> Occurs(s, ss[k])] /\ h = WorthOf(s, att, m)
  OBVIOUS
<1>8. \A k \in 1..m : ss[k] \in Seq(Sym)
  BY <1>5
<1>9. g \in [1..m -> Nat] /\ FlattenSeq(ss) \in Seq(Sym) /\ Occurs(s, FlattenSeq(ss)) = Total(g, m)
  <2>1. Texts(ss, m, Sym)
    BY <1>1, <1>6, <1>8, Zenon DEF Texts
  <2>2. g = OccursOf(s, ss, m)
    BY <1>7, Zenon DEF OccursOf
  <2> QED BY <2>1, <2>2, OccursFlatten
<1>10. h \in [1..m -> Nat]
  BY <1>5, <1>7 DEF WorthOf
<1>11. ASSUME NEW k \in 1..m PROVE Shows(s, g[k], h[k])
  <2>1. g[k] = Occurs(s, ss[k]) /\ h[k] = Worth(s, att[k])
    BY <1>7 DEF WorthOf
  <2> QED BY <1>5, <2>1
<1>12. Shows(s, Total(g, m), Total(h, m))
  BY <1>1, <1>9, <1>10, <1>11, ShowsTotal
<1> QED BY <1>1, <1>4, <1>7, <1>9, <1>10, <1>12

LEMMA TotalOne == ASSUME NEW g, g \in [1..1 -> Nat] PROVE Total(g, 1) = g[1]
<1>1. PICK c : Sums(c, g, 1) /\ Total(g, 1) = c[1]
  BY TotalIs
<1>2. c[1] = c[1 - 1] + g[1] /\ c[0] = 0 /\ g[1] \in Nat
  BY <1>1 DEF Sums
<1>3. c[1] = g[1]
  BY <1>2
<1> QED BY <1>1, <1>3

\* What the cuts are, and what lies between them.
Cut(text, cuts, parts, n) ==
    /\ n \in Nat \ {0} /\ cuts[1] = 1
    /\ \A k \in 1..n : cuts[k] \in 1..Len(text) /\ (k < n => cuts[k] < cuts[k + 1])
    /\ parts = [k \in 1..n |-> SubSeq(text, cuts[k], IF k = n THEN Len(text) ELSE cuts[k + 1] - 1)]

LEMMA CutIs ==
    ASSUME NEW s, NEW text \in Seq(Words), NEW cuts, NEW parts, NEW n, Cut(text, cuts, parts, n)
    PROVE  Texts(parts, n, Words) /\ Total(OccursOf(s, parts, n), n) = Occurs(s, text)
<1>1. PICK N \in Nat : N = Len(text) /\ \A i \in 1..N : text[i] \in Words
  OBVIOUS
<1>2. n \in Nat /\ n # 0 /\ cuts[1] = 1 /\ \A k \in 1..n : cuts[k] \in 1..N /\ (k < n => cuts[k] < cuts[k + 1])
  BY <1>1 DEF Cut
<1>3. PICK end : end = [k \in 1..n |-> IF k = n THEN N ELSE cuts[k + 1] - 1]
  OBVIOUS
<1>4. ASSUME NEW k \in 1..n PROVE end[k] \in 0..N /\ cuts[k] <= end[k] /\ cuts[k] \in 1..N
  <2>1. CASE k = n
    BY <1>2, <1>3, <2>1
  <2>2. CASE k # n
    <3>1. k + 1 \in 1..n /\ k < n
      BY <1>2, <2>2
    <3>2. cuts[k] \in 1..N /\ cuts[k + 1] \in 1..N /\ cuts[k] < cuts[k + 1] /\ end[k] = cuts[k + 1] - 1
      BY <1>2, <1>3, <2>2, <3>1
    <3> QED BY <3>2
  <2> QED BY <2>1, <2>2
<1>5. parts = [k \in 1..n |-> SubSeq(text, cuts[k], end[k])]
  BY <1>1, <1>3 DEF Cut
<1>6. PICK h : h = Hits(s, text, N)
  OBVIOUS
<1>7. h \in [1..N -> Nat] /\ Occurs(s, text) = Total(h, N)
  BY <1>1, <1>6, SeqIsList, OccursTotal
<1>8. PICK c : Sums(c, h, N) /\ Total(h, N) = c[N]
  BY <1>1, <1>7, TotalIs
<1>9. c \in [0..N -> Nat] /\ c[0] = 0
  BY <1>8 DEF Sums
<1>10. ASSUME NEW k \in 1..n
       PROVE  /\ parts[k] \in Seq(Words)
              /\ c[end[k]] = c[cuts[k] - 1] + Occurs(s, parts[k])
  <2>1. PICK a, b : a = cuts[k] /\ b = end[k]
    OBVIOUS
  <2>2. a \in 1..N /\ b \in 0..N /\ a <= b
    BY <1>4, <2>1
  <2>3. PICK u : u = SubSeq(text, a, b)
    OBVIOUS
  <2>4. /\ u \in Seq(Words) /\ Len(u) = IF a <= b THEN b - a + 1 ELSE 0
        /\ \A i \in 1..(b - a + 1) : u[i] = text[a + i - 1]
    <3>1. a \in Int /\ b \in Int /\ \A i \in a..b : text[i] \in Words
      BY <1>1, <2>2
    <3> QED BY <2>3, <3>1, SubSeqProperties
  <2>5. PICK d \in Nat, l \in Nat : d = a - 1 /\ l = Len(u)
    BY <2>2, <2>4
  <2>6. d + l = b /\ l = b - a + 1
    BY <2>2, <2>4, <2>5
  <2>7. ASSUME NEW i \in 1..l PROVE u[i] = text[d + i]
    <3>1. i \in 1..(b - a + 1) /\ a + i - 1 = d + i
      BY <2>2, <2>5, <2>6
    <3> QED BY <2>4, <3>1
  <2>8. d + Len(u) <= Len(text) /\ \A i \in 1..Len(u) : u[i] = text[d + i]
    BY <1>1, <2>2, <2>5, <2>6, <2>7
  <2>9. Sums(c, Hits(s, text, Len(text)), Len(text))
    BY <1>1, <1>6, <1>8
  <2>10. c[d + Len(u)] = c[d] + Occurs(s, u)
    <3>1. Stretch(u, text, d)
      BY <2>8 DEF Stretch
    <3>2. u \in Seq(Words) /\ d \in Nat
      BY <2>4, <2>5
    <3> QED BY <2>9, <3>1, <3>2, OccursPart
  <2>11. parts[k] = u
    BY <1>5, <2>1, <2>3
  <2> QED BY <2>1, <2>4, <2>5, <2>6, <2>10, <2>11
<1>11. Texts(parts, n, Words)
  <2>1. IsList(parts, n)
    BY <1>2, <1>5 DEF IsList
  <2> QED BY <1>2, <1>10, <2>1 DEF Texts
<1>12. PICK g : g = OccursOf(s, parts, n)
  OBVIOUS
<1>13. g \in [1..n -> Nat]
  BY <1>11, <1>12, OccursFlatten
<1>14. PICK d : d = [k \in 0..n |-> IF k = 0 THEN 0 ELSE c[end[k]]]
  OBVIOUS
<1>15. Sums(d, g, n)
  <2>1. ASSUME NEW k \in 0..n PROVE d[k] \in Nat
    <3>1. CASE k = 0
      BY <1>14, <3>1
    <3>2. CASE k # 0
      <4>1. k \in 1..n
        BY <1>2, <3>2
      <4> QED BY <1>4, <1>9, <1>14, <3>2, <4>1
    <3> QED BY <3>1, <3>2
  <2>2. d \in [0..n -> Nat]
    BY <1>14, <2>1
  <2>3. d[0] = 0
    BY <1>2, <1>14
  <2>4. ASSUME NEW k \in 1..n PROVE d[k] = d[k - 1] + g[k]
    <3>1. k \in 0..n /\ k - 1 \in 0..n /\ k # 0
      BY <1>2
    <3>2. d[k] = c[end[k]] /\ g[k] = Occurs(s, parts[k])
      BY <1>12, <1>14, <3>1 DEF OccursOf
    <3>3. d[k - 1] = c[cuts[k] - 1]
      <4>1. CASE k = 1
        BY <1>2, <1>9, <1>14, <4>1
      <4>2. CASE k # 1
        <5>1. PICK j : j = k - 1
          OBVIOUS
        <5>2. j \in 1..n /\ j # n /\ j + 1 = k /\ j # 0 /\ j \in 0..n
          BY <1>2, <4>2, <5>1
        <5>3. end[j] = cuts[k] - 1
          BY <1>3, <5>2
        <5>4. d[j] = c[end[j]]
          BY <1>14, <5>2
        <5> QED BY <5>1, <5>3, <5>4
      <4> QED BY <4>1, <4>2
    <3> QED BY <1>10, <3>2, <3>3
  <2> QED BY <2>2, <2>3, <2>4 DEF Sums
<1>16. Total(g, n) = d[n]
  BY <1>2, <1>13, <1>15, TotalOf
<1>17. d[n] = c[N]
  <2>1. n \in 1..n /\ n \in 0..n
    BY <1>2
  <2> QED BY <1>2, <1>3, <1>14, <2>1
<1> QED BY <1>7, <1>8, <1>11, <1>12, <1>16, <1>17

\* A text cut into sections has in its sections what it has.
LEMMA PartsAre ==
    ASSUME NEW s, NEW text \in Seq(Words), NEW parts, parts = SplitMarkdownIntoTopLevelSections(text)
    PROVE  \E n \in Nat \ {0} : Texts(parts, n, Words) /\ Total(OccursOf(s, parts, n), n) = Occurs(s, text)
<1>1. PICK N \in Nat : N = Len(text) /\ DOMAIN text = 1..N
  OBVIOUS
<1> DEFINE levels == {Level(text[i]) : i \in DOMAIN text} \cap {1, 2}
<1>2. PICK tops : tops = {i \in DOMAIN text : levels # {} /\ Level(text[i]) = Min(levels)}
  OBVIOUS
<1>4. parts = IF Cardinality(tops) <= 1 THEN <<text>> ELSE CutText(text, Positions(text, {1} \cup tops))
  BY <1>2 DEF SplitMarkdownIntoTopLevelSections
<1>5. CASE Cardinality(tops) <= 1
  <2>1. parts = <<text>>
    BY <1>4, <1>5
  <2>2. IsList(parts, 1) /\ parts[1] = text
    BY <2>1, OneIsList
  <2>3. Texts(parts, 1, Words)
    <3>1. \A k \in 1..1 : parts[k] \in Seq(Words)
      BY <2>2
    <3>2. 1 \in Nat
      OBVIOUS
    <3> QED BY <2>2, <3>1, <3>2, Zenon DEF Texts
  <2>4. PICK g : g = OccursOf(s, parts, 1)
    OBVIOUS
  <2>5. g \in [1..1 -> Nat]
    BY <2>3, <2>4, OccursFlatten
  <2>6. g[1] = Occurs(s, text)
    BY <2>2, <2>4 DEF OccursOf
  <2>7. Total(g, 1) = Occurs(s, text)
    BY <2>5, <2>6, TotalOne
  <2>8. 1 \in Nat \ {0}
    OBVIOUS
  <2> QED BY <2>3, <2>4, <2>7, <2>8, Zenon
<1>6. CASE ~(Cardinality(tops) <= 1)
  <2>1. tops # {}
    <3>1. Cardinality({}) = 0
      BY FS_EmptySet
    <3> HIDE DEF levels
    <3>2. tops = {} => Cardinality(tops) = 0
      BY <3>1, Zenon
    <3>3. ~(0 <= 1) => FALSE
      OBVIOUS
    <3> QED BY <1>6, <3>2, <3>3
  <2>2. PICK S : S = {1} \cup tops
    OBVIOUS
  <2>3. S \subseteq 1..N /\ 1 \in S /\ 1 <= N
    <3>1. tops \subseteq DOMAIN text
      BY <1>2, Zenon
    <3> HIDE DEF levels
    <3> QED BY <1>1, <2>1, <2>2, <3>1
  <2>4. PICK cuts : cuts = Positions(text, S)
    OBVIOUS
  <2>5. Lists(cuts, S, N)
    BY <1>1, <2>3, <2>4, PositionsAre
  <2>6. PICK n \in Nat : n = Len(cuts) /\ DOMAIN cuts = 1..n /\ n # 0
    BY <2>3, <2>5 DEF Lists
  <2>7. /\ \A k \in 1..n : cuts[k] \in S /\ cuts[k] \in 1..N
        /\ \A k, l \in 1..n : k < l => cuts[k] < cuts[l]
        /\ \E k \in 1..n : cuts[k] = 1
    <3>1. 1 \in S /\ 1 <= N
      BY <2>3
    <3> QED BY <2>3, <2>5, <2>6, <3>1 DEF Lists
  <2>8. cuts[1] = 1
    <3>1. PICK k \in 1..n : cuts[k] = 1
      BY <2>7
    <3>2. 1 \in 1..n
      BY <2>6
    <3>3. CASE k = 1
      BY <3>1, <3>3
    <3>4. CASE k # 1
      <4>1. cuts[1] < cuts[k] /\ cuts[1] \in 1..N
        BY <2>7, <3>2, <3>4
      <4> QED BY <3>1, <4>1
    <3> QED BY <3>3, <3>4
  <2> DEFINE end(k) == IF k = Len(cuts) THEN Len(text) ELSE cuts[k + 1] - 1
  <2>9. parts = [k \in 1..n |-> SubSeq(text, cuts[k], end(k))]
    BY <1>4, <1>6, <2>2, <2>4, <2>6, Zenon DEF CutText
  <2>10. ASSUME NEW k \in 1..n PROVE cuts[k] \in 1..Len(text) /\ (k < n => cuts[k] < cuts[k + 1])
    <3>1. ASSUME k < n PROVE k + 1 \in 1..n /\ k < k + 1
      BY <3>1
    <3> QED BY <1>1, <2>7, <3>1
  <2>11. Cut(text, cuts, parts, n)
    <3>1. n \in Nat \ {0}
      BY <2>6
    <3> QED BY <2>6, <2>8, <2>9, <2>10, <3>1, Zenon DEF Cut
  <2>12. Texts(parts, n, Words) /\ Total(OccursOf(s, parts, n), n) = Occurs(s, text)
    BY <2>11, CutIs
  <2> QED BY <2>6, <2>12
<1> QED BY <1>5, <1>6

UnitWorth(s, b, att, m) == Worth(s, b) + Total(WorthOf(s, att, m), m)
BodyCounts(s, ss, n, have) == [j \in 1..n |-> Occurs(s, RenderUnit(ss[j], have))]

LEMMA NoCharts == ASSUME NEW s PROVE ChartList(<<>>, 0) /\ Total(WorthOf(s, <<>>, 0), 0) = 0
<1>1. IsList(<<>>, 0)
  BY DEF IsList
<1>2. ChartList(<<>>, 0)
  BY <1>1 DEF ChartList
<1>3. PICK g : g = WorthOf(s, <<>>, 0)
  OBVIOUS
<1>4. g \in [1..0 -> Nat] /\ \A k \in 1..0 : g[k] = 0
  BY <1>3 DEF WorthOf
<1>5. Total(g, 0) = 0
  BY <1>4, TotalZero
<1> QED BY <1>2, <1>3, <1>5

LEMMA EmptyList == ASSUME NEW t, IsList(t, 0) PROVE t = <<>>
BY DEF IsList

\* A section of a text block, with the charts that are shown in it.
LEMMA SectionIs ==
    ASSUME NEW s, NEW have, Keeps(s, have), NEW b \in LooseBlock, b.kind # "chart",
           NEW att, NEW m, ChartList(att, m), NEW v, v.block = b, v.attached = att
    PROVE  /\ RenderUnit(v, have) \in Seq(Sym)
           /\ Shows(s, Occurs(s, RenderUnit(v, have)), UnitWorth(s, b, att, m))
<1>1. PICK t, c : t = RenderTextBlock(b, have) /\ c = RenderAttachedChartsInline(att, have)
  OBVIOUS
<1>2. t \in Seq(Sym) /\ Shows(s, Occurs(s, t), Worth(s, b))
  BY <1>1, TextBlockIs
<1>3. c \in Seq(Sym) /\ Shows(s, Occurs(s, c), Total(WorthOf(s, att, m), m))
  BY <1>1, AttachedIs
<1>4. RenderUnit(v, have) = t \o c
  BY <1>1, Zenon DEF RenderUnit
<1>5. t \o c \in Seq(Sym)
  BY <1>2, <1>3, ConcatProperties, Zenon
<1>6. Occurs(s, t \o c) = Occurs(s, t) + Occurs(s, c)
  BY <1>2, <1>3, OccursJoin
<1>7. Shows(s, Occurs(s, t) + Occurs(s, c), Worth(s, b) + Total(WorthOf(s, att, m), m))
  BY <1>2, <1>3, ShowsPlus
<1> QED BY <1>4, <1>5, <1>6, <1>7 DEF UnitWorth

\* The sections that show one unit, and what they show.
ShownBy(s, ss, n, have, worth) ==
    /\ n \in Nat \ {0} /\ IsList(ss, n) /\ \A j \in 1..n : RenderUnit(ss[j], have) \in Seq(Sym)
    /\ Shows(s, Total(BodyCounts(s, ss, n, have), n), worth)

LEMMA OneShown ==
    ASSUME NEW s, NEW u, NEW have, NEW worth, RenderUnit(u, have) \in Seq(Sym),
           Shows(s, Occurs(s, RenderUnit(u, have)), worth)
    PROVE  ShownBy(s, <<u>>, 1, have, worth)
<1>1. PICK ss, body : ss = <<u>> /\ body = RenderUnit(u, have)
  OBVIOUS
<1>2. IsList(ss, 1) /\ ss[1] = u
  BY <1>1, OneIsList
<1>3. PICK g : g = BodyCounts(s, ss, 1, have)
  OBVIOUS
<1>4. \A j \in 1..1 : RenderUnit(ss[j], have) = body
  BY <1>1, <1>2
<1>5. Occurs(s, body) \in Nat
  BY <1>1 DEF Shows
<1>6. g = [j \in 1..1 |-> Occurs(s, body)]
  BY <1>3, <1>4 DEF BodyCounts
<1>7. g \in [1..1 -> Nat] /\ g[1] = Occurs(s, body)
  BY <1>5, <1>6
<1>8. Total(g, 1) = Occurs(s, body)
  BY <1>7, TotalOne
<1>9. 1 \in Nat \ {0}
  OBVIOUS
<1>10. \A j \in 1..1 : RenderUnit(ss[j], have) \in Seq(Sym)
  BY <1>1, <1>4
<1>11. Shows(s, Total(g, 1), worth)
  BY <1>1, <1>8
<1> QED BY <1>1, <1>2, <1>3, <1>9, <1>10, <1>11, Zenon DEF ShownBy

\* A markdown block.
LEMMA TextShown ==
    ASSUME NEW s, NEW have, Keeps(s, have), NEW b \in LooseBlock, b.kind = "markdown",
           NEW att, NEW m, ChartList(att, m), NEW u, u.block = b, u.attached = att
    PROVE  \E n : ShownBy(s, SplitRenderUnitSections(u), n, have, UnitWorth(s, b, att, m))
<1>1. PICK text \in Seq(Words) : text = b.text
  BY LooseIs
<1>2. PICK parts : parts = SplitMarkdownIntoTopLevelSections(text)
  OBVIOUS
<1>3. PICK n \in Nat \ {0} : Texts(parts, n, Words) /\ Total(OccursOf(s, parts, n), n) = Occurs(s, text)
  BY <1>2, PartsAre
<1>4. IsList(parts, n) /\ DOMAIN parts = 1..n /\ \A k \in 1..n : parts[k] \in Seq(Words)
  BY <1>3, ListLen DEF Texts
<1>5. PICK ss : ss = SplitRenderUnitSections(u)
  OBVIOUS
<1> DEFINE blk(k) == [b EXCEPT !.text = parts[k]]
           ath(k) == IF k = 1 THEN att ELSE <<>>
           num(k) == IF k = 1 THEN m ELSE 0
<1>6. ss = [k \in 1..n |-> [block |-> blk(k), attached |-> ath(k)]]
  BY <1>1, <1>2, <1>4, <1>5, Zenon DEF SplitRenderUnitSections
<1>7. ASSUME NEW k \in 1..n
      PROVE  /\ blk(k) \in LooseBlock /\ blk(k).kind = "markdown" /\ blk(k).text = parts[k]
  <2>1. parts[k] \in Seq(Words)
    BY <1>4
  <2> QED BY <2>1 DEF LooseBlock
<1>8. PICK W : W = Total(WorthOf(s, att, m), m)
  OBVIOUS
<1>9. W \in Nat
  <2>1. Shows(s, Occurs(s, RenderAttachedChartsInline(att, have)), Total(WorthOf(s, att, m), m))
    BY AttachedIs
  <2> QED BY <1>8, <2>1 DEF Shows
<1>10. PICK f : f = OccursOf(s, parts, n)
  OBVIOUS
<1>11. f \in [1..n -> Nat] /\ \A k \in 1..n : f[k] = Occurs(s, parts[k])
  <2>1. f \in [1..n -> Nat]
    BY <1>3, <1>10, OccursFlatten
  <2> QED BY <1>10, <2>1 DEF OccursOf
<1>12. PICK h : h = [k \in 1..n |-> f[k] + (IF k = 1 THEN W ELSE 0)]
  OBVIOUS
<1>13. h \in [1..n -> Nat]
  BY <1>9, <1>11, <1>12
<1>14. PICK g : g = BodyCounts(s, ss, n, have)
  OBVIOUS
<1>15. ASSUME NEW k \in 1..n
       PROVE  RenderUnit(ss[k], have) \in Seq(Sym) /\ Shows(s, Occurs(s, RenderUnit(ss[k], have)), h[k])
  <2>1. PICK bk, ak, mk, v : bk = blk(k) /\ ak = ath(k) /\ mk = num(k) /\ v = ss[k]
    OBVIOUS
  <2>2. v.block = bk /\ v.attached = ak
    <3> HIDE DEF blk, ath
    <3> QED BY <1>6, <2>1
  <2>3. ChartList(ak, mk) /\ Total(WorthOf(s, ak, mk), mk) = IF k = 1 THEN W ELSE 0
    <3>1. CASE k = 1
      BY <1>8, <2>1, <3>1
    <3>2. CASE k # 1
      BY <2>1, <3>2, NoCharts
    <3> QED BY <3>1, <3>2
  <2>4. bk \in LooseBlock /\ bk.kind = "markdown" /\ bk.text = parts[k]
    BY <1>7, <2>1, Zenon
  <2>5. bk.kind # "chart"
    BY <2>4
  <2>6. RenderUnit(v, have) \in Seq(Sym) /\ Shows(s, Occurs(s, RenderUnit(v, have)), UnitWorth(s, bk, ak, mk))
    <3> HIDE DEF blk, ath, num
    <3> QED BY <2>2, <2>3, <2>4, <2>5, SectionIs, Zenon
  <2>7. Worth(s, bk) = f[k]
    <3>1. ChartsNamed(bk) = parts[k]
      BY <2>4 DEF ChartsNamed
    <3>2. Source(s, bk) = parts[k]
      BY <2>4, <3>1 DEF Source
    <3> QED BY <1>11, <3>2 DEF Worth
  <2>8. UnitWorth(s, bk, ak, mk) = h[k]
    BY <1>12, <2>3, <2>7 DEF UnitWorth
  <2> QED BY <2>1, <2>6, <2>8
<1>16. ASSUME NEW k \in 1..n PROVE g[k] \in Nat /\ Shows(s, g[k], h[k]) /\ g[k] = Occurs(s, RenderUnit(ss[k], have))
  <2>1. g[k] = Occurs(s, RenderUnit(ss[k], have))
    BY <1>14 DEF BodyCounts
  <2>2. Shows(s, g[k], h[k])
    BY <1>15, <2>1
  <2> QED BY <2>1, <2>2 DEF Shows
<1>17. g \in [1..n -> Nat]
  BY <1>14, <1>16 DEF BodyCounts
<1>18. Shows(s, Total(g, n), Total(h, n))
  BY <1>13, <1>16, <1>17, ShowsTotal
<1>19. Total(h, n) = Total(f, n) + W
  <2>1. 1 \in 1..n /\ \A k \in 1..n : k # 1 => h[k] = f[k]
    BY <1>11, <1>12
  <2>2. Total(h, n) + f[1] = Total(f, n) + h[1]
    <3>1. DifferAt(h, f, n, 1)
      BY <1>3, <1>11, <1>13, <2>1 DEF DifferAt
    <3> QED BY <3>1, TotalBump
  <2>3. h[1] = f[1] + W /\ f[1] \in Nat
    BY <1>11, <1>12, <2>1
  <2>4. Total(h, n) \in Nat /\ Total(f, n) \in Nat
    BY <1>11, <1>13, TotalIs
  <2> QED BY <1>9, <2>2, <2>3, <2>4
<1>20. Worth(s, b) = Occurs(s, text)
  <2>1. ChartsNamed(b) = text
    BY <1>1 DEF ChartsNamed
  <2> QED BY <1>1, <2>1 DEF Worth, Source
<1>21. UnitWorth(s, b, att, m) = Total(h, n)
  BY <1>3, <1>8, <1>10, <1>19, <1>20 DEF UnitWorth
<1>22. IsList(ss, n)
  <2> HIDE DEF blk, ath
  <2> QED BY <1>6 DEF IsList
<1>23. ShownBy(s, ss, n, have, UnitWorth(s, b, att, m))
  <2>1. Shows(s, Total(BodyCounts(s, ss, n, have), n), UnitWorth(s, b, att, m))
    BY <1>14, <1>18, <1>21
  <2>2. \A j \in 1..n : RenderUnit(ss[j], have) \in Seq(Sym)
    BY <1>15
  <2> QED BY <1>3, <1>22, <2>1, <2>2, Zenon DEF ShownBy
<1> QED BY <1>5, <1>23

LEMMA UnitShown ==
    ASSUME NEW s, NEW have, Keeps(s, have), NEW b \in LooseBlock,
           NEW att, NEW m, ChartList(att, m), b.kind = "chart" => m = 0,
           NEW u, u.block = b, u.attached = att
    PROVE  \E n : ShownBy(s, SplitRenderUnitSections(u), n, have, UnitWorth(s, b, att, m))
<1>1. CASE b.kind = "markdown"
  BY <1>1, TextShown
<1>2. CASE b.kind = "html"
  <2>1. SplitRenderUnitSections(u) = <<u>>
    BY <1>2 DEF SplitRenderUnitSections
  <2>2. b.kind # "chart"
    BY <1>2
  <2>3. RenderUnit(u, have) \in Seq(Sym) /\ Shows(s, Occurs(s, RenderUnit(u, have)), UnitWorth(s, b, att, m))
    BY <2>2, SectionIs
  <2>4. ShownBy(s, <<u>>, 1, have, UnitWorth(s, b, att, m))
    BY <2>3, OneShown
  <2> QED BY <2>1, <2>4
<1>3. CASE b.kind = "chart"
  <2>1. SplitRenderUnitSections(u) = <<u>>
    BY <1>3 DEF SplitRenderUnitSections
  <2>2. RenderUnit(u, have) = RenderChartBlockHTML(b, have)
    BY <1>3 DEF RenderUnit
  <2>3. RenderUnit(u, have) \in Seq(Sym) /\ Shows(s, Occurs(s, RenderUnit(u, have)), Worth(s, b))
    BY <1>3, <2>2, ChartBlockIs
  <2>4. m = 0 /\ att = <<>>
    BY <1>3, EmptyList DEF ChartList
  <2>5. Total(WorthOf(s, att, m), m) = 0
    BY <2>4, NoCharts
  <2>6. Worth(s, b) \in Nat
    BY WorthNat
  <2>7. UnitWorth(s, b, att, m) = Worth(s, b)
    BY <2>5, <2>6 DEF UnitWorth
  <2>8. ShownBy(s, <<u>>, 1, have, UnitWorth(s, b, att, m))
    BY <2>3, <2>7, OneShown
  <2> QED BY <2>1, <2>8
<1> QED BY <1>1, <1>2, <1>3, LooseIs

---------------------------------------------------------------------------
(* Every block is shown in one place: by itself, or in the block that its  *)
(* anchor names.                                                           *)

\* order has the blocks shown by themselves, ch[k] those shown in the k-th of them.
Grouped(anchor, N, order, n, ch) ==
    /\ N \in Nat /\ n \in Nat
    /\ \A i \in 1..N : anchor[i] # 0 => anchor[i] \in 1..N /\ anchor[anchor[i]] = 0
    /\ \A k \in 1..n : order[k] \in 1..N /\ anchor[order[k]] = 0
    /\ \A k, l \in 1..n : k # l => order[k] # order[l]
    /\ \A i \in 1..N : anchor[i] = 0 => \E k \in 1..n : order[k] = i
    /\ \A k \in 1..n :
          /\ Len(ch[k]) \in Nat
          /\ \A x \in 1..Len(ch[k]) : ch[k][x] \in 1..N /\ anchor[ch[k][x]] = order[k]
          /\ \A x, y \in 1..Len(ch[k]) : x # y => ch[k][x] # ch[k][y]
          /\ \A i \in 1..N : anchor[i] = order[k] => \E x \in 1..Len(ch[k]) : ch[k][x] = i

Inner(v, c)           == [x \in 1..Len(c) |-> v[c[x]]]
Group(v, order, ch, n) == [k \in 1..n |-> v[order[k]] + Total(Inner(v, ch[k]), Len(ch[k]))]

GroupFacts(v, order, ch, n) ==
    /\ n \in Nat /\ Group(v, order, ch, n) \in [1..n -> Nat]
    /\ \A k \in 1..n : /\ Len(ch[k]) \in Nat
                       /\ Inner(v, ch[k]) \in [1..Len(ch[k]) -> Nat]
                       /\ Total(Inner(v, ch[k]), Len(ch[k])) \in Nat
                       /\ v[order[k]] \in Nat
                       /\ Group(v, order, ch, n)[k] = v[order[k]] + Total(Inner(v, ch[k]), Len(ch[k]))

LEMMA GroupIs ==
    ASSUME NEW anchor, NEW N, NEW order, NEW n, NEW ch, Grouped(anchor, N, order, n, ch),
           NEW v, v \in [1..N -> Nat]
    PROVE  GroupFacts(v, order, ch, n)
<1>1. ASSUME NEW k \in 1..n
      PROVE  /\ Len(ch[k]) \in Nat /\ Inner(v, ch[k]) \in [1..Len(ch[k]) -> Nat]
             /\ Total(Inner(v, ch[k]), Len(ch[k])) \in Nat /\ v[order[k]] \in Nat
  <2>1. PICK c, m : c = ch[k] /\ m = Len(ch[k])
    OBVIOUS
  <2>2. m \in Nat /\ (\A x \in 1..m : c[x] \in 1..N) /\ order[k] \in 1..N
    BY <2>1 DEF Grouped
  <2>3. PICK g : g = Inner(v, c)
    OBVIOUS
  <2>4. g = [x \in 1..m |-> v[c[x]]]
    BY <2>1, <2>3 DEF Inner
  <2>5. g \in [1..m -> Nat]
    BY <2>2, <2>4
  <2>6. Total(g, m) \in Nat
    BY <2>2, <2>5, TotalIs
  <2>7. v[order[k]] \in Nat
    BY <2>2
  <2> QED BY <2>1, <2>2, <2>3, <2>5, <2>6, <2>7
<1>2. ASSUME NEW k \in 1..n PROVE v[order[k]] + Total(Inner(v, ch[k]), Len(ch[k])) \in Nat
  BY <1>1
<1>3. Group(v, order, ch, n) \in [1..n -> Nat]
  BY <1>2 DEF Group
<1>4. \A k \in 1..n : Group(v, order, ch, n)[k] = v[order[k]] + Total(Inner(v, ch[k]), Len(ch[k]))
  BY DEF Group
<1>5. n \in Nat
  BY DEF Grouped
<1> QED BY <1>1, <1>3, <1>4, <1>5 DEF GroupFacts

\* w is v without what v has at i.
Less(w, v, N, i) ==
    /\ v \in [1..N -> Nat] /\ w \in [1..N -> Nat] /\ i \in 1..N /\ w[i] = 0
    /\ \A x \in 1..N : x # i => v[x] = w[x]

LEMMA GroupStep ==
    ASSUME NEW anchor, NEW N, NEW order, NEW n, NEW ch, Grouped(anchor, N, order, n, ch),
           NEW v, NEW w, NEW i, Less(w, v, N, i)
    PROVE  Total(Group(v, order, ch, n), n) = Total(Group(w, order, ch, n), n) + v[i]
<1>0. /\ v \in [1..N -> Nat] /\ w \in [1..N -> Nat] /\ i \in 1..N /\ w[i] = 0
      /\ \A x \in 1..N : x # i => v[x] = w[x]
  BY DEF Less
<1>1. PICK gv, gw : gv = Group(v, order, ch, n) /\ gw = Group(w, order, ch, n)
  OBVIOUS
<1>2. PICK iv, iw : /\ iv = [k \in 1..n |-> Total(Inner(v, ch[k]), Len(ch[k]))]
                    /\ iw = [k \in 1..n |-> Total(Inner(w, ch[k]), Len(ch[k]))]
  OBVIOUS
<1>3. /\ n \in Nat /\ gv \in [1..n -> Nat]
      /\ \A k \in 1..n : /\ Len(ch[k]) \in Nat /\ Inner(v, ch[k]) \in [1..Len(ch[k]) -> Nat]
                         /\ iv[k] \in Nat /\ v[order[k]] \in Nat /\ gv[k] = v[order[k]] + iv[k]
  <2>1. GroupFacts(v, order, ch, n)
    BY <1>0, GroupIs
  <2> QED BY <1>1, <1>2, <2>1 DEF GroupFacts
<1>4. /\ gw \in [1..n -> Nat]
      /\ \A k \in 1..n : /\ Inner(w, ch[k]) \in [1..Len(ch[k]) -> Nat]
                         /\ iw[k] \in Nat /\ w[order[k]] \in Nat /\ gw[k] = w[order[k]] + iw[k]
  <2>1. GroupFacts(w, order, ch, n)
    BY <1>0, GroupIs
  <2> QED BY <1>1, <1>2, <2>1 DEF GroupFacts
<1>5. /\ anchor[i] # 0 => anchor[i] \in 1..N /\ anchor[anchor[i]] = 0
      /\ \A k \in 1..n : order[k] \in 1..N /\ anchor[order[k]] = 0
      /\ \A k, l \in 1..n : k # l => order[k] # order[l]
      /\ \A x \in 1..N : anchor[x] = 0 => \E k \in 1..n : order[k] = x
  BY <1>0 DEF Grouped
<1>6. ASSUME NEW k \in 1..n
      PROVE  /\ Len(ch[k]) \in Nat
             /\ \A x \in 1..Len(ch[k]) : ch[k][x] \in 1..N /\ anchor[ch[k][x]] = order[k]
             /\ \A x, y \in 1..Len(ch[k]) : x # y => ch[k][x] # ch[k][y]
             /\ anchor[i] = order[k] => \E x \in 1..Len(ch[k]) : ch[k][x] = i
  BY <1>0 DEF Grouped
<1>7. ASSUME NEW k \in 1..n, anchor[i] # order[k] PROVE iv[k] = iw[k]
  <2>1. PICK c, m : c = ch[k] /\ m = Len(c)
    OBVIOUS
  <2>2. \A x \in 1..m : c[x] \in 1..N /\ anchor[c[x]] = order[k]
    BY <1>6, <2>1
  <2>3. ASSUME NEW x \in 1..m PROVE v[c[x]] = w[c[x]]
    <3>1. c[x] \in 1..N /\ c[x] # i
      BY <1>7, <2>2
    <3> QED BY <1>0, <3>1
  <2>4. [x \in 1..m |-> v[c[x]]] = [x \in 1..m |-> w[c[x]]]
    BY <2>3
  <2>5. Inner(v, c) = Inner(w, c)
    BY <2>1, <2>4 DEF Inner
  <2> QED BY <1>2, <2>1, <2>5
<1>8. PICK p : p = v[i]
  OBVIOUS
<1>9. p \in Nat
  BY <1>0, <1>8
<1>10. Total(gv, n) \in Nat /\ Total(gw, n) \in Nat
  BY <1>3, <1>4, TotalIs
<1>11. SUFFICES \E k \in 1..n : DifferAt(gv, gw, n, k) /\ gv[k] = gw[k] + p /\ gw[k] \in Nat
  <2>1. PICK k \in 1..n : DifferAt(gv, gw, n, k) /\ gv[k] = gw[k] + p /\ gw[k] \in Nat
    BY <1>11
  <2>2. Total(gv, n) + gw[k] = Total(gw, n) + gv[k]
    BY <2>1, TotalBump
  <2>3. Total(gv, n) = Total(gw, n) + p
    <3>1. PICK x, y, z, q : x = Total(gv, n) /\ y = Total(gw, n) /\ z = gw[k] /\ q = gv[k]
      OBVIOUS
    <3>2. x \in Nat /\ y \in Nat /\ z \in Nat /\ q = z + p
      BY <1>10, <2>1, <3>1
    <3>3. x + z = y + q
      BY <2>2, <3>1
    <3>4. x = y + p
      BY <1>9, <3>2, <3>3
    <3> QED BY <3>1, <3>4
  <2> QED BY <1>1, <1>8, <2>3
<1>12. CASE anchor[i] = 0
  <2>1. PICK k \in 1..n : order[k] = i
    BY <1>0, <1>5, <1>12
  <2>2. \A l \in 1..n : anchor[i] # order[l]
    BY <1>0, <1>5, <1>12
  <2>3. ASSUME NEW l \in 1..n, l # k PROVE gv[l] = gw[l]
    <3>1. order[l] \in 1..N /\ order[l] # i
      BY <1>5, <2>1, <2>3
    <3>2. v[order[l]] = w[order[l]] /\ iv[l] = iw[l]
      BY <1>0, <1>7, <2>2, <3>1
    <3> QED BY <1>3, <1>4, <3>2
  <2>4. DifferAt(gv, gw, n, k)
    BY <1>3, <1>4, <2>1, <2>3 DEF DifferAt
  <2>5. gv[k] = p + iv[k] /\ gw[k] = 0 + iw[k] /\ iv[k] = iw[k] /\ iw[k] \in Nat
    BY <1>0, <1>3, <1>4, <1>7, <1>8, <2>1, <2>2
  <2>6. gv[k] = gw[k] + p /\ gw[k] \in Nat
    BY <1>9, <2>5
  <2> QED BY <2>4, <2>6
<1>13. CASE anchor[i] # 0
  <2>1. PICK k \in 1..n : order[k] = anchor[i]
    BY <1>5, <1>13
  <2>2. \A l \in 1..n : order[l] \in 1..N /\ order[l] # i
    BY <1>5, <1>13
  <2>3. \A l \in 1..n : v[order[l]] = w[order[l]]
    BY <1>0, <2>2
  <2>4. ASSUME NEW l \in 1..n, l # k PROVE gv[l] = gw[l]
    <3>1. anchor[i] # order[l]
      BY <1>5, <2>1, <2>4
    <3>2. iv[l] = iw[l]
      BY <1>7, <3>1
    <3> QED BY <1>3, <1>4, <2>3, <3>2
  <2>5. DifferAt(gv, gw, n, k)
    BY <1>3, <1>4, <2>1, <2>4 DEF DifferAt
  <2>6. PICK c, m : c = ch[k] /\ m = Len(c)
    OBVIOUS
  <2>7. /\ m \in Nat
        /\ \A x \in 1..m : c[x] \in 1..N
        /\ \A x, y \in 1..m : x # y => c[x] # c[y]
    <3>1. /\ Len(ch[k]) \in Nat
          /\ \A x \in 1..Len(ch[k]) : ch[k][x] \in 1..N
          /\ \A x, y \in 1..Len(ch[k]) : x # y => ch[k][x] # ch[k][y]
      BY <1>6, Zenon
    <3> QED BY <2>6, <3>1, Zenon
  <2>8. PICK y \in 1..m : c[y] = i
    BY <1>6, <2>1, <2>6
  <2>9. PICK av, aw : av = Inner(v, c) /\ aw = Inner(w, c)
    OBVIOUS
  <2>10. av \in [1..m -> Nat] /\ aw \in [1..m -> Nat]
    BY <1>3, <1>4, <2>6, <2>9
  <2>11. \A x \in 1..m : av[x] = v[c[x]] /\ aw[x] = w[c[x]]
    BY <2>6, <2>9 DEF Inner
  <2>12. ASSUME NEW x \in 1..m, x # y PROVE av[x] = aw[x]
    <3>1. c[x] \in 1..N /\ c[x] # i
      BY <2>7, <2>8, <2>12
    <3> QED BY <1>0, <2>11, <3>1
  <2>13. DifferAt(av, aw, m, y)
    BY <2>7, <2>8, <2>10, <2>12 DEF DifferAt
  <2>14. Total(av, m) + aw[y] = Total(aw, m) + av[y]
    BY <2>13, TotalBump
  <2>15. aw[y] = 0 /\ av[y] = p
    BY <1>0, <1>8, <2>8, <2>11
  <2>16. iv[k] = Total(av, m) /\ iw[k] = Total(aw, m)
    BY <1>2, <2>6, <2>9
  <2>17. iv[k] \in Nat /\ iw[k] \in Nat
    BY <1>3, <1>4
  <2>18. iv[k] = iw[k] + p
    BY <1>9, <2>14, <2>15, <2>16, <2>17
  <2>19. gv[k] = gw[k] + p /\ gw[k] \in Nat
    <3>1. PICK z : z = w[order[k]]
      OBVIOUS
    <3>2. z \in Nat /\ gv[k] = z + iv[k] /\ gw[k] = z + iw[k]
      BY <1>3, <1>4, <2>3, <3>1
    <3> QED BY <1>9, <2>17, <2>18, <3>2
  <2> QED BY <2>5, <2>19
<1> QED BY <1>12, <1>13

LEMMA Regroup ==
    ASSUME NEW anchor, NEW N, NEW order, NEW n, NEW ch, Grouped(anchor, N, order, n, ch),
           NEW v, v \in [1..N -> Nat]
    PROVE  Total(Group(v, order, ch, n), n) = Total(v, N)
<1>1. N \in Nat
  BY DEF Grouped
<1> DEFINE Upto(f, i) == f \in [1..N -> Nat] /\ \A x \in 1..N : x > i => f[x] = 0
           Same(f)    == Total(Group(f, order, ch, n), n) = Total(f, N)
           T == {i \in 0..N : \A f : Upto(f, i) => Same(f)}
<1>2. 0 \in T
  <2>1. ASSUME NEW f, Upto(f, 0) PROVE Same(f)
    <3>1. f \in [1..N -> Nat] /\ \A x \in 1..N : f[x] = 0
      BY <2>1
    <3>2. Total(f, N) = 0
      BY <1>1, <3>1, TotalZero
    <3>3. PICK g : g = Group(f, order, ch, n)
      OBVIOUS
    <3>4. /\ n \in Nat /\ g \in [1..n -> Nat]
          /\ \A k \in 1..n : Len(ch[k]) \in Nat /\ g[k] = f[order[k]] + Total(Inner(f, ch[k]), Len(ch[k]))
      <4>1. GroupFacts(f, order, ch, n)
        BY <3>1, GroupIs
      <4> QED BY <3>3, <4>1 DEF GroupFacts
    <3>5. ASSUME NEW k \in 1..n PROVE g[k] = 0
      <4>1. PICK c, m : c = ch[k] /\ m = Len(c)
        OBVIOUS
      <4>2. m \in Nat /\ order[k] \in 1..N /\ \A x \in 1..m : c[x] \in 1..N
        BY <4>1 DEF Grouped
      <4>3. PICK h : h = Inner(f, c)
        OBVIOUS
      <4>4. h = [x \in 1..m |-> f[c[x]]]
        BY <4>1, <4>3 DEF Inner
      <4>5. h \in [1..m -> Nat] /\ \A x \in 1..m : h[x] = 0
        BY <3>1, <4>2, <4>4
      <4>6. Total(h, m) = 0
        BY <4>2, <4>5, TotalZero
      <4>7. g[k] = f[order[k]] + Total(h, m)
        BY <3>4, <4>1, <4>3
      <4>8. f[order[k]] = 0
        BY <3>1, <4>2
      <4> QED BY <4>6, <4>7, <4>8
    <3>6. Total(g, n) = 0
      BY <3>4, <3>5, TotalZero
    <3> QED BY <3>2, <3>3, <3>6
  <2>2. 0 \in 0..N
    BY <1>1
  <2> HIDE DEF Upto, Same
  <2> QED BY <2>1, <2>2
<1>3. ASSUME NEW i \in 1..N, i - 1 \in T PROVE i \in T
  <2>1. ASSUME NEW f, Upto(f, i) PROVE Same(f)
    <3>1. f \in [1..N -> Nat] /\ \A x \in 1..N : x > i => f[x] = 0
      BY <2>1
    <3>2. PICK w : w = [f EXCEPT ![i] = 0]
      OBVIOUS
    <3>3. w \in [1..N -> Nat] /\ w[i] = 0 /\ \A x \in 1..N : x # i => f[x] = w[x]
      BY <3>1, <3>2
    <3>4. Upto(w, i - 1)
      <4>1. ASSUME NEW x \in 1..N, x > i - 1 PROVE w[x] = 0
        <5>1. CASE x = i
          BY <3>3, <5>1
        <5>2. CASE x # i
          BY <1>1, <3>1, <3>3, <4>1, <5>2
        <5> QED BY <5>1, <5>2
      <4> QED BY <3>3, <4>1
    <3>5. Same(w)
      <4> HIDE DEF Upto, Same
      <4> QED BY <1>3, <3>4
    <3>6. Total(Group(f, order, ch, n), n) = Total(Group(w, order, ch, n), n) + f[i]
      <4>1. Less(w, f, N, i)
        BY <3>1, <3>3 DEF Less
      <4> QED BY <4>1, GroupStep
    <3>7. Total(f, N) + w[i] = Total(w, N) + f[i]
      <4>1. DifferAt(f, w, N, i)
        BY <1>1, <3>1, <3>3 DEF DifferAt
      <4> QED BY <4>1, TotalBump
    <3>8. Total(f, N) \in Nat /\ Total(w, N) \in Nat /\ f[i] \in Nat
      BY <1>1, <3>1, <3>3, TotalIs
    <3>9. Total(f, N) = Total(w, N) + f[i]
      BY <3>3, <3>7, <3>8
    <3> QED BY <3>5, <3>6, <3>9
  <2>2. i \in 0..N
    BY <1>1
  <2> HIDE DEF Upto, Same
  <2> QED BY <2>1, <2>2
<1>4. Upto(v, N)
  BY <1>1
<1>5. N \in T
  <2> HIDE DEF T
  <2>1. N \in 0..N
    BY <1>1
  <2> QED BY <1>1, <1>2, <1>3, <2>1, Induct
<1>6. Same(v)
  <2> HIDE DEF Upto, Same
  <2> QED BY <1>4, <1>5
<1> QED BY <1>6

LEMMA Largest ==
    ASSUME NEW N \in Nat, NEW S, S \subseteq 1..N, S # {} PROVE Max(S) \in S
<1>1. PICK D : D = {N - x : x \in S}
  OBVIOUS
<1>2. D \subseteq Nat /\ D # {}
  <2>1. ASSUME NEW y \in D PROVE y \in Nat
    <3>1. PICK x \in S : y = N - x
      BY <1>1, <2>1
    <3>2. x \in 1..N
      BY <3>1
    <3> QED BY <3>1, <3>2
  <2>2. PICK x : x \in S
    OBVIOUS
  <2>3. N - x \in D
    BY <1>1, <2>2
  <2> QED BY <2>1, <2>3
<1>3. PICK d \in D : \A y \in D : d <= y
  BY <1>2, Smallest
<1>4. PICK m \in S : d = N - m
  BY <1>1, <1>3
<1>5. ASSUME NEW y \in S PROVE m >= y
  <2>1. d <= N - y /\ y \in 1..N /\ m \in 1..N
    BY <1>1, <1>3
  <2> QED BY <1>4, <2>1
<1> QED BY <1>5 DEF Max

\* Untitled charts are shown in texts.
Anchored(bs, anchor, N) ==
    \A i \in 1..N : anchor[i] # 0 =>
        /\ anchor[i] \in 1..N /\ anchor[anchor[i]] = 0
        /\ bs[i].kind = "chart" /\ bs[anchor[i]].kind # "chart"

LEMMA AnchorsAre ==
    ASSUME NEW bs, NEW N \in Nat, Len(bs) = N, DOMAIN bs = 1..N
    PROVE  Anchored(bs, ChartAnchors(bs), N)
<1>1. PICK anchor : anchor = ChartAnchors(bs)
  OBVIOUS
<1>2. anchor = [i \in 1..N |-> IF ShouldAttachChartInline(bs[i]) THEN FindInlineChartAnchorIndex(bs, i) ELSE 0]
  BY <1>1 DEF ChartAnchors
<1>3. ASSUME NEW i \in 1..N, FindInlineChartAnchorIndex(bs, i) # 0
      PROVE  /\ FindInlineChartAnchorIndex(bs, i) \in 1..N
             /\ IsTextRenderBlock(bs[FindInlineChartAnchorIndex(bs, i)])
  <2>1. PICK pre, post : /\ pre = {j \in 1..(i - 1) : IsTextRenderBlock(bs[j])}
                         /\ post = {j \in (i + 1)..Len(bs) : IsTextRenderBlock(bs[j])}
    OBVIOUS
  <2>2. pre \subseteq 1..N /\ post \subseteq 1..N
    BY <2>1
  <2>3. PICK prev, next : prev = (IF pre = {} THEN 0 ELSE Max(pre)) /\ next = IF post = {} THEN 0 ELSE Min(post)
    OBVIOUS
  <2>4. FindInlineChartAnchorIndex(bs, i) \in {prev, next}
    BY <2>1, <2>3, Zenon DEF FindInlineChartAnchorIndex
  <2>5. prev # 0 => prev \in pre
    BY <2>2, <2>3, Largest
  <2>6. next # 0 => next \in post
    <3>1. post \subseteq Nat
      BY <2>2
    <3> QED BY <2>3, <3>1, Least
  <2>7. PICK a : a = FindInlineChartAnchorIndex(bs, i)
    OBVIOUS
  <2>8. a \in pre \cup post
    <3>1. CASE a = prev
      BY <1>3, <2>5, <2>7, <3>1
    <3>2. CASE a = next
      BY <1>3, <2>6, <2>7, <3>2
    <3> QED BY <2>4, <2>7, <3>1, <3>2
  <2>9. a \in 1..N /\ IsTextRenderBlock(bs[a])
    BY <2>1, <2>2, <2>8, Zenon
  <2> QED BY <2>7, <2>9
<1>4. ASSUME NEW i \in 1..N, anchor[i] # 0
      PROVE  /\ anchor[i] \in 1..N /\ anchor[anchor[i]] = 0
             /\ bs[i].kind = "chart" /\ bs[anchor[i]].kind # "chart"
  <2>1. PICK a : a = anchor[i]
    OBVIOUS
  <2>2. ShouldAttachChartInline(bs[i]) /\ a = FindInlineChartAnchorIndex(bs, i)
    BY <1>2, <1>4, <2>1
  <2>3. a \in 1..N /\ IsTextRenderBlock(bs[a])
    BY <1>3, <1>4, <2>1, <2>2
  <2>4. bs[i].kind = "chart"
    BY <2>2, Zenon DEF ShouldAttachChartInline
  <2>5. bs[a].kind # "chart"
    <3>1. bs[a].kind \in {"markdown", "html"}
      BY <2>3, Zenon DEF IsTextRenderBlock
    <3> QED BY <3>1
  <2>6. ~ShouldAttachChartInline(bs[a])
    BY <2>5, Zenon DEF ShouldAttachChartInline
  <2>7. anchor[a] = 0
    BY <1>2, <2>3, <2>6
  <2> QED BY <2>1, <2>3, <2>4, <2>5, <2>7
<1> QED BY <1>1, <1>4 DEF Anchored

\* The units of the blocks.
UnitsOf(us, bs, order, n, ch) ==
    /\ IsList(us, n)
    /\ \A k \in 1..n : /\ us[k].block = bs[order[k]]
                       /\ us[k].attached = [x \in 1..Len(ch[k]) |-> bs[ch[k][x]]]

\* p has every member of S once.
Apart(p, S) ==
    /\ Len(p) \in Nat /\ DOMAIN p = 1..Len(p)
    /\ \A k \in 1..Len(p) : p[k] \in S
    /\ \A k, l \in 1..Len(p) : k # l => p[k] # p[l]
    /\ \A i \in S : \E k \in 1..Len(p) : p[k] = i

LEMMA ListsApart ==
    ASSUME NEW p, NEW S, NEW N \in Nat, S \subseteq 1..N, Lists(p, S, N) PROVE Apart(p, S)
<1>1. /\ p \in Seq(Nat)
      /\ \A k \in 1..Len(p) : p[k] \in S
      /\ \A k, l \in 1..Len(p) : k < l => p[k] < p[l]
      /\ \A x \in S : x <= N => \E k \in 1..Len(p) : p[k] = x
  BY DEF Lists
<1>2. Len(p) \in Nat /\ DOMAIN p = 1..Len(p) /\ \A k \in 1..Len(p) : p[k] \in Nat
  BY <1>1
<1>3. ASSUME NEW k \in 1..Len(p), NEW l \in 1..Len(p), k # l PROVE p[k] # p[l]
  <2>1. p[k] \in Nat /\ p[l] \in Nat /\ (k < l \/ l < k)
    BY <1>2, <1>3
  <2>2. p[k] < p[l] \/ p[l] < p[k]
    BY <1>1, <2>1
  <2> QED BY <2>1, <2>2
<1>4. ASSUME NEW i \in S PROVE \E k \in 1..Len(p) : p[k] = i
  BY <1>1
<1> QED BY <1>1, <1>2, <1>3, <1>4 DEF Apart

LEMMA UnitsGrouped ==
    ASSUME NEW bs, NEW N \in Nat, Len(bs) = N, DOMAIN bs = 1..N, NEW anchor, Anchored(bs, anchor, N)
    PROVE  \E order, n, ch : Grouped(anchor, N, order, n, ch) /\ UnitsOf(RenderUnits(bs, anchor), bs, order, n, ch)
<1>1. PICK S : S = {i \in DOMAIN bs : anchor[i] = 0}
  OBVIOUS
<1>2. S \subseteq 1..N /\ \A i \in 1..N : i \in S <=> anchor[i] = 0
  BY <1>1
<1>3. PICK order : order = Positions(bs, S)
  OBVIOUS
<1>4. Lists(order, S, N)
  BY <1>2, <1>3, PositionsAre
<1>5. PICK n \in Nat : n = Len(order)
  BY <1>4 DEF Lists
<1>6. /\ DOMAIN order = 1..n /\ (\A k \in 1..n : order[k] \in S)
      /\ (\A k, l \in 1..n : k # l => order[k] # order[l])
      /\ \A i \in S : \E k \in 1..n : order[k] = i
  <2>1. Apart(order, S)
    BY <1>2, <1>4, ListsApart
  <2> QED BY <1>5, <2>1, Zenon DEF Apart
<1> DEFINE Q(i) == {j \in DOMAIN bs : anchor[j] = i}
<1>7. PICK ch : ch = [k \in 1..n |-> Positions(bs, Q(order[k]))]
  OBVIOUS
<1>8. ASSUME NEW k \in 1..n
      PROVE  /\ Len(ch[k]) \in Nat /\ DOMAIN ch[k] = 1..Len(ch[k])
             /\ \A x \in 1..Len(ch[k]) : ch[k][x] \in 1..N /\ anchor[ch[k][x]] = order[k]
             /\ \A x, y \in 1..Len(ch[k]) : x # y => ch[k][x] # ch[k][y]
             /\ \A i \in 1..N : anchor[i] = order[k] => \E x \in 1..Len(ch[k]) : ch[k][x] = i
  <2>1. PICK o, c, R : o = order[k] /\ c = ch[k] /\ R = Q(order[k])
    OBVIOUS
  <2>2. R = {j \in 1..N : anchor[j] = o}
    BY <2>1
  <2>3. R \subseteq 1..N /\ \A j \in 1..N : j \in R <=> anchor[j] = o
    BY <2>2
  <2>4. c = Positions(bs, R)
    BY <1>7, <2>1
  <2>5. Lists(c, R, N)
    BY <2>3, <2>4, PositionsAre
  <2>6. /\ Len(c) \in Nat /\ DOMAIN c = 1..Len(c) /\ (\A x \in 1..Len(c) : c[x] \in R)
        /\ (\A x, y \in 1..Len(c) : x # y => c[x] # c[y])
        /\ \A i \in R : \E x \in 1..Len(c) : c[x] = i
    <3>1. Apart(c, R)
      BY <2>3, <2>5, ListsApart
    <3> QED BY <3>1 DEF Apart
  <2>7. /\ \A x \in 1..Len(c) : c[x] \in 1..N /\ anchor[c[x]] = o
        /\ \A i \in 1..N : anchor[i] = o => \E x \in 1..Len(c) : c[x] = i
    BY <2>3, <2>6, Zenon
  <2> HIDE DEF Q
  <2> QED BY <2>1, <2>6, <2>7, Zenon
<1>9. Grouped(anchor, N, order, n, ch)
  <2>1. \A i \in 1..N : anchor[i] # 0 => anchor[i] \in 1..N /\ anchor[anchor[i]] = 0
    BY DEF Anchored
  <2>2. \A k \in 1..n : order[k] \in 1..N /\ anchor[order[k]] = 0
    BY <1>2, <1>6
  <2>3. \A i \in 1..N : anchor[i] = 0 => \E k \in 1..n : order[k] = i
    BY <1>2, <1>6
  <2> QED BY <1>5, <1>6, <1>8, <2>1, <2>2, <2>3, Zenon DEF Grouped
<1>10. PICK us : us = RenderUnits(bs, anchor)
  OBVIOUS
<1>11. us = [k \in 1..n |-> [block |-> bs[order[k]],
                             attached |-> [x \in DOMAIN Positions(bs, Q(order[k])) |-> bs[Positions(bs, Q(order[k]))[x]]]]]
  BY <1>1, <1>3, <1>6, <1>10, ZenonT(60) DEF RenderUnits
<1>12. ASSUME NEW k \in 1..n
       PROVE  us[k] = [block |-> bs[order[k]], attached |-> [x \in 1..Len(ch[k]) |-> bs[ch[k][x]]]]
  <2> HIDE DEF Q
  <2>1. PICK c : c = Positions(bs, Q(order[k]))
    OBVIOUS
  <2>2. c = ch[k]
    BY <1>7, <2>1
  <2>3. DOMAIN c = 1..Len(c)
    BY <1>8, <2>2
  <2>4. us[k] = [block |-> bs[order[k]], attached |-> [x \in DOMAIN c |-> bs[c[x]]]]
    BY <1>11, <2>1, Zenon
  <2> QED BY <2>2, <2>3, <2>4, Zenon
<1>13. IsList(us, n)
  <2> DEFINE e(k) == [block |-> bs[order[k]],
                      attached |-> [x \in DOMAIN Positions(bs, Q(order[k])) |-> bs[Positions(bs, Q(order[k]))[x]]]]
  <2>1. us = [k \in 1..n |-> e(k)]
    BY <1>11
  <2> HIDE DEF e
  <2> QED BY <1>5, <2>1 DEF IsList
<1>14. UnitsOf(us, bs, order, n, ch)
  <2>1. ASSUME NEW k \in 1..n
        PROVE  us[k].block = bs[order[k]] /\ us[k].attached = [x \in 1..Len(ch[k]) |-> bs[ch[k][x]]]
    <3>1. PICK p, q : p = bs[order[k]] /\ q = [x \in 1..Len(ch[k]) |-> bs[ch[k][x]]]
      OBVIOUS
    <3>2. us[k] = [block |-> p, attached |-> q]
      BY <1>12, <3>1, Zenon
    <3>3. us[k].block = p /\ us[k].attached = q
      BY <3>2
    <3> QED BY <3>1, <3>3
  <2> QED BY <1>13, <2>1 DEF UnitsOf
<1> QED BY <1>9, <1>10, <1>14

---------------------------------------------------------------------------
(* The page has the sections of every block, one block after another.      *)

Joined(g, h, e, a, m) ==
    /\ a \in Nat /\ m \in Nat /\ g \in [1..(a + m) -> Nat] /\ h \in [1..a -> Nat] /\ e \in [1..m -> Nat]
    /\ (\A k \in 1..a : h[k] = g[k]) /\ \A k \in 1..m : e[k] = g[a + k]

LEMMA TotalJoin ==
    ASSUME NEW g, NEW h, NEW e, NEW a, NEW m, Joined(g, h, e, a, m)
    PROVE  Total(g, a + m) = Total(h, a) + Total(e, m)
<1>0. /\ a \in Nat /\ m \in Nat /\ g \in [1..(a + m) -> Nat] /\ h \in [1..a -> Nat] /\ e \in [1..m -> Nat]
      /\ (\A k \in 1..a : h[k] = g[k]) /\ \A k \in 1..m : e[k] = g[a + k]
  BY DEF Joined
<1>1. PICK N \in Nat : N = a + m
  BY <1>0
<1>2. g \in [1..N -> Nat]
  BY <1>0, <1>1
<1>3. PICK c : Sums(c, g, N) /\ Total(g, N) = c[N]
  BY <1>2, TotalIs
<1>4. c[0] = 0 /\ c \in [0..N -> Nat]
  BY <1>3 DEF Sums
<1>5. Window(c, g, N, 0, h, a)
  <2>1. 0 + a <= N /\ \A k \in 1..a : h[k] = g[0 + k]
    BY <1>0, <1>1
  <2> QED BY <1>0, <1>2, <1>3, <2>1 DEF Window
<1>6. c[0 + a] = c[0] + Total(h, a)
  BY <1>5, TotalWindow
<1>7. Window(c, g, N, a, e, m)
  BY <1>0, <1>1, <1>2, <1>3 DEF Window
<1>8. c[a + m] = c[a] + Total(e, m)
  BY <1>7, TotalWindow
<1>9. Total(h, a) \in Nat
  BY <1>0, TotalIs
<1>10. c[a] = Total(h, a)
  BY <1>0, <1>4, <1>6, <1>9
<1> QED BY <1>1, <1>3, <1>8, <1>10

Bodied(r, L, have) == L \in Nat /\ IsList(r, L) /\ \A j \in 1..L : RenderUnit(r[j], have) \in Seq(Sym)

LEMMA BodiedCounts ==
    ASSUME NEW s, NEW r, NEW L, NEW have, Bodied(r, L, have)
    PROVE  BodyCounts(s, r, L, have) \in [1..L -> Nat]
<1>1. ASSUME NEW j \in 1..L PROVE Occurs(s, RenderUnit(r[j], have)) \in Nat
  BY OccursNat DEF Bodied
<1> QED BY <1>1 DEF BodyCounts

\* q is r followed by p.
Follows(q, r, a, p, m) ==
    IsList(q, a + m) /\ (\A k \in 1..a : q[k] = r[k]) /\ \A k \in 1..m : q[a + k] = p[k]

LEMMA SectionsJoin ==
    ASSUME NEW s, NEW have, NEW q, NEW r, NEW a, NEW p, NEW m,
           Bodied(r, a, have), Bodied(p, m, have), Follows(q, r, a, p, m)
    PROVE  /\ Bodied(q, a + m, have)
           /\ Total(BodyCounts(s, q, a + m, have), a + m)
                = Total(BodyCounts(s, r, a, have), a) + Total(BodyCounts(s, p, m, have), m)
<1>1. /\ a \in Nat /\ m \in Nat
      /\ \A k \in 1..a : RenderUnit(r[k], have) \in Seq(Sym)
      /\ \A k \in 1..m : RenderUnit(p[k], have) \in Seq(Sym)
  BY DEF Bodied
<1>2. /\ IsList(q, a + m) /\ (\A k \in 1..a : q[k] = r[k]) /\ \A k \in 1..m : q[a + k] = p[k]
  BY DEF Follows
<1>3. ASSUME NEW j \in 1..(a + m) PROVE RenderUnit(q[j], have) \in Seq(Sym)
  <2>1. CASE j <= a
    <3>1. j \in 1..a
      BY <1>1, <2>1
    <3> QED BY <1>1, <1>2, <3>1
  <2>2. CASE ~(j <= a)
    <3>1. PICK k \in 1..m : j = a + k
      <4>1. j - a \in 1..m /\ j = a + (j - a)
        BY <1>1, <2>2
      <4> QED BY <4>1
    <3> QED BY <1>1, <1>2, <3>1
  <2> QED BY <2>1, <2>2
<1>4. a + m \in Nat
  BY <1>1
<1>5. Bodied(q, a + m, have)
  BY <1>2, <1>3, <1>4 DEF Bodied
<1>6. PICK g, h, e : /\ g = BodyCounts(s, q, a + m, have)
                     /\ h = BodyCounts(s, r, a, have) /\ e = BodyCounts(s, p, m, have)
  OBVIOUS
<1>7. g \in [1..(a + m) -> Nat] /\ h \in [1..a -> Nat] /\ e \in [1..m -> Nat]
  BY <1>5, <1>6, BodiedCounts
<1>8. \A k \in 1..a : h[k] = g[k]
  <2>1. ASSUME NEW k \in 1..a PROVE h[k] = g[k]
    <3>1. k \in 1..(a + m)
      BY <1>1
    <3> QED BY <1>2, <1>6, <3>1 DEF BodyCounts
  <2> QED BY <2>1
<1>9. \A k \in 1..m : e[k] = g[a + k]
  <2>1. ASSUME NEW k \in 1..m PROVE e[k] = g[a + k]
    <3>1. a + k \in 1..(a + m)
      BY <1>1
    <3> QED BY <1>2, <1>6, <3>1 DEF BodyCounts
  <2> QED BY <2>1
<1>10. Joined(g, h, e, a, m)
  BY <1>1, <1>7, <1>8, <1>9 DEF Joined
<1> QED BY <1>5, <1>6, <1>10, TotalJoin

LEMMA ListSeq ==
    ASSUME NEW A, NEW r, NEW n, IsList(r, n), \A j \in 1..n : r[j] \in A PROVE r \in Seq(A)
<1>1. n \in Nat /\ r = [j \in 1..n |-> r[j]]
  BY DEF IsList
<1>2. r \in [1..n -> A]
  BY <1>1
<1> QED BY <1>1, <1>2

\* Shown one after another, sections show what each shows.
LEMMA SectionsShown ==
    ASSUME NEW s, NEW have, NEW tt, NEW N, IsList(tt, N), NEW h, h \in [1..N -> Nat],
           \A k \in 1..N : \E n : ShownBy(s, tt[k], n, have, h[k])
    PROVE  \E M : /\ Bodied(FlattenSeq(tt), M, have)
                  /\ Shows(s, Total(BodyCounts(s, FlattenSeq(tt), M, have), M), Total(h, N))
<1>0. N \in Nat
  BY DEF IsList
<1>1. ASSUME NEW k \in 1..N
      PROVE  /\ Bodied(tt[k], Len(tt[k]), have) /\ IsList(tt[k], Len(tt[k]))
             /\ Shows(s, Total(BodyCounts(s, tt[k], Len(tt[k]), have), Len(tt[k])), h[k])
  <2>1. PICK n : ShownBy(s, tt[k], n, have, h[k])
    OBVIOUS
  <2>2. IsList(tt[k], n) /\ n \in Nat
    BY <2>1 DEF ShownBy
  <2>3. Len(tt[k]) = n
    BY <2>2, ListLen
  <2>4. Bodied(tt[k], n, have) /\ Shows(s, Total(BodyCounts(s, tt[k], n, have), n), h[k])
    BY <2>1, <2>2 DEF ShownBy, Bodied
  <2> QED BY <2>2, <2>3, <2>4
<1>2. \A k \in 1..N : \E n : IsList(tt[k], n)
  BY <1>1
<1>3. PICK f : Flattens(f, tt, N)
  BY <1>2, FlattenList
<1>4. PICK d : Sums(d, h, N) /\ Total(h, N) = d[N]
  BY <1>0, TotalIs
<1>5. d \in [0..N -> Nat] /\ d[0] = 0 /\ \A j \in 1..N : d[j] = d[j - 1] + h[j]
  BY <1>4 DEF Sums
<1> DEFINE Done(i) == /\ Bodied(f[i], Len(f[i]), have)
                      /\ Shows(s, Total(BodyCounts(s, f[i], Len(f[i]), have), Len(f[i])), d[i])
           T == {i \in 0..N : Done(i)}
<1>6. 0 \in T
  <2>1. f[0] = <<>>
    BY <1>3 DEF Flattens
  <2>2. Len(f[0]) = 0 /\ IsList(<<>>, 0)
    BY <2>1 DEF IsList
  <2>3. Bodied(<<>>, 0, have)
    BY <2>2 DEF Bodied
  <2>4. PICK g : g = BodyCounts(s, <<>>, 0, have)
    OBVIOUS
  <2>5. g \in [1..0 -> Nat] /\ \A k \in 1..0 : g[k] = 0
    BY <2>3, <2>4, BodiedCounts
  <2>6. Total(g, 0) = 0
    BY <2>5, TotalZero
  <2>7. Shows(s, 0, 0)
    BY ShowsSelf
  <2>8. Done(0)
    BY <1>5, <2>1, <2>2, <2>3, <2>4, <2>6, <2>7
  <2> HIDE DEF Done
  <2> QED BY <1>0, <2>8
<1>7. ASSUME NEW i \in 1..N, i - 1 \in T PROVE i \in T
  <2>1. PICK q, r, p, a, m : q = f[i] /\ r = f[i - 1] /\ p = tt[i] /\ a = Len(r) /\ m = Len(p)
    OBVIOUS
  <2>2. Bodied(r, a, have) /\ Shows(s, Total(BodyCounts(s, r, a, have), a), d[i - 1])
    <3>1. Done(i - 1)
      <4> HIDE DEF Done
      <4> QED BY <1>7
    <3> QED BY <2>1, <3>1
  <2>3. Bodied(p, m, have) /\ Shows(s, Total(BodyCounts(s, p, m, have), m), h[i])
    BY <1>1, <2>1
  <2>4. i \in 0..N
    BY <1>0
  <2>5. /\ Len(q) \in Nat /\ DOMAIN q = 1..Len(q) /\ Len(q) = a + m
        /\ (\A j \in 1..a : q[j] = r[j]) /\ \A j \in 1..m : q[a + j] = p[j]
    <3>1. Len(f[i]) \in Nat /\ DOMAIN f[i] = 1..Len(f[i])
      BY <1>3, <2>4 DEF Flattens
    <3>2. /\ Len(f[i]) = Len(f[i - 1]) + Len(tt[i])
          /\ (\A j \in 1..Len(f[i - 1]) : f[i][j] = f[i - 1][j])
          /\ \A j \in 1..Len(tt[i]) : f[i][Len(f[i - 1]) + j] = tt[i][j]
      BY <1>3 DEF Flattens
    <3> QED BY <2>1, <3>1, <3>2, Zenon
  <2>6. IsList(q, a + m)
    <3>1. f[i] = f[i - 1] \o tt[i]
      BY <1>3 DEF Flattens
    <3>2. q = r \o p
      BY <2>1, <3>1
    <3>3. IsList(r, a) /\ IsList(p, m)
      BY <2>2, <2>3 DEF Bodied
    <3>4. PICK A : A = {r[j] : j \in 1..a} \cup {p[j] : j \in 1..m}
      OBVIOUS
    <3>5. r \in Seq(A) /\ p \in Seq(A)
      <4>1. (\A j \in 1..a : r[j] \in A) /\ \A j \in 1..m : p[j] \in A
        BY <3>4
      <4> QED BY <3>3, <4>1, ListSeq
    <3>6. q \in Seq(A)
      BY <3>2, <3>5, ConcatProperties, Zenon
    <3>7. q = [j \in 1..(a + m) |-> q[j]] /\ a + m \in Nat
      BY <2>5, <3>6
    <3> QED BY <3>7 DEF IsList
  <2>7. Follows(q, r, a, p, m)
    BY <2>5, <2>6 DEF Follows
  <2>8. /\ Bodied(q, a + m, have)
        /\ Total(BodyCounts(s, q, a + m, have), a + m)
             = Total(BodyCounts(s, r, a, have), a) + Total(BodyCounts(s, p, m, have), m)
    BY <2>2, <2>3, <2>7, SectionsJoin
  <2>9. Shows(s, Total(BodyCounts(s, q, a + m, have), a + m), d[i - 1] + h[i])
    BY <2>2, <2>3, <2>8, ShowsPlus
  <2>10. d[i] = d[i - 1] + h[i]
    BY <1>5
  <2>11. Done(i)
    BY <2>1, <2>5, <2>8, <2>9, <2>10, Zenon
  <2> HIDE DEF Done
  <2> QED BY <2>4, <2>11
<1>8. N \in T
  <2> HIDE DEF T
  <2>1. N \in 0..N
    BY <1>0
  <2> QED BY <1>0, <1>6, <1>7, <2>1, Induct
<1>9. FlattenSeq(tt) = f[N]
  BY <1>3 DEF Flattens
<1>10. Done(N)
  <2> HIDE DEF Done
  <2> QED BY <1>8
<1> QED BY <1>4, <1>9, <1>10

LEMMA PageShown ==
    ASSUME NEW s, NEW have, NEW units, NEW M, Bodied(units, M, have)
    PROVE  Occurs(s, PageText(RenderSections(units, have))) = Total(BodyCounts(s, units, M, have), M)
<1>1. M \in Nat /\ IsList(units, M) /\ \A j \in 1..M : RenderUnit(units[j], have) \in Seq(Sym)
  BY DEF Bodied
<1>2. DOMAIN units = 1..M
  BY <1>1, ListLen
<1>3. PICK page : page = RenderSections(units, have)
  OBVIOUS
<1>4. page = [n \in 1..M |-> [id |-> units[n].block.id, body |-> RenderUnit(units[n], have)]]
  BY <1>2, <1>3 DEF RenderSections
<1>5. PICK bodies : bodies = [n \in 1..M |-> RenderUnit(units[n], have)]
  OBVIOUS
<1>6. \A n \in 1..M : page[n].body = RenderUnit(units[n], have)
  BY <1>4
<1>7. DOMAIN page = 1..M
  BY <1>4
<1>8. [n \in DOMAIN page |-> page[n].body] = bodies
  BY <1>5, <1>6, <1>7
<1>9. PageText(page) = FlattenSeq(bodies)
  BY <1>8 DEF PageText
<1>10. Texts(bodies, M, Sym)
  <2>1. IsList(bodies, M)
    BY <1>1, <1>5 DEF IsList
  <2> QED BY <1>1, <1>5, <2>1 DEF Texts
<1>11. Occurs(s, FlattenSeq(bodies)) = Total(OccursOf(s, bodies, M), M)
  BY <1>10, OccursFlatten
<1>12. OccursOf(s, bodies, M) = BodyCounts(s, units, M, have)
  BY <1>5 DEF OccursOf, BodyCounts
<1> QED BY <1>3, <1>9, <1>11, <1>12

LEMMA WorthsNat ==
    ASSUME NEW s, NEW bs \in Seq(LooseBlock), NEW N \in Nat, N = Len(bs)
    PROVE  WorthOf(s, bs, N) \in [1..N -> Nat] /\ \A i \in 1..N : WorthOf(s, bs, N)[i] = Worth(s, bs[i])
<1>1. ASSUME NEW i \in 1..N PROVE Worth(s, bs[i]) \in Nat
  <2>1. bs[i] \in LooseBlock
    OBVIOUS
  <2> QED BY <2>1, WorthNat
<1> QED BY <1>1 DEF WorthOf

\* The k-th unit shows its block and the charts attached to it.
LEMMA UnitWorthIs ==
    ASSUME NEW s, NEW have, Keeps(s, have), NEW bs \in Seq(LooseBlock), NEW N \in Nat, N = Len(bs),
           NEW anchor, Anchored(bs, anchor, N), NEW order, NEW n, NEW ch, Grouped(anchor, N, order, n, ch),
           NEW us, UnitsOf(us, bs, order, n, ch), NEW k \in 1..n
    PROVE  \E m : ShownBy(s, SplitRenderUnitSections(us[k]), m, have, Group(WorthOf(s, bs, N), order, ch, n)[k])
<1>1. PICK u, c, o, m : u = us[k] /\ c = ch[k] /\ o = order[k] /\ m = Len(c)
  OBVIOUS
<1>2. /\ o \in 1..N /\ anchor[o] = 0 /\ m \in Nat
      /\ \A x \in 1..m : c[x] \in 1..N /\ anchor[c[x]] = o
  BY <1>1 DEF Grouped
<1>3. PICK b, att : b = bs[o] /\ att = [x \in 1..m |-> bs[c[x]]]
  OBVIOUS
<1>4. u.block = b /\ u.attached = att
  BY <1>1, <1>3 DEF UnitsOf
<1>5. b \in LooseBlock /\ \A x \in 1..m : bs[c[x]] \in LooseBlock
  BY <1>2, <1>3
<1>6. ASSUME NEW x \in 1..m PROVE bs[c[x]].kind = "chart" /\ b.kind # "chart"
  <2>1. c[x] \in 1..N /\ anchor[c[x]] = o /\ o # 0
    BY <1>2
  <2>2. bs[c[x]].kind = "chart" /\ bs[anchor[c[x]]].kind # "chart"
    BY <2>1 DEF Anchored
  <2> QED BY <1>3, <2>1, <2>2
<1>7. ChartList(att, m)
  <2>1. IsList(att, m)
    BY <1>2, <1>3 DEF IsList
  <2>2. \A x \in 1..m : att[x] = bs[c[x]]
    BY <1>3
  <2> QED BY <1>5, <1>6, <2>1, <2>2 DEF ChartList
<1>8. b.kind = "chart" => m = 0
  <2>1. m # 0 => 1 \in 1..m
    BY <1>2
  <2> QED BY <1>6, <2>1
<1>9. PICK l : ShownBy(s, SplitRenderUnitSections(u), l, have, UnitWorth(s, b, att, m))
  BY <1>4, <1>5, <1>7, <1>8, UnitShown
<1>10. PICK v : v = WorthOf(s, bs, N)
  OBVIOUS
<1>11. v \in [1..N -> Nat] /\ \A i \in 1..N : v[i] = Worth(s, bs[i])
  BY <1>10, WorthsNat
<1>12. WorthOf(s, att, m) = Inner(v, c)
  <2>1. ASSUME NEW x \in 1..m PROVE Worth(s, att[x]) = v[c[x]]
    BY <1>2, <1>3, <1>11
  <2>2. [x \in 1..m |-> Worth(s, att[x])] = [x \in 1..m |-> v[c[x]]]
    BY <2>1
  <2> QED BY <1>1, <2>2 DEF WorthOf, Inner
<1>13. UnitWorth(s, b, att, m) = v[o] + Total(Inner(v, c), m)
  BY <1>2, <1>3, <1>11, <1>12 DEF UnitWorth
<1>14. Group(v, order, ch, n)[k] = v[o] + Total(Inner(v, c), m)
  BY <1>1 DEF Group
<1> QED BY <1>1, <1>9, <1>10, <1>13, <1>14

LEMMA BlocksShown ==
    ASSUME NEW s, NEW have, Keeps(s, have), NEW bs \in Seq(LooseBlock), NEW N \in Nat, N = Len(bs)
    PROVE  Shows(s, Occurs(s, PageText(RenderSections(SplitRenderUnits(AttachCharts(bs)), have))),
                 Total(WorthOf(s, bs, N), N))
<1>1. PICK anchor, us : anchor = ChartAnchors(bs) /\ us = RenderUnits(bs, anchor)
  OBVIOUS
<1>2. Len(bs) = N /\ DOMAIN bs = 1..N
  OBVIOUS
<1>3. Anchored(bs, anchor, N)
  BY <1>1, <1>2, AnchorsAre
<1>4. PICK order, n, ch : Grouped(anchor, N, order, n, ch) /\ UnitsOf(us, bs, order, n, ch)
  BY <1>1, <1>2, <1>3, UnitsGrouped
<1>5. n \in Nat /\ IsList(us, n)
  BY <1>4 DEF UnitsOf, IsList
<1>6. DOMAIN us = 1..n
  BY <1>5, ListLen
<1>7. PICK tt : tt = [k \in 1..n |-> SplitRenderUnitSections(us[k])]
  OBVIOUS
<1>8. IsList(tt, n)
  BY <1>5, <1>7 DEF IsList
<1>9. PICK v, h : v = WorthOf(s, bs, N) /\ h = Group(v, order, ch, n)
  OBVIOUS
<1>10. v \in [1..N -> Nat]
  BY <1>9, WorthsNat
<1>11. h \in [1..n -> Nat]
  <2>1. GroupFacts(v, order, ch, n)
    BY <1>4, <1>10, GroupIs
  <2> QED BY <1>9, <2>1 DEF GroupFacts
<1>12. ASSUME NEW k \in 1..n PROVE \E m : ShownBy(s, tt[k], m, have, h[k])
  <2>1. \E m : ShownBy(s, SplitRenderUnitSections(us[k]), m, have, Group(WorthOf(s, bs, N), order, ch, n)[k])
    BY <1>3, <1>4, UnitWorthIs
  <2> QED BY <1>7, <1>9, <2>1
<1>13. PICK M : Bodied(FlattenSeq(tt), M, have) /\ Shows(s, Total(BodyCounts(s, FlattenSeq(tt), M, have), M), Total(h, n))
  BY <1>8, <1>11, <1>12, SectionsShown
<1>14. Total(h, n) = Total(v, N)
  BY <1>4, <1>9, <1>10, Regroup
<1>15. SplitRenderUnits(AttachCharts(bs)) = FlattenSeq(tt)
  BY <1>1, <1>6, <1>7 DEF SplitRenderUnits, AttachCharts
<1>16. Occurs(s, PageText(RenderSections(FlattenSeq(tt), have))) = Total(BodyCounts(s, FlattenSeq(tt), M, have), M)
  BY <1>13, PageShown
<1> QED BY <1>9, <1>13, <1>14, <1>15, <1>16

---------------------------------------------------------------------------
(* The heading that repeats the report's title is all that is dropped.     *)

LEMMA WithoutTwo ==
    ASSUME NEW s, NEW A, NEW text \in Seq(A), Len(text) >= 2, text[1] # s, text[2] # s,
           NEW u \in Seq(A), Stretch(u, text, 2), 2 + Len(u) = Len(text)
    PROVE  Occurs(s, u) = Occurs(s, text)
<1>1. PICK N \in Nat : N = Len(text)
  OBVIOUS
<1>2. PICK g : g = Hits(s, text, N)
  OBVIOUS
<1>3. g \in [1..N -> Nat] /\ Occurs(s, text) = Total(g, N)
  BY <1>1, <1>2, SeqIsList, OccursTotal
<1>4. PICK c : Sums(c, g, N) /\ Total(g, N) = c[N]
  BY <1>3, TotalIs
<1>5. g[1] = 0 /\ g[2] = 0
  BY <1>1, <1>2 DEF Hits
<1>6. c[2] = 0
  <2>1. c[0] = 0 /\ \A j \in 1..N : c[j] = c[j - 1] + g[j]
    BY <1>4 DEF Sums
  <2>2. 1 \in 1..N /\ 2 \in 1..N
    BY <1>1
  <2>3. c[1] = c[1 - 1] + g[1] /\ c[2] = c[2 - 1] + g[2]
    BY <2>1, <2>2
  <2>4. c[1] = 0
    BY <1>5, <2>1, <2>3
  <2> QED BY <1>5, <2>3, <2>4
<1>7. c[2 + Len(u)] = c[2] + Occurs(s, u)
  <2>1. Sums(c, Hits(s, text, Len(text)), Len(text))
    BY <1>1, <1>2, <1>4
  <2>2. 2 \in Nat
    OBVIOUS
  <2> QED BY <2>1, <2>2, OccursPart
<1>8. Occurs(s, u) \in Nat
  BY OccursNat
<1>9. 2 + Len(u) = N
  BY <1>1
<1> QED BY <1>3, <1>4, <1>6, <1>7, <1>8, <1>9

LEMMA AfterTwo ==
    ASSUME NEW A, NEW text \in Seq(A), Len(text) >= 2, NEW u, u = SubSeq(text, 3, Len(text))
    PROVE  Stretch(u, text, 2) /\ 2 + Len(u) = Len(text)
<1>1. PICK N \in Nat : N = Len(text)
  OBVIOUS
<1>2. N >= 2 /\ Len(u) = N - 2 /\ \A k \in 1..(N - 2) : u[k] = text[2 + k]
  BY <1>1
<1> QED BY <1>1, <1>2 DEF Stretch

LEMMA SeqParts ==
    ASSUME NEW A, NEW t \in Seq(A), NEW N \in Nat, N = Len(t)
    PROVE  /\ IsList(t, N) /\ DOMAIN t = 1..N /\ \A k \in 1..N : t[k] \in A
           /\ SubSeq(t, 3, Len(t)) \in Seq(A)
<1>1. IsList(t, N)
  BY DEF IsList
<1>2. DOMAIN t = 1..N /\ \A k \in 1..N : t[k] \in A
  OBVIOUS
<1>3. 3 \in Int /\ Len(t) \in Int /\ \A k \in 3..Len(t) : t[k] \in A
  OBVIOUS
<1>4. SubSeq(t, 3, Len(t)) \in Seq(A)
  BY <1>3, SubSeqProperties
<1> QED BY <1>1, <1>2, <1>4

\* Neither a marker nor the report's title, t.
Ordinary(s, t) == s \notin Markers /\ s # "T" /\ t \in {"", "T"}

LEMMA NormalWorth ==
    ASSUME NEW s, NEW t, Ordinary(s, t),
           NEW bs \in Seq(LooseBlock), NEW N \in Nat, N = Len(bs),
           NEW nb \in Seq(LooseBlock), nb = NormalizeReportBlocksForRendering(bs, t)
    PROVE  Len(nb) = N /\ WorthOf(s, nb, N) = WorthOf(s, bs, N)
<1>0. DOMAIN bs = 1..N /\ \A k \in 1..N : bs[k] \in LooseBlock
  BY SeqParts
<1>1. PICK I : I = {j \in 1..N : RepeatsReportTitle(bs[j], t)}
  OBVIOUS
<1>2. PICK i : i = SelectInSeq(bs, LAMBDA b : RepeatsReportTitle(b, t))
  OBVIOUS
<1>3. i = IF I # {} THEN Min(I) ELSE 0
  BY <1>1, <1>2 DEF SelectInSeq
<1>4. PICK u : u = [bs EXCEPT ![i].text  = SubSeq(@, 3, Len(@)),
                              ![i].title = IF @ = t THEN "" ELSE @]
  OBVIOUS
<1>5. nb = IF t = "" \/ i = 0 THEN bs ELSE u
  BY <1>2, <1>4 DEF NormalizeReportBlocksForRendering
<1>6. CASE t = "" \/ i = 0
  <2>1. nb = bs
    BY <1>5, <1>6, Zenon
  <2> QED BY <2>1
<1>7. CASE ~(t = "" \/ i = 0)
  <2>1. nb = u /\ t = "T" /\ i # 0
    BY <1>5, <1>7, Zenon DEF Ordinary
  <2>2. I # {} /\ I \subseteq Nat
    BY <1>1, <1>3, <2>1
  <2>3. i \in I
    BY <1>3, <2>2, Least
  <2>4. i \in 1..N /\ RepeatsReportTitle(bs[i], t)
    BY <1>1, <2>3
  <2>5. PICK b \in LooseBlock : b = bs[i]
    BY <1>0, <2>4, Zenon
  <2>6. b.kind = "markdown" /\ Len(b.text) >= 2 /\ b.text[1] = "h1" /\ b.text[2] = t
    BY <2>4, <2>5 DEF RepeatsReportTitle, TitlesReferToSameReport
  <2>7. PICK text \in Seq(Words) : text = b.text
    BY LooseIs
  <2>8. text[1] # s /\ text[2] # s /\ Len(text) >= 2
    <3>1. "h1" \in Markers
      BY Zenon DEF Markers
    <3> QED BY <2>1, <2>6, <2>7, <3>1 DEF Ordinary
  <2>9. PICK w, ti : w = SubSeq(text, 3, Len(text)) /\ ti = IF b.title = t THEN "" ELSE b.title
    OBVIOUS
  <2>10. PICK v : v = [b EXCEPT !.text = w, !.title = ti]
    OBVIOUS
  <2>11. u = [bs EXCEPT ![i] = v]
    BY <1>4, <2>5, <2>7, <2>9, <2>10
  <2>12. v.kind = "markdown" /\ v.text = w
    BY <2>6, <2>10 DEF LooseBlock
  <2>13. w \in Seq(Words)
    <3>1. text \in Seq(Words) /\ Len(text) \in Nat
      BY <2>7, LenProperties
    <3>2. SubSeq(text, 3, Len(text)) \in Seq(Words)
      BY <3>1, SeqParts, Zenon
    <3> QED BY <2>9, <3>2
  <2>14. Occurs(s, w) = Occurs(s, text)
    <3>1. Stretch(w, text, 2) /\ 2 + Len(w) = Len(text)
      BY <2>7, <2>8, <2>9, AfterTwo
    <3> QED BY <2>7, <2>8, <2>13, <3>1, WithoutTwo
  <2>15. Worth(s, v) = Worth(s, b)
    <3>1. ChartsNamed(v) = w /\ ChartsNamed(b) = text
      BY <2>6, <2>7, <2>12 DEF ChartsNamed
    <3>2. Source(s, v) = w /\ Source(s, b) = text
      BY <2>7, <2>12, <3>1 DEF Source
    <3> QED BY <2>14, <3>2 DEF Worth
  <2>16. DOMAIN u = 1..N /\ \A k \in 1..N : u[k] = IF k = i THEN v ELSE bs[k]
    BY <1>0, <2>4, <2>11
  <2>17. Len(nb) = N
    BY <2>1, <2>16
  <2>18. ASSUME NEW k \in 1..N PROVE Worth(s, nb[k]) = Worth(s, bs[k])
    <3>1. CASE k = i
      BY <2>1, <2>5, <2>15, <2>16, <3>1
    <3>2. CASE k # i
      BY <2>1, <2>16, <3>2
    <3> QED BY <3>1, <3>2
  <2> QED BY <2>17, <2>18 DEF WorthOf
<1> QED BY <1>6, <1>7

\* What the blocks name, counted block by block.
LEMMA SourceTotal ==
    ASSUME NEW s, NEW bs \in Seq(LooseBlock), NEW N \in Nat, N = Len(bs),
           NEW src, src = [i \in 1..N |-> Source(s, bs[i])]
    PROVE  Occurs(s, FlattenSeq(src)) = Total(WorthOf(s, bs, N), N)
<1>1. ASSUME NEW i \in 1..N PROVE Source(s, bs[i]) \in Seq(Words)
  <2>1. PICK b \in LooseBlock : b = bs[i]
    OBVIOUS
  <2>2. b.text \in Seq(Words) /\ b.chart \in Words /\ b.kind \in {"markdown", "html", "chart"}
    BY LooseIs
  <2>3. PICK text, one : text = b.text /\ one = <<b.chart>>
    OBVIOUS
  <2>4. text \in Seq(Words) /\ one \in Seq(Words) /\ <<>> \in Seq(Words)
    BY <2>2, <2>3
  <2>5. one \o text \in Seq(Words)
    BY <2>4, ConcatProperties, Zenon
  <2>6. ChartsNamed(b) \in {one \o text, text, <<>>}
    BY <2>2, <2>3 DEF ChartsNamed
  <2> QED BY <2>1, <2>3, <2>4, <2>5, <2>6 DEF Source
<1>2. Texts(src, N, Words)
  <2>1. IsList(src, N)
    BY DEF IsList
  <2> QED BY <1>1, <2>1 DEF Texts
<1>3. Occurs(s, FlattenSeq(src)) = Total(OccursOf(s, src, N), N)
  BY <1>2, OccursFlatten
<1>4. OccursOf(s, src, N) = WorthOf(s, bs, N)
  BY DEF OccursOf, WorthOf, Worth
<1> QED BY <1>3, <1>4

\* The page of a report shows what its blocks have.
LEMMA ReportShown ==
    ASSUME NEW s, NEW have, Keeps(s, have), NEW t, Ordinary(s, t),
           NEW bs \in Seq(Block), NEW src, src = [i \in DOMAIN bs |-> Source(s, bs[i])]
    PROVE  Shows(s, Occurs(s, PageText(RenderReportHTML(bs, have, t))), Occurs(s, FlattenSeq(src)))
<1>1. PICK N \in Nat : N = Len(bs) /\ DOMAIN bs = 1..N /\ IsList(bs, N) /\ \A i \in 1..N : bs[i] \in Block
  <2>1. Len(bs) \in Nat
    BY LenProperties
  <2> QED BY <2>1, SeqParts, Zenon
<1>2. bs \in Seq(LooseBlock)
  <2>1. \A i \in 1..N : bs[i] \in LooseBlock
    BY <1>1, LooseBlocks
  <2> QED BY <1>1, <2>1, ListSeq, Zenon
<1>3. PICK nb \in Seq(LooseBlock) : nb = NormalizeReportBlocksForRendering(bs, t)
  BY NormalizedBlocks
<1>4. Len(nb) = N /\ WorthOf(s, nb, N) = WorthOf(s, bs, N)
  BY <1>1, <1>2, <1>3, NormalWorth
<1>5. Shows(s, Occurs(s, PageText(RenderSections(SplitRenderUnits(AttachCharts(nb)), have))),
            Total(WorthOf(s, nb, N), N))
  BY <1>4, BlocksShown
<1>6. Occurs(s, FlattenSeq(src)) = Total(WorthOf(s, bs, N), N)
  BY <1>1, <1>2, SourceTotal
<1>7. RenderReportHTML(bs, have, t) = RenderSections(SplitRenderUnits(AttachCharts(nb)), have)
  BY <1>3 DEF RenderReportHTML, BuildRenderUnits, BuildBaseRenderUnits
<1> QED BY <1>4, <1>5, <1>6, <1>7

\* The page loses and repeats nothing: every word of a block but the report's own
\* title is on it at least as often as in the blocks, and every chart exactly as
\* often as the blocks name it (report_html.go).
THEOREM RenderedComplete == Spec => []RenderComplete
<1>1. ASSUME CtlInv PROVE RenderComplete
  <2>1. PICK bs, have, t, page : bs = report.blocks /\ have = Have(report) /\ t = report.title /\ page = RenderReportHTML(bs, have, t)
    OBVIOUS
  <2>2. bs \in Seq(Block) /\ t \in {"", "T"}
    BY <1>1, <2>1 DEF CtlInv, TypeInv, Report
  <2>3. ASSUME NEW w, w \notin Charts \cup Markers \cup {"T"}
        PROVE  Occurs(w, PageText(page)) >= Occurs(w, FlattenSeq([i \in DOMAIN bs |-> bs[i].text]))
    <3>1. w \notin Charts /\ w \notin Markers /\ w # "T"
      BY <2>3
    <3>2. Keeps(w, have)
      BY <3>1 DEF Keeps
    <3>3. PICK src : src = [i \in DOMAIN bs |-> Source(w, bs[i])]
      OBVIOUS
    <3>4. src = [i \in DOMAIN bs |-> bs[i].text]
      BY <3>1, <3>3 DEF Source
    <3>5. Ordinary(w, t)
      BY <2>2, <3>1 DEF Ordinary
    <3>6. Shows(w, Occurs(w, PageText(page)), Occurs(w, FlattenSeq(src)))
      BY <2>1, <2>2, <3>2, <3>3, <3>5, ReportShown
    <3> QED BY <3>4, <3>6 DEF Shows
  <2>4. ASSUME NEW c \in have
        PROVE  Occurs(c, PageText(page)) = Occurs(c, FlattenSeq([i \in DOMAIN bs |-> ChartsNamed(bs[i])]))
    <3>1. c \in Charts
      BY <2>1, <2>4 DEF Have
    <3>2. c \notin Markers /\ c # "T" /\ Keeps(c, have)
      BY <3>1, NoMarkers DEF Keeps
    <3>3. PICK src : src = [i \in DOMAIN bs |-> Source(c, bs[i])]
      OBVIOUS
    <3>4. src = [i \in DOMAIN bs |-> ChartsNamed(bs[i])]
      BY <3>1, <3>3 DEF Source
    <3>5. Ordinary(c, t)
      BY <2>2, <3>2 DEF Ordinary
    <3>6. Shows(c, Occurs(c, PageText(page)), Occurs(c, FlattenSeq(src)))
      BY <2>1, <2>2, <3>2, <3>3, <3>5, ReportShown
    <3> QED BY <3>1, <3>4, <3>6 DEF Shows
  <2>5. ShowsAll(page, report)
    <3>1. ASSUME NEW w \in WordsOf(report)
          PROVE  Occurs(w, PageText(page)) >= Occurs(w, FlattenSeq([i \in DOMAIN report.blocks |-> report.blocks[i].text]))
      <4>1. w \notin Charts \cup Markers \cup {"T"}
        BY <3>1, Zenon DEF WordsOf
      <4>2. Occurs(w, PageText(page)) >= Occurs(w, FlattenSeq([i \in DOMAIN bs |-> bs[i].text]))
        BY <2>3, <4>1
      <4> QED BY <2>1, <4>2, Zenon
    <3>2. ASSUME NEW c \in Have(report)
          PROVE  Occurs(c, PageText(page)) = Occurs(c, FlattenSeq([i \in DOMAIN report.blocks |-> ChartsNamed(report.blocks[i])]))
      BY <2>1, <2>4, <3>2, Zenon
    <3> QED BY <3>1, <3>2, Zenon DEF ShowsAll
  <2> QED BY <2>1, <2>5 DEF RenderComplete, Page
<1> QED BY <1>1, ControlInvariance, PTL
=============================================================================
