-------------------------- MODULE SyncTreeFreshness --------------------------
(***************************************************************************)
(* Machine-checked proofs that the observers of SyncTree are not shown     *)
(* anything from before a write of their own, and are shown the server's   *)
(* data when everything is answered, for any paths, writes, observers,     *)
(* listens, losses and refusals.                                           *)
(*                                                                         *)
(* The argument follows each value from the server to the views: what the  *)
(* server stores, what it sent before each answer, and what the views keep *)
(* is never from before a write answered by then.                          *)
(***************************************************************************)
EXTENDS SyncTreeProofs

(***************************************************************************)
(* What the server sends, in the order it is received                      *)
(***************************************************************************)

(* The message m has a value for the leaf l. *)
Carries(m, l) == m.type = "data" /\ l \in DOMAIN m.node

(* What a leaf holds after the first k messages d: the last value in them, *)
(* or one of those in B, which it may hold before.                         *)
Sees(d, l, B, k, x) ==
  \/ x \in B /\ \A m \in 1 .. k : ~Carries(d[m], l)
  \/ \E j \in 1 .. k : /\ Carries(d[j], l) /\ x = d[j].node[l]
                       /\ \A m \in j + 1 .. k : ~Carries(d[m], l)

(* The writes answered when the first k messages are received, S before.   *)
AnsweredBy(d, k, S) == S \cup {d[j].id : j \in {x \in 1 .. k : d[x].type = "put"}}

(* The value v of the leaf l is not from before one of the writes in S,    *)
(* those refused left out.  Write i was made at w[i].                      *)
NotBefore(v, l, w, no, S) == \A i \in S \ no : l \in w[i] => v \notin Older(i)

(* The k-th message, or request, is about the listen s to the path r.      *)
IsListen(q, k, r, s) == q[k].type = "listen" /\ q[k].path = r /\ q[k].spec = s

LEMMA NotBeforeLess ==
  ASSUME NEW v, NEW l, NEW w, NEW no, NEW S, NotBefore(v, l, w, no, S),
         NEW more, no \subseteq more, NEW T, T \subseteq S
  PROVE  NotBefore(v, l, w, more, T)
  BY DEF NotBefore

(* The messages t follow d. *)
Joined(d, t, e) ==
  /\ Len(d) \in Nat /\ Len(t) \in Nat /\ Len(e) = Len(d) + Len(t)
  /\ DOMAIN d = 1 .. Len(d) /\ DOMAIN t = 1 .. Len(t) /\ DOMAIN e = 1 .. Len(e)
  /\ \A j \in 1 .. Len(d) : e[j] = d[j]
  /\ \A j \in 1 .. Len(t) : e[Len(d) + j] = t[j]

LEMMA ConcatJoins ==
  ASSUME NEW M, NEW d \in Seq(M), NEW t \in Seq(M)
  PROVE  Joined(d, t, d \o t) /\ d \o t \in Seq(M)
<1> DEFINE e == d \o t
<1>1. /\ Len(d) \in Nat /\ Len(t) \in Nat /\ DOMAIN d = 1 .. Len(d) /\ DOMAIN t = 1 .. Len(t)
      /\ DOMAIN e = 1 .. Len(e)
      /\ \A j \in 1 .. Len(d) : e[j] = d[j]
      /\ \A j \in 1 .. Len(t) : e[Len(d) + j] = t[j]
      /\ Len(e) = Len(d) + Len(t) /\ e \in Seq(M)
  BY ConcatAt
<1> HIDE DEF e
<1>2. Joined(d, t, e) /\ e \in Seq(M)
  BY <1>1 DEF Joined
<1> QED
  BY <1>2 DEF e

LEMMA SeesConcat ==
  ASSUME NEW d, NEW t, NEW e, Joined(d, t, e), NEW l, NEW B, NEW k \in 0 .. Len(e), NEW x, Sees(e, l, B, k, x)
  PROVE  /\ k <= Len(d) => Sees(d, l, B, k, x)
         /\ k > Len(d) =>
              \/ \E j \in DOMAIN t : j <= k - Len(d) /\ Carries(t[j], l) /\ x = t[j].node[l]
              \/ Sees(d, l, B, Len(d), x) /\ \A j \in DOMAIN t : j <= k - Len(d) => ~Carries(t[j], l)
<1>1. /\ Len(d) \in Nat /\ Len(t) \in Nat /\ DOMAIN t = 1 .. Len(t)
      /\ \A j \in 1 .. Len(d) : e[j] = d[j]
      /\ \A j \in 1 .. Len(t) : e[Len(d) + j] = t[j]
      /\ Len(e) = Len(d) + Len(t)
  BY DEF Joined
<1>2. Sees(e, l, B, k, x)
  OBVIOUS
<1>3. k \in 0 .. Len(d) + Len(t)
  BY <1>1
<1>4. ASSUME k <= Len(d) PROVE Sees(d, l, B, k, x)
  <2>1. \A m \in 1 .. k : e[m] = d[m]
    BY <1>1, <1>3, <1>4
  <2>2. CASE x \in B /\ \A m \in 1 .. k : ~Carries(e[m], l)
    BY <2>1, <2>2 DEF Sees
  <2>3. ASSUME NEW j \in 1 .. k, Carries(e[j], l), x = e[j].node[l],
               \A m \in j + 1 .. k : ~Carries(e[m], l)
        PROVE  Sees(d, l, B, k, x)
    <3>1. \A m \in j + 1 .. k : m \in 1 .. k
      BY <1>3
    <3> QED BY <2>1, <2>3, <3>1 DEF Sees
  <2> QED BY <1>2, <2>2, <2>3 DEF Sees
<1>5. ASSUME k > Len(d), \A j \in DOMAIN t : j <= k - Len(d) /\ Carries(t[j], l) => x # t[j].node[l]
      PROVE  Sees(d, l, B, Len(d), x) /\ \A j \in DOMAIN t : j <= k - Len(d) => ~Carries(t[j], l)
  <2>1. ASSUME NEW j \in DOMAIN t, j <= k - Len(d)
        PROVE  Len(d) + j \in 1 .. k /\ e[Len(d) + j] = t[j] /\ Len(d) + j > Len(d)
    BY <1>1, <1>3, <2>1
  <2>2. \A m \in 1 .. Len(d) : m \in 1 .. k /\ e[m] = d[m]
    BY <1>1, <1>3, <1>5
  <2>3. CASE x \in B /\ \A m \in 1 .. k : ~Carries(e[m], l)
    <3>1. Sees(d, l, B, Len(d), x)
      BY <2>2, <2>3 DEF Sees
    <3>2. \A j \in DOMAIN t : j <= k - Len(d) => ~Carries(t[j], l)
      BY <2>1, <2>3
    <3> QED BY <3>1, <3>2
  <2>4. ASSUME NEW j \in 1 .. k, Carries(e[j], l), x = e[j].node[l],
               \A m \in j + 1 .. k : ~Carries(e[m], l)
        PROVE  Sees(d, l, B, Len(d), x) /\ \A o \in DOMAIN t : o <= k - Len(d) => ~Carries(t[o], l)
    <3>1. j <= Len(d)
      <4>1. ASSUME j > Len(d) PROVE FALSE
        <5>1. j - Len(d) \in DOMAIN t /\ j - Len(d) <= k - Len(d) /\ Len(d) + (j - Len(d)) = j
          BY <1>1, <1>3, <4>1
        <5>2. e[j] = t[j - Len(d)]
          BY <2>1, <5>1
        <5> QED BY <1>5, <2>4, <5>1, <5>2
      <4> QED BY <1>1, <4>1
    <3>2. j \in 1 .. Len(d) /\ \A m \in j + 1 .. Len(d) : m \in j + 1 .. k /\ m \in 1 .. Len(d)
      BY <1>1, <1>3, <1>5, <3>1
    <3>3. Sees(d, l, B, Len(d), x)
      BY <2>2, <2>4, <3>2 DEF Sees
    <3>4. ASSUME NEW o \in DOMAIN t, o <= k - Len(d) PROVE ~Carries(t[o], l)
      <4>1. Len(d) + o \in 1 .. k /\ e[Len(d) + o] = t[o] /\ Len(d) + o > Len(d)
        BY <2>1, <3>4
      <4>2. Len(d) + o \in j + 1 .. k
        BY <1>1, <1>3, <3>1, <4>1
      <4> QED BY <2>4, <4>1, <4>2
    <3> QED BY <3>3, <3>4
  <2> QED BY <1>2, <2>3, <2>4 DEF Sees
<1> QED
  BY <1>4, <1>5

LEMMA SeesTail ==
  ASSUME NEW S, NEW d \in Seq(S), d # <<>>, NEW l, NEW B, NEW C,
         C \subseteq IF Carries(d[1], l) THEN {d[1].node[l]} ELSE B,
         NEW k \in 0 .. Len(d) - 1, NEW x, Sees(Tail(d), l, C, k, x)
  PROVE  Sees(d, l, B, k + 1, x)
<1> DEFINE t == Tail(d)
<1>1. Len(d) \in Nat \ {0} /\ \A j \in 1 .. Len(d) - 1 : t[j] = d[j + 1]
  BY TailAt
<1>2. Sees(t, l, C, k, x)
  OBVIOUS
<1> HIDE DEF t
<1>3. \A m \in 1 .. k : m + 1 \in 2 .. k + 1 /\ t[m] = d[m + 1]
  BY <1>1
<1>4. \A m \in 2 .. k + 1 : m - 1 \in 1 .. k /\ t[m - 1] = d[m]
  <2>1. ASSUME NEW m \in 2 .. k + 1 PROVE m - 1 \in 1 .. k /\ (m - 1) + 1 = m
    BY <1>1
  <2> QED BY <1>3, <2>1
<1>5. CASE x \in C /\ \A m \in 1 .. k : ~Carries(t[m], l)
  <2>1. \A m \in 2 .. k + 1 : ~Carries(d[m], l)
    BY <1>4, <1>5
  <2>2. CASE Carries(d[1], l)
    <3>1. 1 \in 1 .. k + 1 /\ \A m \in 1 + 1 .. k + 1 : m \in 2 .. k + 1
      BY <1>1
    <3> QED BY <1>5, <2>1, <2>2, <3>1 DEF Sees
  <2>3. CASE ~Carries(d[1], l)
    <3>1. \A m \in 1 .. k + 1 : m = 1 \/ m \in 2 .. k + 1
      BY <1>1
    <3> QED BY <1>5, <2>1, <2>3, <3>1 DEF Sees
  <2> QED BY <2>2, <2>3
<1>6. ASSUME NEW j \in 1 .. k, Carries(t[j], l), x = t[j].node[l],
             \A m \in j + 1 .. k : ~Carries(t[m], l)
      PROVE  Sees(d, l, B, k + 1, x)
  <2>1. j + 1 \in 1 .. k + 1 /\ t[j] = d[j + 1]
    BY <1>1, <1>3
  <2>2. ASSUME NEW m \in (j + 1) + 1 .. k + 1 PROVE ~Carries(d[m], l)
    <3>1. m \in 2 .. k + 1 /\ m - 1 \in j + 1 .. k
      BY <1>1
    <3> QED BY <1>4, <1>6, <3>1
  <2> QED BY <1>6, <2>1, <2>2 DEF Sees
<1> QED
  BY <1>2, <1>5, <1>6 DEF Sees

LEMMA AnsweredConcat ==
  ASSUME NEW d, NEW t, NEW e, Joined(d, t, e), NEW S
  PROVE  /\ \A k \in 0 .. Len(d) : AnsweredBy(e, k, S) = AnsweredBy(d, k, S)
         /\ \A k \in 0 .. Len(e) :
              /\ AnsweredBy(e, k, S) \subseteq AnsweredBy(e, Len(e), S)
              /\ k >= Len(d) /\ (\A j \in DOMAIN t : j <= k - Len(d) => t[j].type # "put")
                   => AnsweredBy(e, k, S) = AnsweredBy(d, Len(d), S)
         /\ AnsweredBy(e, Len(e), S) = AnsweredBy(d, Len(d), S) \cup PutIds(t)
<1>1. /\ Len(d) \in Nat /\ Len(t) \in Nat /\ DOMAIN t = 1 .. Len(t)
      /\ \A j \in 1 .. Len(d) : e[j] = d[j]
      /\ \A j \in 1 .. Len(t) : e[Len(d) + j] = t[j]
      /\ Len(e) = Len(d) + Len(t)
  BY DEF Joined
<1>2. ASSUME NEW k \in 0 .. Len(d) PROVE AnsweredBy(e, k, S) = AnsweredBy(d, k, S)
  <2>1. \A j \in 1 .. k : e[j] = d[j]
    BY <1>1
  <2> QED BY <2>1 DEF AnsweredBy
<1>3. ASSUME NEW k \in 0 .. Len(e) PROVE AnsweredBy(e, k, S) \subseteq AnsweredBy(e, Len(e), S)
  <2>1. \A j \in 1 .. k : j \in 1 .. Len(e)
    BY <1>1
  <2> QED BY <2>1 DEF AnsweredBy
<1>4. ASSUME NEW k \in 0 .. Len(e), k >= Len(d), \A j \in DOMAIN t : j <= k - Len(d) => t[j].type # "put"
      PROVE  AnsweredBy(e, k, S) = AnsweredBy(d, Len(d), S)
  <2>1. \A j \in 1 .. Len(d) : j \in 1 .. k /\ e[j] = d[j]
    BY <1>1, <1>4
  <2>2. ASSUME NEW j \in 1 .. k, e[j].type = "put" PROVE j \in 1 .. Len(d)
    <3>1. ASSUME j > Len(d) PROVE FALSE
      <4>1. j - Len(d) \in DOMAIN t /\ j - Len(d) <= k - Len(d) /\ Len(d) + (j - Len(d)) = j
        BY <1>1, <3>1
      <4>2. e[j] = t[j - Len(d)]
        BY <1>1, <4>1
      <4> QED BY <1>4, <2>2, <4>1, <4>2
    <3> QED BY <1>1, <3>1
  <2> QED BY <2>1, <2>2 DEF AnsweredBy
<1>5. AnsweredBy(e, Len(e), S) = AnsweredBy(d, Len(d), S) \cup PutIds(t)
  <2>1. ASSUME NEW j \in 1 .. Len(e)
        PROVE  \/ j \in 1 .. Len(d) /\ e[j] = d[j]
               \/ j - Len(d) \in DOMAIN t /\ e[j] = t[j - Len(d)]
    <3>1. CASE j <= Len(d)
      BY <1>1, <3>1
    <3>2. CASE j > Len(d)
      <4>1. j - Len(d) \in DOMAIN t /\ Len(d) + (j - Len(d)) = j
        BY <1>1, <3>2
      <4> QED BY <1>1, <4>1
    <3> QED BY <1>1, <3>1, <3>2
  <2>2. \A j \in 1 .. Len(d) : j \in 1 .. Len(e) /\ e[j] = d[j]
    BY <1>1
  <2>3. \A j \in DOMAIN t : Len(d) + j \in 1 .. Len(e) /\ e[Len(d) + j] = t[j]
    BY <1>1
  <2>4. AnsweredBy(e, Len(e), S) \subseteq AnsweredBy(d, Len(d), S) \cup PutIds(t)
    BY <2>1 DEF AnsweredBy, PutIds
  <2>5. AnsweredBy(d, Len(d), S) \cup PutIds(t) \subseteq AnsweredBy(e, Len(e), S)
    BY <2>2, <2>3 DEF AnsweredBy, PutIds
  <2> QED BY <2>4, <2>5
<1> QED
  BY <1>2, <1>3, <1>4, <1>5

LEMMA AnsweredAll ==
  ASSUME NEW M, NEW d \in Seq(M), NEW S
  PROVE  /\ AnsweredBy(d, Len(d), S) = S \cup PutIds(d)
         /\ \A k \in 0 .. Len(d) : S \subseteq AnsweredBy(d, k, S) /\ AnsweredBy(d, k, S) \subseteq S \cup PutIds(d)
<1>1. DOMAIN d = 1 .. Len(d) /\ Len(d) \in Nat
  OBVIOUS
<1> QED
  BY <1>1 DEF AnsweredBy, PutIds

(* The answer at the head becomes one that was received. *)
LEMMA AnsweredTail ==
  ASSUME NEW M, NEW d \in Seq(M), d # <<>>, NEW S, NEW T,
         T \subseteq IF d[1].type = "put" THEN S \cup {d[1].id} ELSE S,
         NEW k \in 0 .. Len(d) - 1
  PROVE  AnsweredBy(Tail(d), k, T) \subseteq AnsweredBy(d, k + 1, S)
<1> DEFINE t == Tail(d)
<1>1. Len(d) \in Nat \ {0} /\ \A j \in 1 .. Len(d) - 1 : t[j] = d[j + 1]
  BY TailAt
<1> HIDE DEF t
<1>2. \A j \in 1 .. k : j + 1 \in 1 .. k + 1 /\ t[j] = d[j + 1]
  BY <1>1
<1>3. 1 \in 1 .. k + 1
  BY <1>1
<1>4. T \subseteq AnsweredBy(d, k + 1, S)
  BY <1>3 DEF AnsweredBy
<1>5. ASSUME NEW j \in 1 .. k, t[j].type = "put" PROVE t[j].id \in AnsweredBy(d, k + 1, S)
  BY <1>2, <1>5 DEF AnsweredBy
<1>6. AnsweredBy(t, k, T) \subseteq AnsweredBy(d, k + 1, S)
  BY <1>4, <1>5 DEF AnsweredBy
<1> QED
  BY <1>6 DEF t

(* What a listened leaf holds, and every value that is on its way to it,   *)
(* is not from before a write answered by then, unless the data of the     *)
(* listen s itself, to r, is still to come; the last is the server's.      *)
UpToDate(l, B, d, v, r, s, w, no, S) ==
  /\ \A x : Sees(d, l, B, Len(d), x) => x = v
  /\ \A k \in 0 .. Len(d) : (\A j \in DOMAIN d : IsListen(d, j, r, s) => j <= k + 1) =>
       \A x : Sees(d, l, B, k, x) => NotBefore(x, l, w, no, AnsweredBy(d, k, S))

(* The first message is received. *)
LEMMA UpToDateTail ==
  ASSUME NEW M, NEW d \in Seq(M), d # <<>>, NEW l, NEW B, NEW C, NEW v, NEW r, NEW s, NEW w, NEW no,
         NEW S, NEW T, UpToDate(l, B, d, v, r, s, w, no, S),
         C \subseteq IF Carries(d[1], l) THEN {d[1].node[l]} ELSE B,
         T \subseteq IF d[1].type = "put" THEN S \cup {d[1].id} ELSE S
  PROVE  UpToDate(l, C, Tail(d), v, r, s, w, no, T)
<1> DEFINE t == Tail(d)
<1>1. /\ Len(d) \in Nat \ {0} /\ Len(t) = Len(d) - 1 /\ DOMAIN d = 1 .. Len(d) /\ DOMAIN t = 1 .. Len(d) - 1
      /\ \A j \in 1 .. Len(d) - 1 : t[j] = d[j + 1]
  BY TailAt
<1>2. \A k \in 0 .. Len(d) - 1 : \A x : Sees(t, l, C, k, x) => Sees(d, l, B, k + 1, x)
  BY SeesTail
<1>3. \A k \in 0 .. Len(d) - 1 : AnsweredBy(t, k, T) \subseteq AnsweredBy(d, k + 1, S)
  BY AnsweredTail
<1> HIDE DEF t
<1>4. ASSUME NEW x, Sees(t, l, C, Len(t), x) PROVE x = v
  <2>1. Len(t) \in 0 .. Len(d) - 1 /\ Len(t) + 1 = Len(d)
    BY <1>1
  <2>2. Sees(d, l, B, Len(d), x)
    BY <1>2, <1>4, <2>1
  <2> QED BY <2>2 DEF UpToDate
<1>5. ASSUME NEW k \in 0 .. Len(t), \A j \in DOMAIN t : IsListen(t, j, r, s) => j <= k + 1,
             NEW x, Sees(t, l, C, k, x)
      PROVE  NotBefore(x, l, w, no, AnsweredBy(t, k, T))
  <2>1. k \in 0 .. Len(d) - 1 /\ k + 1 \in 0 .. Len(d)
    BY <1>1
  <2>2. ASSUME NEW j \in DOMAIN d, IsListen(d, j, r, s) PROVE j <= (k + 1) + 1
    <3>1. CASE j = 1
      BY <2>1, <3>1
    <3>2. CASE j # 1
      <4>1. j - 1 \in DOMAIN t /\ t[j - 1] = d[j]
        <5>1. j - 1 \in 1 .. Len(d) - 1 /\ (j - 1) + 1 = j
          BY <1>1, <3>2
        <5> QED BY <1>1, <5>1
      <4>2. j - 1 <= k + 1
        BY <1>5, <2>2, <4>1 DEF IsListen
      <4> QED BY <1>1, <2>1, <4>1, <4>2
    <3> QED BY <3>1, <3>2
  <2>3. Sees(d, l, B, k + 1, x)
    BY <1>2, <1>5, <2>1
  <2>4. NotBefore(x, l, w, no, AnsweredBy(d, k + 1, S))
    BY <2>1, <2>2, <2>3 DEF UpToDate
  <2> QED BY <1>3, <2>1, <2>4, NotBeforeLess
<1>6. UpToDate(l, C, t, v, r, s, w, no, T)
  BY <1>4, <1>5 DEF UpToDate
<1> QED
  BY <1>6 DEF t

(* The messages t follow, with what the server has now.                    *)
Follows(l, d, t, e, v, new, w, no, more, S) ==
  /\ \A j \in DOMAIN t : Carries(t[j], l) => t[j].node[l] = new
  /\ v = new \/ \E j \in DOMAIN t : Carries(t[j], l)
  /\ \A j \in DOMAIN t : t[j].type = "put" => j = Len(t)
  /\ NotBefore(v, l, w, no, AnsweredBy(d, Len(d), S))
  /\ NotBefore(new, l, w, more, AnsweredBy(e, Len(e), S))
  /\ no \subseteq more

LEMMA UpToDateConcat ==
  ASSUME NEW d, NEW t, NEW e, Joined(d, t, e), NEW l, NEW B, NEW v, NEW r, NEW s, NEW w, NEW no,
         NEW S, NEW new, NEW more, UpToDate(l, B, d, v, r, s, w, no, S),
         Follows(l, d, t, e, v, new, w, no, more, S)
  PROVE  UpToDate(l, B, e, new, r, s, w, more, S)
<1>1. /\ Len(d) \in Nat /\ Len(t) \in Nat /\ DOMAIN d = 1 .. Len(d) /\ DOMAIN t = 1 .. Len(t)
      /\ DOMAIN e = 1 .. Len(e)
      /\ \A j \in 1 .. Len(d) : e[j] = d[j]
      /\ \A j \in 1 .. Len(t) : e[Len(d) + j] = t[j]
      /\ Len(e) = Len(d) + Len(t)
  BY DEF Joined
<1>2. \A k \in 0 .. Len(e) : \A x : Sees(e, l, B, k, x) =>
        /\ k <= Len(d) => Sees(d, l, B, k, x)
        /\ k > Len(d) =>
             \/ \E j \in DOMAIN t : j <= k - Len(d) /\ Carries(t[j], l) /\ x = t[j].node[l]
             \/ Sees(d, l, B, Len(d), x) /\ \A j \in DOMAIN t : j <= k - Len(d) => ~Carries(t[j], l)
  BY SeesConcat
<1>3. /\ \A k \in 0 .. Len(d) : AnsweredBy(e, k, S) = AnsweredBy(d, k, S)
      /\ \A k \in 0 .. Len(e) :
           /\ AnsweredBy(e, k, S) \subseteq AnsweredBy(e, Len(e), S)
           /\ k >= Len(d) /\ (\A j \in DOMAIN t : j <= k - Len(d) => t[j].type # "put")
                => AnsweredBy(e, k, S) = AnsweredBy(d, Len(d), S)
  BY AnsweredConcat
<1>4. /\ \A j \in DOMAIN t : Carries(t[j], l) => t[j].node[l] = new
      /\ v = new \/ \E j \in DOMAIN t : Carries(t[j], l)
      /\ \A j \in DOMAIN t : t[j].type = "put" => j = Len(t)
      /\ NotBefore(v, l, w, no, AnsweredBy(d, Len(d), S))
      /\ NotBefore(new, l, w, more, AnsweredBy(e, Len(e), S))
      /\ no \subseteq more
  BY DEF Follows
<1>5. ASSUME NEW x, Sees(e, l, B, Len(e), x) PROVE x = new
  <2>1. Len(e) \in 0 .. Len(e) /\ Len(e) - Len(d) = Len(t)
    BY <1>1
  <2>2. \A j \in DOMAIN t : j <= Len(e) - Len(d)
    BY <1>1
  <2>3. CASE Len(e) > Len(d)
    <3>1. CASE \E j \in DOMAIN t : Carries(t[j], l) /\ x = t[j].node[l]
      BY <1>4, <3>1
    <3>2. CASE Sees(d, l, B, Len(d), x) /\ \A j \in DOMAIN t : ~Carries(t[j], l)
      BY <1>4, <3>2 DEF UpToDate
    <3> QED BY <1>2, <1>5, <2>1, <2>2, <2>3, <3>1, <3>2
  <2>4. CASE ~(Len(e) > Len(d))
    <3>1. Len(e) = Len(d) /\ DOMAIN t = {}
      <4>1. Len(t) = 0 /\ 1 .. 0 = {}
        BY <1>1, <2>4
      <4> QED BY <1>1, <4>1
    <3>2. Sees(d, l, B, Len(d), x)
      BY <1>2, <1>5, <2>1, <3>1, <1>1
    <3> QED BY <1>4, <3>1, <3>2 DEF UpToDate
  <2> QED BY <2>3, <2>4
<1>6. ASSUME NEW k \in 0 .. Len(e), \A j \in DOMAIN e : IsListen(e, j, r, s) => j <= k + 1,
             NEW x, Sees(e, l, B, k, x)
      PROVE  NotBefore(x, l, w, more, AnsweredBy(e, k, S))
  <2>1. CASE k <= Len(d)
    <3>1. k \in 0 .. Len(d) /\ Sees(d, l, B, k, x)
      BY <1>1, <1>2, <1>6, <2>1
    <3>2. \A j \in DOMAIN d : IsListen(d, j, r, s) => j <= k + 1
      <4>1. \A j \in DOMAIN d : j \in DOMAIN e /\ e[j] = d[j]
        BY <1>1
      <4> QED BY <1>6, <4>1 DEF IsListen
    <3>3. NotBefore(x, l, w, no, AnsweredBy(d, k, S))
      BY <3>1, <3>2 DEF UpToDate
    <3>4. AnsweredBy(e, k, S) = AnsweredBy(d, k, S)
      BY <1>3, <3>1
    <3> QED BY <1>4, <3>3, <3>4, NotBeforeLess
  <2>2. CASE k > Len(d) /\ x = new
    BY <1>3, <1>4, <2>2, NotBeforeLess
  <2>3. CASE k > Len(d) /\ x # new
    <3>1. Sees(d, l, B, Len(d), x) /\ \A j \in DOMAIN t : j <= k - Len(d) => ~Carries(t[j], l)
      BY <1>2, <1>4, <1>6, <2>3
    <3>2. x = v
      BY <3>1 DEF UpToDate
    <3>3. k # Len(e)
      BY <1>5, <1>6, <2>3
    <3>4. \A j \in DOMAIN t : j <= k - Len(d) => t[j].type # "put"
      <4>1. ASSUME NEW j \in DOMAIN t, j <= k - Len(d) PROVE j # Len(t)
        BY <1>1, <3>3, <4>1
      <4> QED BY <1>4, <4>1
    <3>5. AnsweredBy(e, k, S) = AnsweredBy(d, Len(d), S)
      BY <1>1, <1>3, <2>3, <3>4
    <3> QED BY <1>4, <3>2, <3>5, NotBeforeLess
  <2> QED BY <1>1, <2>1, <2>2, <2>3
<1>7. UpToDate(l, B, e, new, r, s, w, more, S)
  BY <1>5, <1>6 DEF UpToDate
<1> QED
  BY <1>7

(* The answer of the listen, after its data, comes at the end.             *)
LEMMA UpToDateNew ==
  ASSUME NEW d, NEW t, NEW e, Joined(d, t, e), Len(t) = 2, NEW l, NEW B, NEW v, NEW r, NEW s,
         NEW w, NEW no, NEW S,
         Carries(t[1], l), t[1].node[l] = v, IsListen(t, 2, r, s),
         NotBefore(v, l, w, no, AnsweredBy(e, Len(e), S))
  PROVE  UpToDate(l, B, e, v, r, s, w, no, S)
<1>1. /\ Len(d) \in Nat /\ DOMAIN t = 1 .. 2 /\ DOMAIN e = 1 .. Len(e)
      /\ e[Len(d) + 2] = t[2] /\ Len(e) = Len(d) + 2
  <2>1. 2 \in 1 .. Len(t)
    OBVIOUS
  <2> QED BY <2>1 DEF Joined
<1>2. \A k \in 0 .. Len(e) : \A x : Sees(e, l, B, k, x) /\ k > Len(d) =>
             \/ \E j \in DOMAIN t : j <= k - Len(d) /\ Carries(t[j], l) /\ x = t[j].node[l]
             \/ Sees(d, l, B, Len(d), x) /\ \A j \in DOMAIN t : j <= k - Len(d) => ~Carries(t[j], l)
  BY SeesConcat
<1>3. \A k \in 0 .. Len(e) : AnsweredBy(e, k, S) \subseteq AnsweredBy(e, Len(e), S)
  BY AnsweredConcat
<1>4. ~Carries(t[2], l)
  BY DEF Carries, IsListen
<1>5. ASSUME NEW k \in 0 .. Len(e), k > Len(d), NEW x, Sees(e, l, B, k, x) PROVE x = v
  <2>1. 1 \in DOMAIN t /\ 1 <= k - Len(d)
    BY <1>1, <1>5
  <2>2. PICK j \in DOMAIN t : Carries(t[j], l) /\ x = t[j].node[l]
    BY <1>2, <1>5, <2>1
  <2>3. j = 1
    BY <1>1, <1>4, <2>2
  <2> QED BY <2>2, <2>3
<1>6. Len(e) \in 0 .. Len(e) /\ Len(e) > Len(d)
  BY <1>1
<1>7. ASSUME NEW k \in 0 .. Len(e), \A j \in DOMAIN e : IsListen(e, j, r, s) => j <= k + 1,
             NEW x, Sees(e, l, B, k, x)
      PROVE  NotBefore(x, l, w, no, AnsweredBy(e, k, S))
  <2>1. Len(d) + 2 \in DOMAIN e /\ IsListen(e, Len(d) + 2, r, s)
    BY <1>1 DEF IsListen
  <2>2. Len(d) + 2 <= k + 1
    BY <1>7, <2>1
  <2>3. k > Len(d)
    BY <1>1, <2>2
  <2>4. x = v
    BY <1>5, <1>7, <2>3
  <2> QED BY <1>3, <2>4, NotBeforeLess
<1>8. UpToDate(l, B, e, v, r, s, w, no, S)
  BY <1>5, <1>6, <1>7 DEF UpToDate
<1> QED
  BY <1>8

(***************************************************************************)
(* What the operations make of the server's nodes of the views             *)
(***************************************************************************)

(* The caches of a view are those it had, or complete because of q.        *)
LEMMA ServerOverwriteShows ==
  ASSUME NEW writes \in SUBSET Nodes, NEW p \in Paths, NEW view \in ViewOf(p),
         NEW q \in Paths, q \subseteq p, NEW snap \in Node(q),
         NEW new, new = ServerOverwrite(view, snap, writes)
  PROVE  new.eventFull => view.eventFull \/ q = p
<1> DEFINE c == ChildTowards(p, q)
           fresh  == IF q = p THEN snap
                     ELSE UpdateChildIn(view.server, UpdateChild(Child(view.server, c), snap), q)
           mid == [view EXCEPT !.server = fresh, !.serverFull = @ \/ q = p]
<1>0. /\ view.server \in Node(p) /\ view.event \in Node(p)
      /\ view.serverFull \in BOOLEAN /\ view.eventFull \in BOOLEAN
  BY DEF ViewOf
<1>1. PathOfView(view) = p /\ DOMAIN snap = q
  BY <1>0 DEF PathOfView, Node
<1>2. CASE q # p /\ q # c /\ ~ServerCompleteForPath(view, q)
  BY <1>1, <1>2 DEF ServerOverwrite
<1>3. CASE ~(q # p /\ q # c /\ ~ServerCompleteForPath(view, q))
  <2>1. new = EventAfterServer(mid, q, writes)
    BY <1>1, <1>3 DEF ServerOverwrite
  <2>2. fresh \in Node(p)
    <3>1. CASE q = p
      BY <3>1
    <3>2. CASE q # p
      <4>1. c \in SUBSET p /\ q \in SUBSET c
        BY <3>2, ChildExists
      <4>2. fresh = UpdateChildIn(view.server, UpdateChild(Child(view.server, c), snap), q)
        BY <3>2
      <4> HIDE DEF c, fresh
      <4> QED BY <4>1, <4>2, <1>0, DeepUpdate
    <3> QED BY <3>1, <3>2
  <2> HIDE DEF fresh
  <2>3. mid \in ViewOf(p) /\ mid.eventFull = view.eventFull
    BY <1>0, <2>2 DEF ViewOf
  <2> HIDE DEF mid
  <2>4. Renewed(mid, new, p, q, writes)
    BY <2>1, <2>3, EventAfter
  <2> QED BY <2>3, <2>4 DEF Renewed
<1> QED
  BY <1>2, <1>3

LEMMA ListenCompleteShows ==
  ASSUME NEW writes \in SUBSET Nodes, NEW p \in Paths, NEW view \in ViewOf(p),
         NEW q \in Paths, q \subseteq p, NEW new, new = ListenComplete(view, q, writes)
  PROVE  new.eventFull => view.eventFull \/ q = p
<1> DEFINE mid == [view EXCEPT !.serverFull = @ \/ q = p]
<1>0. /\ view.server \in Node(p) /\ view.event \in Node(p)
      /\ view.serverFull \in BOOLEAN /\ view.eventFull \in BOOLEAN
  BY DEF ViewOf
<1>1. PathOfView(view) = p
  BY <1>0 DEF PathOfView, Node
<1>2. new = EventAfterServer(mid, q, writes)
  BY <1>1 DEF ListenComplete
<1>3. mid \in ViewOf(p) /\ mid.eventFull = view.eventFull
  BY <1>0 DEF ViewOf
<1> HIDE DEF mid
<1>4. Renewed(mid, new, p, q, writes)
  BY <1>2, <1>3, EventAfter
<1> QED
  BY <1>3, <1>4 DEF Renewed

(* The node, from the server, is what every full view has of it.           *)
TakenIn(t, u, node) ==
  \A p \in Viewed(t.regs) :
    /\ u.views[p].serverFull =>
         \A l \in p : u.views[p].server[l] =
                        IF l \in DOMAIN node THEN node[l] ELSE t.views[p].server[l]
    /\ u.views[p].eventFull => t.views[p].eventFull \/ p \subseteq DOMAIN node

LEMMA ServerOverwriteTakesIn ==
  ASSUME NEW t, Sound(t), NEW node \in Nodes, NEW u, u = ApplyServerOverwrite(t, node)
  PROVE  TakenIn(t, u, node)
<1> DEFINE q == DOMAIN node
           snap(p) == Child(node, p \cap q)
           processed == [p \in Reached(t, q) |-> ServerOverwrite(t.views[p], snap(p), t.visibleWrites)]
<1>1. u = Applied(t, processed) /\ DOMAIN processed = Reached(t, q)
  BY DEF ApplyServerOverwrite
<1>2. q \in Paths /\ node \in Node(q)
  BY NodeFacts
<1>3. ASSUME NEW p \in Reached(t, q)
      PROVE  /\ TookIn(t.views[p], processed[p], p, p \cap q, snap(p))
             /\ processed[p].eventFull => t.views[p].eventFull \/ p \cap q = p
             /\ \A l \in p \cap q : snap(p)[l] = node[l]
             /\ p \in Viewed(t.regs) /\ processed[p] \in ViewOf(p)
  <2>1. p \in Viewed(t.regs) /\ p \in ViewPaths /\ p \in Paths
    BY <1>3, ViewedPath DEF Reached
  <2>2. p \cap q \in Paths /\ p \cap q \subseteq p /\ p \cap q \subseteq q
    BY <1>2, <1>3, <2>1, ReachedPath
  <2>3. snap(p) \in Node(p \cap q) /\ \A l \in p \cap q : snap(p)[l] = node[l]
    BY <1>2, <2>2, ChildType
  <2>4. t.views[p] \in ViewOf(p) /\ t.visibleWrites \in SUBSET Nodes
    BY <2>1, TreeFields DEF Sound
  <2>5. processed[p] = ServerOverwrite(t.views[p], snap(p), t.visibleWrites)
    OBVIOUS
  <2> HIDE DEF processed, snap
  <2>6. TookIn(t.views[p], processed[p], p, p \cap q, snap(p))
    BY <2>1, <2>2, <2>3, <2>4, <2>5, ServerOverwriteView
  <2>7. processed[p].eventFull => t.views[p].eventFull \/ p \cap q = p
    BY <2>1, <2>2, <2>3, <2>4, <2>5, ServerOverwriteShows
  <2> QED BY <2>1, <2>3, <2>6, <2>7 DEF TookIn
<1> HIDE DEF processed, snap
<1>4. Effect(t, u, processed)
  BY <1>1, <1>3, AppliedEffect DEF Sound
<1>5. ASSUME NEW p \in Viewed(t.regs)
      PROVE  /\ u.views[p].serverFull =>
                  \A l \in p : u.views[p].server[l] =
                                 IF l \in q THEN node[l] ELSE t.views[p].server[l]
             /\ u.views[p].eventFull => t.views[p].eventFull \/ p \subseteq q
  <2>1. u.views[p] = IF p \in Reached(t, q) THEN processed[p] ELSE t.views[p]
    BY <1>1, <1>4, ViewedPath DEF Effect
  <2>2. CASE p \in Reached(t, q)
    <3>1. u.views[p] = processed[p]
      BY <2>1, <2>2
    <3>2. /\ TookIn(t.views[p], u.views[p], p, p \cap q, snap(p))
          /\ u.views[p].eventFull => t.views[p].eventFull \/ p \cap q = p
          /\ \A l \in p \cap q : snap(p)[l] = node[l]
      BY <1>3, <2>2, <3>1
    <3> QED BY <3>2 DEF TookIn
  <2>3. CASE p \notin Reached(t, q)
    <3>1. \A l \in p : l \notin q
      BY <1>2, <2>3, UnreachedLeaf
    <3> QED BY <2>1, <2>3, <3>1
  <2> QED BY <2>2, <2>3
<1> QED
  BY <1>5 DEF TakenIn, q

(* An operation at q leaves what the server has.                           *)
Left(t, u, q) ==
  \A p \in Viewed(t.regs) :
    /\ u.views[p].server = t.views[p].server
    /\ u.views[p].eventFull => t.views[p].eventFull \/ p \subseteq q

LEMMA ListenCompleteLeaves ==
  ASSUME NEW t, Sound(t), NEW q \in Paths, NEW u, u = ApplyListenComplete(t, q)
  PROVE  Left(t, u, q)
<1> DEFINE processed == [p \in Reached(t, q) |-> ListenComplete(t.views[p], p \cap q, t.visibleWrites)]
<1>1. u = Applied(t, processed) /\ DOMAIN processed = Reached(t, q)
  BY DEF ApplyListenComplete
<1>2. ASSUME NEW p \in Reached(t, q)
      PROVE  /\ Completed(t.views[p], processed[p], p, p \cap q)
             /\ processed[p].eventFull => t.views[p].eventFull \/ p \cap q = p
             /\ p \in Viewed(t.regs) /\ processed[p] \in ViewOf(p)
  <2>1. p \in Viewed(t.regs) /\ p \in ViewPaths /\ p \in Paths
    BY <1>2, ViewedPath DEF Reached
  <2>2. p \cap q \in Paths /\ p \cap q \subseteq p
    BY <1>2, <2>1, ReachedPath
  <2>3. t.views[p] \in ViewOf(p) /\ t.visibleWrites \in SUBSET Nodes
    BY <2>1, TreeFields DEF Sound
  <2>4. processed[p] = ListenComplete(t.views[p], p \cap q, t.visibleWrites)
    OBVIOUS
  <2> HIDE DEF processed
  <2>5. Completed(t.views[p], processed[p], p, p \cap q)
    BY <2>1, <2>2, <2>3, <2>4, ListenCompleteView
  <2>6. processed[p].eventFull => t.views[p].eventFull \/ p \cap q = p
    BY <2>1, <2>2, <2>3, <2>4, ListenCompleteShows
  <2> QED BY <2>1, <2>5, <2>6 DEF Completed
<1> HIDE DEF processed
<1>3. Effect(t, u, processed)
  BY <1>1, <1>2, AppliedEffect DEF Sound
<1>4. ASSUME NEW p \in Viewed(t.regs)
      PROVE  /\ u.views[p].server = t.views[p].server
             /\ u.views[p].eventFull => t.views[p].eventFull \/ p \subseteq q
  <2>1. u.views[p] = IF p \in Reached(t, q) THEN processed[p] ELSE t.views[p]
    BY <1>1, <1>3, ViewedPath DEF Effect
  <2>2. CASE p \in Reached(t, q)
    <3>1. u.views[p] = processed[p]
      BY <2>1, <2>2
    <3>2. /\ Completed(t.views[p], u.views[p], p, p \cap q)
          /\ u.views[p].eventFull => t.views[p].eventFull \/ p \cap q = p
      BY <1>2, <2>2, <3>1
    <3> QED BY <3>2 DEF Completed
  <2>3. CASE p \notin Reached(t, q)
    BY <2>1, <2>3
  <2> QED BY <2>2, <2>3
<1> QED
  BY <1>4 DEF Left

LEMMA UserOverwriteLeaves ==
  ASSUME NEW t, Sound(t), NEW i \in 1 .. LastPut, \A j \in Ids(t.allWrites) : j < i,
         NEW node \in WriteNodes, NEW u, u = ApplyUserOverwrite(t, i, node)
  PROVE  Left(t, u, DOMAIN node)
<1> DEFINE q == DOMAIN node
           more == Append(t.allWrites, [id |-> i, node |-> node])
           new == AddWrite(t.visibleWrites, node)
           s == [t EXCEPT !.allWrites = more, !.visibleWrites = new]
           snap(p) == Child(node, p \cap q)
           processed == [p \in Reached(s, q) |->
                           UserOverwrite(s.views[p], snap(p), s.visibleWrites,
                                         CompleteServerCache(s, PathOfView(s.views[p])))]
<1>1. u = Applied(s, processed) /\ DOMAIN processed = Reached(s, q)
  BY DEF ApplyUserOverwrite
<1>2. WellFormed(t)
  BY DEF Sound
<1>3. /\ node \in Nodes /\ q \in Paths /\ q # {} /\ node \in Node(q)
  BY WriteNodeFacts
<1>4. WrittenTree(t, u, i, node)
  BY UserOverwriteTree
<1>5. u.allWrites = more /\ u.visibleWrites = new /\ WellFormed(u)
  BY <1>4 DEF WrittenTree, Sound
<1>6. more \in Seq(Pending) /\ new \in SUBSET WriteNodes /\ Ascending(more) /\ Compound(new)
  BY <1>5 DEF WellFormed, Trees
<1> HIDE DEF more, new
<1>7. /\ s \in Trees /\ s.allWrites = more /\ s.visibleWrites = new /\ s.regs = t.regs
      /\ s.views = t.views /\ s.raised = t.raised /\ s.fired = t.fired
  BY <1>2, <1>6 DEF WellFormed, Trees
<1> HIDE DEF s
<1>8. WellFormed(s)
  BY <1>2, <1>6, <1>7 DEF WellFormed
<1>9. ASSUME NEW p \in Reached(s, q)
      PROVE  /\ Wrote(t.views[p], processed[p], p, p \cap q, snap(p))
             /\ p \in Viewed(s.regs) /\ processed[p] \in ViewOf(p)
  <2>1. p \in Viewed(s.regs) /\ p \in ViewPaths /\ p \in Paths
    BY <1>9, ViewedPath DEF Reached
  <2>2. p \cap q \in Paths /\ p \cap q \subseteq p /\ p \cap q \subseteq q
    BY <1>3, <1>9, <2>1, ReachedPath
  <2>3. snap(p) \in Node(p \cap q)
    BY <1>3, <2>2, ChildType
  <2>4. s.views[p] \in ViewOf(p) /\ s.views[p] = t.views[p]
    BY <1>7, <1>8, <2>1 DEF WellFormed
  <2>5. PathOfView(s.views[p]) = p
    BY <2>4 DEF PathOfView, ViewOf, Node
  <2> DEFINE known == CompleteServerCache(s, p)
  <2>6. \A n \in known : n \in Node(p)
    BY <1>8, CacheType
  <2>7. s.visibleWrites \in SUBSET Nodes
    BY <1>8, TreeFields
  <2>8. processed[p] = UserOverwrite(s.views[p], snap(p), s.visibleWrites, known)
    BY <2>5
  <2> HIDE DEF known, processed, snap
  <2>9. Wrote(s.views[p], processed[p], p, p \cap q, snap(p))
    BY <2>1, <2>2, <2>3, <2>4, <2>6, <2>7, <2>8, UserOverwriteView
  <2> QED BY <2>1, <2>4, <2>9 DEF Wrote
<1> HIDE DEF processed, snap
<1>10. Effect(s, u, processed)
  BY <1>1, <1>8, <1>9, AppliedEffect
<1>11. ASSUME NEW p \in Viewed(t.regs)
       PROVE  /\ u.views[p].server = t.views[p].server
              /\ u.views[p].eventFull => t.views[p].eventFull \/ p \subseteq q
  <2>1. u.views[p] = IF p \in Reached(s, q) THEN processed[p] ELSE t.views[p]
    BY <1>1, <1>7, <1>10, ViewedPath DEF Effect
  <2>2. CASE p \in Reached(s, q)
    <3>1. u.views[p] = processed[p]
      BY <2>1, <2>2
    <3>2. Wrote(t.views[p], u.views[p], p, p \cap q, snap(p))
      BY <1>9, <2>2, <3>1
    <3> QED BY <3>2 DEF Wrote
  <2>3. CASE p \notin Reached(s, q)
    BY <2>1, <2>3
  <2> QED BY <2>2, <2>3
<1> QED
  BY <1>11 DEF Left, q

(* The pending writes that are left. *)
Within(allw, more) == \A k \in DOMAIN more : \E j \in DOMAIN allw : more[k] = allw[j]

LEMMA AckedWithin ==
  ASSUME NEW t, Sound(t), NEW i \in Ids(t.allWrites), NEW u, AckedTree(t, u, i)
  PROVE  Within(t.allWrites, u.allWrites)
<1> DEFINE allw == t.allWrites
           n == IndexOf(allw, i)
<1>1. allw \in Seq(Pending) /\ i \in Ids(allw)
  BY TreeFields DEF Sound
<1>2. u.allWrites = RemoveAt(allw, n)
  BY DEF AckedTree
<1> HIDE DEF allw
<1>3. n \in DOMAIN allw
  BY <1>1, IndexOfAt
<1> HIDE DEF n
<1> DEFINE rest == RemoveAt(allw, n)
<1>4. /\ Len(allw) \in Nat \ {0} /\ DOMAIN allw = 1 .. Len(allw) /\ DOMAIN rest = 1 .. Len(allw) - 1
      /\ \A j \in 1 .. Len(allw) - 1 : rest[j] = IF j < n THEN allw[j] ELSE allw[j + 1]
  BY <1>1, <1>3, RemoveAtAt
<1> HIDE DEF rest
<1>5. Within(allw, rest)
  BY <1>4 DEF Within
<1> QED
  BY <1>2, <1>5 DEF allw, rest

LEMMA AcksLeave ==
  ASSUME NEW t, NEW acks, NEW w, Consistent(t, acks, w), AllFull(t),
         NEW u, u = ApplyAcks(t, acks)
  PROVE  /\ \A p \in Viewed(t.regs) : u.views[p].server = t.views[p].server
         /\ Within(t.allWrites, u.allWrites)
<1> DEFINE n == Len(acks)
           Same(s) == /\ \A p \in Viewed(t.regs) : s.views[p].server = t.views[p].server
                      /\ Within(t.allWrites, s.allWrites)
<1>1. HeldFirst(t.allWrites, acks)
  BY DEF Consistent
<1>2. acks \in Seq(Acks) /\ Held(acks) \subseteq Ids(t.allWrites)
      /\ \A j, k \in DOMAIN acks : j < k => acks[j].id < acks[k].id
  BY <1>1 DEF HeldFirst
<1>3. n \in Nat /\ DOMAIN acks = 1 .. n /\ \A k \in DOMAIN acks : acks[k].id \in Held(acks) /\ acks[k].id \in Nat
  BY <1>2, HeldAt
<1> HIDE DEF n
<1>4. PICK g : /\ ApplyAcks(t, acks) = g[1 .. n]
               /\ g[{}] = t
               /\ \A m \in 0 .. n - 1 :
                    g[1 .. m + 1] = ApplyAck(g[1 .. m], acks[m + 1].id, acks[m + 1].ok)
  BY <1>3, AcksInTurns
<1> DEFINE A == {m \in Nat : m <= n => Turn(t, g[1 .. m], acks, m) /\ Same(g[1 .. m])}
<1>5. 0 \in A
  <2>1. 1 .. 0 = {}
    OBVIOUS
  <2>2. Same(t)
    BY DEF Within
  <2> QED BY <1>4, <2>1, <2>2, FirstTurn
<1>6. ASSUME NEW m \in Nat, m \in A, m + 1 <= n
      PROVE  Turn(t, g[1 .. m + 1], acks, m + 1) /\ Same(g[1 .. m + 1])
  <2>1. m \in 0 .. n - 1 /\ m + 1 \in DOMAIN acks /\ m <= n
    BY <1>3, <1>6
  <2>2. g[1 .. m + 1] = ApplyAck(g[1 .. m], acks[m + 1].id, acks[m + 1].ok)
    BY <1>4, <2>1
  <2>3. Turn(t, g[1 .. m], acks, m) /\ Same(g[1 .. m])
    BY <1>6, <2>1
  <2>4. Turn(t, g[1 .. m + 1], acks, m + 1)
    BY <2>1, <2>2, <2>3, NextTurn
  <2> DEFINE s == g[1 .. m]
             v == g[1 .. m + 1]
             i == acks[m + 1].id
  <2>5. /\ Sound(s) /\ AllFull(s) /\ s.regs = t.regs
        /\ Ids(s.allWrites) = Ids(t.allWrites) \ {acks[j].id : j \in {x \in DOMAIN acks : x <= m}}
    BY <2>3 DEF Turn
  <2>6. i \notin {acks[j].id : j \in {x \in DOMAIN acks : x <= m}}
    <3>1. ASSUME NEW j \in DOMAIN acks, j <= m PROVE acks[j].id # i
      <4>1. j < m + 1
        BY <1>3, <3>1
      <4> QED BY <1>2, <1>3, <2>1, <4>1
    <3> QED BY <3>1
  <2>7. i \in Ids(s.allWrites)
    BY <1>2, <1>3, <2>1, <2>5, <2>6
  <2> HIDE DEF s, v, i
  <2>8. AckedTree(s, v, i)
    BY <2>2, <2>5, <2>7, AckTree DEF s, v, i
  <2>9. Same(v)
    <3>1. \A p \in Viewed(t.regs) : v.views[p].server = t.views[p].server
      BY <2>3, <2>5, <2>8 DEF AckedTree, s
    <3>2. Within(s.allWrites, v.allWrites)
      BY <2>5, <2>7, <2>8, AckedWithin
    <3>3. Within(t.allWrites, s.allWrites)
      BY <2>3 DEF s
    <3>4. Within(t.allWrites, v.allWrites)
      BY <3>2, <3>3 DEF Within
    <3> QED BY <3>1, <3>4
  <2> QED BY <2>4, <2>9 DEF v
<1>7. \A m \in Nat : m \in A => m + 1 \in A
  BY <1>6
<1>8. Nat \subseteq A
  <2> HIDE DEF A
  <2> QED BY <1>5, <1>7, NatInductiveSet
<1>9. n \in A
  BY <1>3, <1>8
<1> QED
  BY <1>3, <1>4, <1>9

LEMMA NewViewCopies ==
  ASSUME NEW t, WellFormed(t), NEW p \in ViewPaths
  PROVE  /\ NewViewAt(t, p).serverFull => \E q \in Viewed(t.regs) :
              /\ p \subseteq q /\ t.views[q].serverFull
              /\ \A l \in p : NewViewAt(t, p).server[l] = t.views[q].server[l]
         /\ NewViewAt(t, p).eventFull =>
              NewViewAt(t, p).serverFull \/ HasCompleteWrite(t.visibleWrites, p)
<1> DEFINE above == CompleteServerCache(t, p)
           view == NewViewAt(t, p)
           full == {q \in Viewed(t.regs) : p \subseteq q /\ t.views[q].serverFull}
<1>1. /\ view.serverFull = (above # {})
      /\ view.eventFull = (above # {} \/ HasCompleteWrite(t.visibleWrites, p))
      /\ above # {} => view.server = CHOOSE n \in above : TRUE
  BY DEF NewViewAt, NewView
<1>2. above = {Child(t.views[q].server, p) : q \in {r \in full : \A s \in full : s \subseteq r}}
  BY DEF CompleteServerCache
<1> HIDE DEF view, above
<1>3. ASSUME view.serverFull
      PROVE  \E q \in full : \A l \in p : view.server[l] = t.views[q].server[l]
  <2>1. view.server \in above
    BY <1>1, <1>3
  <2>2. PICK q \in full : view.server = Child(t.views[q].server, p)
    BY <1>2, <2>1
  <2>3. \A l \in p : view.server[l] = t.views[q].server[l]
    BY <2>2 DEF Child
  <2> QED BY <2>3
<1> QED
  BY <1>1, <1>3 DEF view

(* A view that is added knows what one above it does.                      *)
Copied(t, u, p) ==
  /\ u.views[p].serverFull => \E q \in Viewed(t.regs) :
       /\ p \subseteq q /\ t.views[q].serverFull
       /\ \A l \in p : u.views[p].server[l] = t.views[q].server[l]
  /\ u.views[p].eventFull => u.views[p].serverFull \/ HasCompleteWrite(t.visibleWrites, p)

LEMMA RegisteredCopies ==
  ASSUME NEW t, Sound(t), NEW p \in ViewPaths, NEW kind, p \notin Viewed(t.regs),
         NEW u, u = Registered(t, p, kind)
  PROVE  Copied(t, u, p)
<1>1. WellFormed(t) /\ DOMAIN t.views = ViewPaths /\ t.regs[p] = {} /\ t \in Trees
  BY TreeFields DEF Sound, Viewed, WellFormed
<1>2. u.views[p] = NewViewAt(t, p)
  BY <1>1 DEF Registered, Trees
<1> QED
  BY <1>1, <1>2, NewViewCopies DEF Copied

-----------------------------------------------------------------------------
(* The inductive invariant *)

IsUnlisten(q, k, r) == q[k].type = "unlisten" /\ q[k].path = r

(* The writes the server has answered, and the connection has received     *)
(* the answers of.                                                         *)
DoneBy(allw, acks, w) == DOMAIN w \ (Ids(allw) \ Held(acks))

(* Write i was made at w[i]: it stores i there, or nothing.  Writes are    *)
(* answered in order.                                                      *)
Books(allw, acks, w) ==
  /\ Len(w) <= LastPut
  /\ \A k \in DOMAIN allw :
       /\ DOMAIN allw[k].node = w[allw[k].id]
       /\ \A l \in DOMAIN allw[k].node : allw[k].node[l] \in {allw[k].id, Nil}
  /\ Below(DoneBy(allw, acks, w), Ids(allw) \ Held(acks))

(* The listen to r is with the server, which has not refused it.           *)
Following(r, ls, u, d, on) ==
  /\ on /\ ls[r] # 0 /\ ~Asked(u, r, ls[r])
  /\ \A j \in DOMAIN d : IsListen(d, j, r, ls[r]) => d[j].ok

(* The server sends what changes below r.  An unlisten is always from      *)
(* before the listen there is.                                             *)
Watching(ls, u, d, on, ws) ==
  /\ \A r \in ViewPaths : Following(r, ls, u, d, on) =>
       r \in ws /\ \A j \in DOMAIN u : ~IsUnlisten(u, j, r)
  /\ on => \A r \in ViewPaths, j, k \in DOMAIN u :
       ls[r] # 0 /\ IsListen(u, k, r, ls[r]) /\ IsUnlisten(u, j, r) => j < k

(* An answer follows its data, which fills the views.                      *)
Preceded(t, ls, d) ==
  \A k \in DOMAIN d : d[k].type = "listen" /\ d[k].ok =>
    /\ k = 1 /\ ls[d[k].path] = d[k].spec =>
         \A p \in Viewed(t.regs) : p \subseteq d[k].path => t.views[p].serverFull
    /\ k > 1 => d[k - 1].type = "data" /\ DOMAIN d[k - 1].node = d[k].path

(* What the server has, and what it sent, is not from before the writes it *)
(* had answered by then.                                                   *)
Stored(d, base, w, no, S) ==
  \A l \in Leaves : NotBefore(base[l], l, w, no, AnsweredBy(d, Len(d), S))

DataSafe(d, w, no, S) ==
  \A k \in DOMAIN d : \A l : Carries(d[k], l) => NotBefore(d[k].node[l], l, w, no, AnsweredBy(d, k, S))

(* What the full views below r have of the leaf l.                         *)
Base(t, r, l) ==
  {t.views[p].server[l] : p \in {q \in Viewed(t.regs) : q \subseteq r /\ l \in q /\ t.views[q].serverFull}}

(* What is received makes of them what the server has.                     *)
Feeds(t, ls, u, d, on, base, w, no, S) ==
  \A r \in ViewPaths : \A l : Following(r, ls, u, d, on) /\ l \in r =>
    UpToDate(l, Base(t, r, l), d, base[l], r, ls[r], w, no, S)

(* Full views are not from before a write that is acknowledged.            *)
Remembered(t, w, no) ==
  \A p \in Viewed(t.regs) : t.views[p].serverFull =>
    \A l \in p : NotBefore(t.views[p].server[l], l, w, no, DOMAIN w \ Ids(t.allWrites))

(* Nothing is shown but for a full view or a write.                        *)
Grounded(t) ==
  \A p \in Viewed(t.regs) : t.views[p].eventFull =>
    t.views[p].serverFull \/ HasCompleteWrite(t.visibleWrites, p)

(* All of it, for the tree t with what is held back, the writes w, the     *)
(* listens ls, the requests u and messages d while on, and the server.     *)
Served(t, acks, w, ls, u, d, on, base, ws, no) ==
  LET S == DoneBy(t.allWrites, acks, w)
  IN  /\ Books(t.allWrites, acks, w)
      /\ Watching(ls, u, d, on, ws)
      /\ Preceded(t, ls, d)
      /\ Stored(d, base, w, no, S)
      /\ DataSafe(d, w, no, S)
      /\ Feeds(t, ls, u, d, on, base, w, no, S)
      /\ Remembered(t, w, no)
      /\ Grounded(t)

FInv == Served(Tree, putsToAck, written, listens, up, down, connected, db, watched, denied)

LEMMA ListenAsked ==
  ASSUME NEW q, NEW r, NEW s
  PROVE  Asked(q, r, s) <=> \E k \in DOMAIN q : IsListen(q, k, r, s)
  BY DEF Asked, IsListen

(* The head of d is received; T are the writes then answered.              *)
LEMMA StoredTail ==
  ASSUME NEW M, NEW d \in Seq(M), d # <<>>, NEW base, NEW w, NEW no, NEW S, NEW T,
         T \subseteq IF d[1].type = "put" THEN S \cup {d[1].id} ELSE S,
         Stored(d, base, w, no, S)
  PROVE  Stored(Tail(d), base, w, no, T)
<1> DEFINE t == Tail(d)
<1>1. Len(d) \in Nat \ {0} /\ Len(t) = Len(d) - 1
  BY TailAt
<1>2. Len(t) \in 0 .. Len(d) - 1 /\ Len(t) + 1 = Len(d)
  BY <1>1
<1>3. AnsweredBy(t, Len(t), T) \subseteq AnsweredBy(d, Len(t) + 1, S)
  BY <1>2, AnsweredTail
<1> HIDE DEF t
<1>4. Stored(t, base, w, no, T)
  BY <1>2, <1>3, NotBeforeLess DEF Stored
<1> QED
  BY <1>4 DEF t

LEMMA DataSafeTail ==
  ASSUME NEW M, NEW d \in Seq(M), d # <<>>, NEW w, NEW no, NEW S, NEW T,
         T \subseteq IF d[1].type = "put" THEN S \cup {d[1].id} ELSE S,
         DataSafe(d, w, no, S)
  PROVE  DataSafe(Tail(d), w, no, T)
<1> DEFINE t == Tail(d)
<1>1. /\ Len(d) \in Nat \ {0} /\ DOMAIN d = 1 .. Len(d) /\ DOMAIN t = 1 .. Len(d) - 1
      /\ \A j \in 1 .. Len(d) - 1 : t[j] = d[j + 1]
  BY TailAt
<1>2. \A k \in 0 .. Len(d) - 1 : AnsweredBy(t, k, T) \subseteq AnsweredBy(d, k + 1, S)
  BY AnsweredTail
<1> HIDE DEF t
<1>3. ASSUME NEW k \in DOMAIN t, NEW l, Carries(t[k], l)
      PROVE  NotBefore(t[k].node[l], l, w, no, AnsweredBy(t, k, T))
  <2>1. k \in 0 .. Len(d) - 1 /\ k + 1 \in DOMAIN d /\ t[k] = d[k + 1]
    BY <1>1
  <2>2. NotBefore(d[k + 1].node[l], l, w, no, AnsweredBy(d, k + 1, S))
    BY <1>3, <2>1 DEF DataSafe
  <2> QED BY <1>2, <2>1, <2>2, NotBeforeLess
<1>4. DataSafe(t, w, no, T)
  BY <1>3 DEF DataSafe
<1> QED
  BY <1>4 DEF t

(* What is followed after the head is received, and is not refused by it.  *)
LEMMA FollowingTail ==
  ASSUME NEW M, NEW d \in Seq(M), d # <<>>, NEW r, NEW ls, NEW u, NEW on, NEW more,
         Following(r, more, u, Tail(d), on), more[r] = ls[r],
         IsListen(d, 1, r, ls[r]) => d[1].ok
  PROVE  Following(r, ls, u, d, on)
<1> DEFINE t == Tail(d)
<1>1. /\ Len(d) \in Nat \ {0} /\ DOMAIN d = 1 .. Len(d) /\ DOMAIN t = 1 .. Len(d) - 1
      /\ \A j \in 1 .. Len(d) - 1 : t[j] = d[j + 1]
  BY TailAt
<1>2. Following(r, more, u, t, on)
  OBVIOUS
<1> HIDE DEF t
<1>3. ASSUME NEW j \in DOMAIN d, IsListen(d, j, r, ls[r]) PROVE d[j].ok
  <2>1. CASE j = 1
    BY <1>3, <2>1
  <2>2. CASE j # 1
    <3>1. j - 1 \in DOMAIN t /\ t[j - 1] = d[j]
      <4>1. j - 1 \in 1 .. Len(d) - 1 /\ (j - 1) + 1 = j
        BY <1>1, <2>2
      <4> QED BY <1>1, <4>1
    <3> QED BY <1>2, <1>3, <3>1 DEF Following, IsListen
  <2> QED BY <2>1, <2>2
<1> QED
  BY <1>2, <1>3 DEF Following

LEMMA FeedsTail ==
  ASSUME NEW M, NEW d \in Seq(M), d # <<>>, NEW t, NEW u, NEW ls, NEW more, NEW rs, NEW after, NEW on,
         NEW base, NEW w, NEW no, NEW S, NEW T,
         T \subseteq IF d[1].type = "put" THEN S \cup {d[1].id} ELSE S,
         Feeds(t, ls, rs, d, on, base, w, no, S),
         \A r \in ViewPaths : Following(r, more, after, Tail(d), on) =>
           /\ Following(r, ls, rs, d, on) /\ more[r] = ls[r]
           /\ \A l \in r : Base(u, r, l) \subseteq
                IF Carries(d[1], l) THEN {d[1].node[l]} ELSE Base(t, r, l)
  PROVE  Feeds(u, more, after, Tail(d), on, base, w, no, T)
<1> SUFFICES ASSUME NEW r \in ViewPaths, NEW l, Following(r, more, after, Tail(d), on), l \in r
             PROVE  UpToDate(l, Base(u, r, l), Tail(d), base[l], r, more[r], w, no, T)
  BY DEF Feeds
<1>1. /\ Following(r, ls, rs, d, on) /\ more[r] = ls[r]
      /\ Base(u, r, l) \subseteq IF Carries(d[1], l) THEN {d[1].node[l]} ELSE Base(t, r, l)
  OBVIOUS
<1>2. UpToDate(l, Base(t, r, l), d, base[l], r, ls[r], w, no, S)
  BY <1>1 DEF Feeds
<1> DEFINE B == Base(t, r, l)
           C == Base(u, r, l)
           v == base[l]
           s == ls[r]
<1>3. UpToDate(l, B, d, v, r, s, w, no, S) /\ C \subseteq IF Carries(d[1], l) THEN {d[1].node[l]} ELSE B
  BY <1>1, <1>2
<1> HIDE DEF B, C, v, s
<1>4. UpToDate(l, C, Tail(d), v, r, s, w, no, T)
  BY <1>3, UpToDateTail
<1> QED
  BY <1>1, <1>4 DEF C, v, s

(* An answer stays behind its data.                                        *)
LEMMA PrecededTail ==
  ASSUME NEW M, NEW d \in Seq(M), d # <<>>, NEW t, NEW ls, Preceded(t, ls, d), NEW u, NEW more,
         \A p \in Viewed(u.regs) : d[1].type = "data" /\ p \subseteq DOMAIN d[1].node => u.views[p].serverFull
  PROVE  Preceded(u, more, Tail(d))
<1> DEFINE e == Tail(d)
<1>1. /\ Len(d) \in Nat \ {0} /\ DOMAIN d = 1 .. Len(d) /\ DOMAIN e = 1 .. Len(d) - 1
      /\ \A j \in 1 .. Len(d) - 1 : e[j] = d[j + 1]
  BY TailAt
<1> HIDE DEF e
<1>2. ASSUME NEW k \in DOMAIN e, e[k].type = "listen", e[k].ok
      PROVE  /\ k = 1 => \A p \in Viewed(u.regs) : p \subseteq e[k].path => u.views[p].serverFull
             /\ k > 1 => e[k - 1].type = "data" /\ DOMAIN e[k - 1].node = e[k].path
  <2>1. k + 1 \in DOMAIN d /\ e[k] = d[k + 1] /\ k + 1 > 1 /\ (k + 1) - 1 = k
    BY <1>1
  <2>2. d[k].type = "data" /\ DOMAIN d[k].node = e[k].path
    BY <1>2, <2>1 DEF Preceded
  <2>3. CASE k = 1
    BY <2>2, <2>3
  <2>4. CASE k > 1
    <3>1. k - 1 \in 1 .. Len(d) - 1 /\ (k - 1) + 1 = k
      BY <1>1, <2>4
    <3>2. e[k - 1] = d[k]
      BY <1>1, <3>1
    <3> QED BY <2>2, <2>4, <3>2
  <2> QED BY <1>1, <2>3, <2>4
<1>3. Preceded(u, more, e)
  BY <1>2 DEF Preceded
<1> QED
  BY <1>3 DEF e

(* The server sends t, and has base then; what a write is refused for is   *)
(* in more.                                                                *)
Sends(t, e, base, w, no, more, S) ==
  /\ \A j \in DOMAIN t : \A l : Carries(t[j], l) => l \in Leaves /\ t[j].node[l] = base[l]
  /\ \A j \in DOMAIN t : t[j].type = "put" => j = Len(t)
  /\ \A l \in Leaves : NotBefore(base[l], l, w, more, AnsweredBy(e, Len(e), S))
  /\ no \subseteq more

LEMMA SafeConcat ==
  ASSUME NEW d, NEW t, NEW e, Joined(d, t, e), NEW base, NEW w, NEW no, NEW more, NEW S,
         Sends(t, e, base, w, no, more, S), DataSafe(d, w, no, S)
  PROVE  Stored(e, base, w, more, S) /\ DataSafe(e, w, more, S)
<1>1. /\ Len(d) \in Nat /\ Len(t) \in Nat /\ Len(e) = Len(d) + Len(t)
      /\ DOMAIN d = 1 .. Len(d) /\ DOMAIN t = 1 .. Len(t) /\ DOMAIN e = 1 .. Len(e)
      /\ \A j \in 1 .. Len(d) : e[j] = d[j]
      /\ \A j \in 1 .. Len(t) : e[Len(d) + j] = t[j]
  BY DEF Joined
<1>2. Stored(e, base, w, more, S)
  BY DEF Sends, Stored
<1>3. /\ \A k \in 0 .. Len(d) : AnsweredBy(e, k, S) = AnsweredBy(d, k, S)
      /\ \A k \in 0 .. Len(e) : AnsweredBy(e, k, S) \subseteq AnsweredBy(e, Len(e), S)
  BY AnsweredConcat
<1>4. no \subseteq more
  BY DEF Sends
<1>5. ASSUME NEW k \in DOMAIN e, NEW l, Carries(e[k], l)
      PROVE  NotBefore(e[k].node[l], l, w, more, AnsweredBy(e, k, S))
  <2>1. CASE k <= Len(d)
    <3>1. k \in DOMAIN d /\ e[k] = d[k] /\ k \in 0 .. Len(d)
      BY <1>1, <2>1
    <3>2. NotBefore(e[k].node[l], l, w, no, AnsweredBy(d, k, S))
      BY <1>5, <3>1 DEF DataSafe
    <3> QED BY <1>3, <1>4, <3>1, <3>2, NotBeforeLess
  <2>2. CASE k > Len(d)
    <3>1. k - Len(d) \in DOMAIN t /\ Len(d) + (k - Len(d)) = k /\ k \in 0 .. Len(e)
      BY <1>1, <2>2
    <3>2. e[k] = t[k - Len(d)]
      BY <1>1, <3>1
    <3>3. l \in Leaves /\ e[k].node[l] = base[l]
      BY <1>5, <3>1, <3>2 DEF Sends
    <3>4. NotBefore(base[l], l, w, more, AnsweredBy(e, Len(e), S))
      BY <3>3 DEF Sends
    <3> QED BY <1>3, <3>1, <3>3, <3>4, NotBeforeLess
  <2> QED BY <1>1, <2>1, <2>2
<1> QED
  BY <1>2, <1>5 DEF DataSafe

(* A listen is followed as before when nothing new is said of it.          *)
LEMMA FollowingConcat ==
  ASSUME NEW d, NEW t, NEW e, Joined(d, t, e), NEW r, NEW ls, NEW u, NEW v, NEW on,
         Following(r, ls, v, e, on), Asked(u, r, ls[r]) => Asked(v, r, ls[r])
  PROVE  /\ Following(r, ls, u, d, on)
         /\ \A j \in DOMAIN t : IsListen(t, j, r, ls[r]) => t[j].ok
<1>1. ASSUME NEW j \in DOMAIN d, IsListen(d, j, r, ls[r]) PROVE d[j].ok
  <2>1. j \in DOMAIN e /\ e[j] = d[j]
    BY DEF Joined
  <2> QED BY <1>1, <2>1 DEF Following, IsListen
<1>2. ASSUME NEW j \in DOMAIN t, IsListen(t, j, r, ls[r]) PROVE t[j].ok
  <2>1. Len(d) + j \in DOMAIN e /\ e[Len(d) + j] = t[j]
    BY DEF Joined
  <2> QED BY <1>2, <2>1 DEF Following, IsListen
<1> QED
  BY <1>1, <1>2 DEF Following

LEMMA FeedConcat ==
  ASSUME NEW d, NEW t, NEW e, Joined(d, t, e), NEW base, NEW new, NEW w, NEW no, NEW more, NEW S,
         Sends(t, e, new, w, no, more, S), Stored(d, base, w, no, S),
         NEW l \in Leaves, NEW B, NEW r, NEW s,
         UpToDate(l, B, d, base[l], r, s, w, no, S),
         base[l] = new[l] \/ \E j \in DOMAIN t : Carries(t[j], l)
  PROVE  UpToDate(l, B, e, new[l], r, s, w, more, S)
<1> DEFINE v == base[l]
           x == new[l]
<1>1. Follows(l, d, t, e, v, x, w, no, more, S)
  BY DEF Follows, Sends, Stored
<1>2. UpToDate(l, B, d, v, r, s, w, no, S)
  OBVIOUS
<1> HIDE DEF v, x
<1>3. UpToDate(l, B, e, x, r, s, w, more, S)
  BY <1>1, <1>2, UpToDateConcat
<1> QED
  BY <1>3 DEF x

LEMMA ServedParts ==
  ASSUME NEW t, NEW acks, NEW w, NEW ls, NEW u, NEW d, NEW on, NEW base, NEW ws, NEW no,
         NEW S, S = DoneBy(t.allWrites, acks, w)
  PROVE  Served(t, acks, w, ls, u, d, on, base, ws, no) <=>
         /\ Books(t.allWrites, acks, w)
         /\ Watching(ls, u, d, on, ws)
         /\ Preceded(t, ls, d)
         /\ Stored(d, base, w, no, S)
         /\ DataSafe(d, w, no, S)
         /\ Feeds(t, ls, u, d, on, base, w, no, S)
         /\ Remembered(t, w, no)
         /\ Grounded(t)
  BY DEF Served

(* Requests rs are sent; a listen to r is as it was, or was not sent yet.  *)
LEMMA WatchingSent ==
  ASSUME NEW ls, NEW u \in Seq(Request), NEW rs \in Seq(Request), NEW d, NEW on, NEW ws,
         Watching(ls, u, d, on, ws), NEW v, on => v = u \o rs, NEW more,
         \A r \in ViewPaths : Following(r, more, v, d, on) => Following(r, ls, u, d, on),
         on => \A r \in ViewPaths : more[r] # 0 =>
           /\ \A j \in DOMAIN rs : ~IsUnlisten(rs, j, r)
           /\ more[r] = ls[r] \/ ~Asked(u, r, more[r])
  PROVE  Watching(more, v, d, on, ws)
<1>1. CASE ~on
  BY <1>1 DEF Watching, Following
<1>2. CASE on
  <2> DEFINE e == u \o rs
  <2>1. Joined(u, rs, e)
    BY ConcatJoins
  <2>2. v = e
    BY <1>2
  <2> HIDE DEF e
  <2>3. /\ Len(u) \in Nat /\ Len(rs) \in Nat /\ Len(e) = Len(u) + Len(rs)
        /\ DOMAIN u = 1 .. Len(u) /\ DOMAIN rs = 1 .. Len(rs) /\ DOMAIN e = 1 .. Len(e)
        /\ \A j \in 1 .. Len(u) : e[j] = u[j]
        /\ \A j \in 1 .. Len(rs) : e[Len(u) + j] = rs[j]
    BY <2>1 DEF Joined
  <2>4. ASSUME NEW r \in ViewPaths, more[r] # 0, NEW j \in DOMAIN e, IsUnlisten(e, j, r)
        PROVE  j \in DOMAIN u /\ IsUnlisten(u, j, r)
    <3>1. CASE j <= Len(u)
      BY <2>3, <2>4, <3>1 DEF IsUnlisten
    <3>2. CASE j > Len(u)
      <4>1. j - Len(u) \in DOMAIN rs /\ Len(u) + (j - Len(u)) = j
        BY <2>3, <3>2
      <4>2. e[j] = rs[j - Len(u)]
        BY <2>3, <4>1
      <4> QED BY <1>2, <2>4, <4>1, <4>2 DEF IsUnlisten
    <3> QED BY <2>3, <3>1, <3>2
  <2>5. ASSUME NEW r \in ViewPaths, Following(r, more, e, d, on)
        PROVE  r \in ws /\ \A j \in DOMAIN e : ~IsUnlisten(e, j, r)
    <3>1. Following(r, ls, u, d, on) /\ more[r] # 0
      BY <2>2, <2>5 DEF Following
    <3> QED BY <2>4, <3>1 DEF Watching
  <2>6. ASSUME NEW r \in ViewPaths, NEW j \in DOMAIN e, NEW k \in DOMAIN e, more[r] # 0,
               IsListen(e, k, r, more[r]), IsUnlisten(e, j, r)
        PROVE  j < k
    <3>1. j \in DOMAIN u /\ IsUnlisten(u, j, r)
      BY <2>4, <2>6
    <3>2. CASE k <= Len(u)
      <4>1. k \in DOMAIN u /\ IsListen(u, k, r, more[r])
        BY <2>3, <2>6, <3>2 DEF IsListen
      <4>2. more[r] = ls[r]
        BY <1>2, <2>6, <4>1, ListenAsked
      <4> QED BY <1>2, <2>6, <3>1, <4>1, <4>2 DEF Watching
    <3>3. CASE k > Len(u)
      BY <2>3, <3>1, <3>3
    <3> QED BY <2>3, <3>2, <3>3
  <2>7. Watching(more, e, d, on, ws)
    BY <2>5, <2>6 DEF Watching
  <2> QED BY <2>2, <2>7
<1>3. on \/ ~on
  OBVIOUS
<1> QED
  BY <1>1, <1>2, <1>3

(* A write is made after those in w.                                       *)
LEMMA NotBeforeWritten ==
  ASSUME NEW v, NEW l, NEW w, NEW more, NEW no, NEW S, S \subseteq DOMAIN w,
         \A i \in DOMAIN w : more[i] = w[i], NotBefore(v, l, w, no, S)
  PROVE  NotBefore(v, l, more, no, S)
  BY DEF NotBefore

LEMMA WrittenMore ==
  ASSUME NEW M, NEW d \in Seq(M), NEW base, NEW w, NEW more, NEW no, NEW S, S \cup PutIds(d) \subseteq DOMAIN w,
         \A i \in DOMAIN w : more[i] = w[i]
  PROVE  /\ Stored(d, base, w, no, S) => Stored(d, base, more, no, S)
         /\ DataSafe(d, w, no, S) => DataSafe(d, more, no, S)
         /\ \A l, B, v, r, s : UpToDate(l, B, d, v, r, s, w, no, S) => UpToDate(l, B, d, v, r, s, more, no, S)
<1>1. \A k \in 0 .. Len(d) : AnsweredBy(d, k, S) \subseteq DOMAIN w
  BY AnsweredAll
<1>2. Len(d) \in 0 .. Len(d) /\ \A k \in DOMAIN d : k \in 0 .. Len(d)
  OBVIOUS
<1>3. Stored(d, base, w, no, S) => Stored(d, base, more, no, S)
  BY <1>1, <1>2, NotBeforeWritten DEF Stored
<1>4. DataSafe(d, w, no, S) => DataSafe(d, more, no, S)
  BY <1>1, <1>2, NotBeforeWritten DEF DataSafe
<1>5. ASSUME NEW l, NEW B, NEW v, NEW r, NEW s, UpToDate(l, B, d, v, r, s, w, no, S)
      PROVE  UpToDate(l, B, d, v, r, s, more, no, S)
  BY <1>1, <1>5, NotBeforeWritten DEF UpToDate
<1> QED
  BY <1>3, <1>4, <1>5

LEMMA AddWriteCovers ==
  ASSUME NEW writes, Compound(writes), NEW node \in WriteNodes, NEW p,
         p \subseteq DOMAIN node \/ HasCompleteWrite(writes, p)
  PROVE  HasCompleteWrite(AddWrite(writes, node), p)
<1>1. CASE HasCompleteWrite(writes, DOMAIN node)
  <2>1. PICK w \in writes :
          /\ DOMAIN node \subseteq DOMAIN w
          /\ AddWrite(writes, node) = (writes \ {w}) \cup {UpdateChild(w, node)}
          /\ DOMAIN UpdateChild(w, node) = DOMAIN w
    BY <1>1, AddWriteInto
  <2>2. CASE p \subseteq DOMAIN node
    BY <2>1, <2>2 DEF HasCompleteWrite, Covering
  <2>3. CASE HasCompleteWrite(writes, p)
    <3>1. PICK x \in writes : p \subseteq DOMAIN x
      BY <2>3 DEF HasCompleteWrite, Covering
    <3> QED BY <2>1, <3>1 DEF HasCompleteWrite, Covering
  <2> QED BY <2>2, <2>3
<1>2. CASE ~HasCompleteWrite(writes, DOMAIN node)
  <2>1. AddWrite(writes, node) = {w \in writes : ~(DOMAIN w \subseteq DOMAIN node)} \cup {node}
    BY <1>2, AddWriteAnew
  <2>2. CASE p \subseteq DOMAIN node
    BY <2>1, <2>2 DEF HasCompleteWrite, Covering
  <2>3. CASE HasCompleteWrite(writes, p)
    <3>1. PICK x \in writes : p \subseteq DOMAIN x
      BY <2>3 DEF HasCompleteWrite, Covering
    <3>2. CASE DOMAIN x \subseteq DOMAIN node
      BY <2>1, <3>1, <3>2 DEF HasCompleteWrite, Covering
    <3>3. CASE ~(DOMAIN x \subseteq DOMAIN node)
      BY <2>1, <3>1, <3>3 DEF HasCompleteWrite, Covering
    <3> QED BY <3>2, <3>3
  <2> QED BY <2>2, <2>3
<1> QED
  BY <1>1, <1>2

(* What was written is in the books.                                       *)
LEMMA IdsWritten ==
  ASSUME IInv
  PROVE  /\ written \in Seq(WritePaths) /\ DOMAIN written = 1 .. Len(written) /\ Len(written) \in Nat
         /\ Ids(allWrites) \subseteq DOMAIN written
         /\ PutIds(up) \subseteq Ids(allWrites) \ Held(putsToAck)
         /\ PutIds(down) \subseteq Ids(allWrites) \ Held(putsToAck)
         /\ DoneBy(allWrites, putsToAck, written) \subseteq DOMAIN written
<1>1. Consistent(Tree, putsToAck, written) /\ PutsOut(allWrites, putsToAck, up, down, connected)
      /\ (~connected => up = <<>> /\ down = <<>>) /\ Others
  BY IInvParts
<1>2. written \in Seq(WritePaths) /\ Ids(allWrites) \subseteq 1 .. Len(written)
  BY <1>1, TreeAt DEF Consistent
<1>3. PutIds(up) \cup PutIds(down) \subseteq Ids(allWrites) \ Held(putsToAck)
  BY <1>1, NoMessages DEF PutsOut, Others
<1> QED
  BY <1>2, <1>3 DEF DoneBy

-----------------------------------------------------------------------------
(* FRepo.set *)

LEMMA SetServed ==
  ASSUME IInv, FInv, NEW p \in WritePaths, NEW remove \in BOOLEAN, Set(p, remove), UNCHANGED troubles
  PROVE  FInv'
<1> DEFINE i == Len(written) + 1
           node == [l \in p |-> IF remove THEN Nil ELSE i]
           u == ApplyUserOverwrite(Tree, i, node)
           rs == <<PutRequest(i)>>
           v == Append(written, p)
           S == DoneBy(allWrites, putsToAck, written)
           record == [id |-> i, node |-> node]
<1>1. /\ i \in 1 .. LastPut /\ written' = v /\ TreeBecomes(u)
      /\ up' = Sent(rs) /\ listens' = listens /\ putsToAck' = putsToAck /\ connected' = connected
      /\ down' = down /\ db' = db /\ watched' = watched /\ denied' = denied
  BY DEF Set, server
<1>2. /\ DOMAIN node = p /\ \A l \in p : node[l] \in {i, Nil}
  OBVIOUS
<1>3. node \in Node(p)
  <2>1. \A l \in p : (IF remove THEN Nil ELSE i) \in Values
    BY <1>1 DEF Values
  <2> HIDE DEF i
  <2> QED BY <2>1 DEF Node
<1>4. /\ Consistent(Tree, putsToAck, written) /\ Sound(Tree) /\ HeldFirst(allWrites, putsToAck)
      /\ up \in Seq(Request) /\ down \in Seq(Message) /\ allWrites \in Seq(Pending)
  BY IInvParts
<1>5. /\ written \in Seq(WritePaths) /\ DOMAIN written = 1 .. Len(written) /\ Len(written) \in Nat
      /\ Ids(allWrites) \subseteq DOMAIN written
      /\ PutIds(down) \subseteq Ids(allWrites) \ Held(putsToAck)
      /\ S \subseteq DOMAIN written
  BY IdsWritten
<1>6. /\ v \in Seq(WritePaths) /\ DOMAIN v = 1 .. i /\ \A k \in DOMAIN written : v[k] = written[k]
      /\ v[i] = p /\ Len(v) = i
  BY <1>5, AppendAt
<1>7. rs \in Seq(Request) /\ DOMAIN rs = {1} /\ rs[1].type = "put"
  <2>1. PutRequest(i) \in Request /\ PutRequest(i).type = "put"
    BY <1>1 DEF PutRequest, Request
  <2> HIDE DEF i
  <2> QED BY <2>1
<1>8. i \notin DOMAIN written /\ \A k \in DOMAIN written : k \in Nat /\ k < i
  BY <1>5
<1>9. i \in Nat /\ DOMAIN v = DOMAIN written \cup {i}
  <2>1. DOMAIN v = 1 .. i /\ i = Len(written) + 1 /\ Len(written) \in Nat
    BY <1>5, <1>6
  <2> HIDE DEF v, i
  <2> QED BY <1>5, <2>1
<1> HIDE DEF rs, v, i, node
<1>10. SetTree(Tree, u, putsToAck, v, i)
  BY <1>1, <1>3, <1>4, ConsistentSet DEF i, v
<1>11. \A j \in Ids(allWrites) : j < i
  BY <1>10, TreeAt DEF SetTree, Below
<1>12. node \in WriteNodes
  BY <1>3 DEF WriteNodes
<1>13. Left(Tree, u, p) /\ WrittenTree(Tree, u, i, node)
  BY <1>1, <1>2, <1>4, <1>11, <1>12, TreeAt, UserOverwriteLeaves, UserOverwriteTree
<1> HIDE DEF u
<1>14. Tree' = u
  BY <1>1, <1>10, TreeNext, ConsistentParts DEF SetTree
<1>15. /\ u.regs = regs /\ u.allWrites = Append(allWrites, record)
       /\ u.visibleWrites = AddWrite(visibleWrites, node)
       /\ Ids(u.allWrites) = Ids(allWrites) \cup {i}
       /\ \A q \in Viewed(regs) : /\ u.views[q].serverFull = views[q].serverFull
                                  /\ u.views[q].server = views[q].server
                                  /\ u.views[q].eventFull => views[q].eventFull \/ q \subseteq p
  BY <1>10, <1>13, TreeAt, ViewedPath DEF SetTree, WrittenTree, Left
<1>16. i \notin Held(putsToAck)
  BY <1>4, <1>5, <1>8 DEF HeldFirst
<1>17. DoneBy(u.allWrites, putsToAck, v) = S
  <2>1. S = DOMAIN written \ (Ids(allWrites) \ Held(putsToAck))
    BY DEF DoneBy
  <2> HIDE DEF S
  <2> QED BY <1>8, <1>9, <1>15, <1>16, <2>1 DEF DoneBy
<1>18. /\ Books(allWrites, putsToAck, written)
       /\ Watching(listens, up, down, connected, watched)
       /\ Preceded(Tree, listens, down)
       /\ Stored(down, db, written, denied, S)
       /\ DataSafe(down, written, denied, S)
       /\ Feeds(Tree, listens, up, down, connected, db, written, denied, S)
       /\ Remembered(Tree, written, denied)
       /\ Grounded(Tree)
  BY ServedParts, TreeAt DEF FInv
<1>19. Books(u.allWrites, putsToAck, v)
  <2> DEFINE allw == u.allWrites
  <2>1. /\ DOMAIN allw = 1 .. Len(allWrites) + 1 /\ DOMAIN allWrites = 1 .. Len(allWrites)
        /\ \A k \in DOMAIN allWrites : allw[k] = allWrites[k]
        /\ allw[Len(allWrites) + 1] = record /\ Len(allWrites) \in Nat
    <3>1. record \in Pending
      BY <1>1, <1>12 DEF Pending
    <3> HIDE DEF record
    <3> QED BY <1>4, <1>15, <3>1, AppendAt
  <2>2. ASSUME NEW k \in DOMAIN allw
        PROVE  /\ DOMAIN allw[k].node = v[allw[k].id]
               /\ \A l \in DOMAIN allw[k].node : allw[k].node[l] \in {allw[k].id, Nil}
    <3>1. CASE k \in DOMAIN allWrites
      <4>1. allWrites[k].id \in DOMAIN written
        BY <1>4, <1>5, <3>1, IdsAt
      <4> QED BY <1>6, <1>18, <2>1, <3>1, <4>1 DEF Books
    <3>2. CASE k = Len(allWrites) + 1
      <4>1. allw[k].id = i /\ allw[k].node = node
        BY <2>1, <3>2
      <4> QED BY <1>2, <1>6, <4>1
    <3> QED BY <2>1, <3>1, <3>2
  <2>3. Len(v) <= LastPut
    BY <1>1, <1>6
  <2>4. Below(S, Ids(allw) \ Held(putsToAck))
    <3>1. Below(S, Ids(allWrites) \ Held(putsToAck))
      BY <1>18 DEF Books
    <3> QED BY <1>5, <1>8, <1>15, <3>1 DEF Below
  <2> QED BY <1>17, <2>2, <2>3, <2>4 DEF Books
<1>20. \A q, s : Asked(up, q, s) => Asked(up', q, s)
  <2>1. CASE connected
    BY <1>1, <1>4, <1>7, <2>1, AskedConcat DEF Sent
  <2>2. CASE ~connected
    BY <1>1, <2>2 DEF Sent
  <2> QED BY <2>1, <2>2
<1>21. \A r : Following(r, listens, up', down, connected) => Following(r, listens, up, down, connected)
  BY <1>20 DEF Following
<1>22. Watching(listens, up', down, connected, watched)
  <2>1. connected => up' = up \o rs
    BY <1>1 DEF Sent
  <2>2. \A r : \A j \in DOMAIN rs : ~IsUnlisten(rs, j, r)
    BY <1>7 DEF IsUnlisten
  <2>3. \A r \in ViewPaths : Following(r, listens, up', down, connected) => Following(r, listens, up, down, connected)
    BY <1>21
  <2>4. Watching(listens, up, down, connected, watched)
    BY <1>18
  <2> DEFINE w == up'
  <2>5. \A r \in ViewPaths : Following(r, listens, w, down, connected) => Following(r, listens, up, down, connected)
    BY <2>3
  <2>6. connected => w = up \o rs
    BY <2>1
  <2> HIDE DEF w
  <2>7. Watching(listens, w, down, connected, watched)
    BY <1>4, <1>7, <2>2, <2>4, <2>5, <2>6, WatchingSent
  <2> QED BY <2>7 DEF w
<1>23. Preceded(u, listens, down)
  BY <1>15, <1>18, TreeAt DEF Preceded
<1>24. /\ S \cup PutIds(down) \subseteq DOMAIN written
  BY <1>5
<1>25. /\ Stored(down, db, v, denied, S) /\ DataSafe(down, v, denied, S)
       /\ \A l, B, x, r, s : UpToDate(l, B, down, x, r, s, written, denied, S)
                               => UpToDate(l, B, down, x, r, s, v, denied, S)
  <2> HIDE DEF S
  <2> QED BY <1>4, <1>6, <1>18, <1>24, WrittenMore
<1>26. Feeds(u, listens, up', down, connected, db, v, denied, S)
  <2>1. \A r, l : Base(u, r, l) = Base(Tree, r, l)
    BY <1>15, TreeAt DEF Base
  <2> HIDE DEF S
  <2> QED BY <1>18, <1>21, <1>25, <2>1 DEF Feeds
<1>27. Remembered(u, v, denied)
  <2>1. DOMAIN v \ Ids(u.allWrites) = DOMAIN written \ Ids(allWrites)
    BY <1>8, <1>9, <1>15
  <2>2. ASSUME NEW q \in Viewed(regs), u.views[q].serverFull, NEW l \in q
        PROVE  NotBefore(u.views[q].server[l], l, v, denied, DOMAIN v \ Ids(u.allWrites))
    <3>1. NotBefore(views[q].server[l], l, written, denied, DOMAIN written \ Ids(allWrites))
      BY <1>15, <1>18, <2>2, TreeAt DEF Remembered
    <3> QED BY <1>6, <1>15, <2>1, <3>1, NotBeforeWritten
  <2> QED BY <1>15, <2>2 DEF Remembered
<1>28. Grounded(u)
  <2>1. Compound(visibleWrites)
    BY <1>4, TreeAt DEF Sound, WellFormed
  <2>2. ASSUME NEW q \in Viewed(regs), u.views[q].eventFull
        PROVE  u.views[q].serverFull \/ HasCompleteWrite(u.visibleWrites, q)
    <3>1. views[q].serverFull \/ HasCompleteWrite(visibleWrites, q) \/ q \subseteq p
      BY <1>15, <1>18, <2>2, TreeAt DEF Grounded
    <3> QED BY <1>2, <1>12, <1>15, <2>1, <3>1, AddWriteCovers
  <2> QED BY <1>15, <2>2 DEF Grounded
<1> HIDE DEF S
<1>29. Served(u, putsToAck, v, listens, up', down, connected, db, watched, denied)
  BY <1>17, <1>19, <1>22, <1>23, <1>25, <1>26, <1>27, <1>28 DEF Served
<1> QED
  BY <1>1, <1>14, <1>29 DEF FInv

-----------------------------------------------------------------------------
(* Views come and go *)

(* The views of u are those of t, or copies of what one above them has.    *)
Copies(t, u) ==
  /\ u.allWrites = t.allWrites /\ u.visibleWrites = t.visibleWrites
  /\ \A p \in Viewed(u.regs) \cap Viewed(t.regs) : u.views[p] = t.views[p]
  /\ \A p \in Viewed(u.regs) \ Viewed(t.regs) : Viewed(t.regs) \subseteq Viewed(u.regs) /\ Copied(t, u, p)

LEMMA CopiesBase ==
  ASSUME NEW t, NEW u, Copies(t, u), NEW r \in Roots(u.regs), NEW l
  PROVE  Base(u, r, l) \subseteq Base(t, r, l)
<1> SUFFICES ASSUME NEW p \in Viewed(u.regs), p \subseteq r, l \in p, u.views[p].serverFull
             PROVE  u.views[p].server[l] \in Base(t, r, l)
  BY DEF Base
<1>1. CASE p \in Viewed(t.regs)
  BY <1>1 DEF Copies, Base
<1>2. CASE p \notin Viewed(t.regs)
  <2>1. Viewed(t.regs) \subseteq Viewed(u.regs) /\ Copied(t, u, p)
    BY <1>2 DEF Copies
  <2>2. PICK q \in Viewed(t.regs) : /\ p \subseteq q /\ t.views[q].serverFull
                                    /\ \A x \in p : u.views[p].server[x] = t.views[q].server[x]
    BY <2>1 DEF Copied
  <2>3. q \subseteq r
    <3>1. q \in Viewed(u.regs) /\ r \in Viewed(u.regs) /\ q \in Paths /\ r \in Paths /\ l \in q /\ l \in r
      BY <2>1, <2>2, ViewedPath DEF Roots
    <3>2. q \subseteq r \/ r \subseteq q
      BY <3>1, PathFacts
    <3>3. ASSUME r \subseteq q, r # q PROVE FALSE
      BY <3>1, <3>3 DEF Roots, CoveredBy
    <3> QED BY <3>2, <3>3
  <2> QED BY <2>2, <2>3 DEF Base
<1> QED
  BY <1>1, <1>2

LEMMA CopiesRemembered ==
  ASSUME NEW t, NEW u, Copies(t, u), NEW w, NEW no, Remembered(t, w, no)
  PROVE  Remembered(u, w, no)
<1> SUFFICES ASSUME NEW p \in Viewed(u.regs), u.views[p].serverFull, NEW l \in p
             PROVE  NotBefore(u.views[p].server[l], l, w, no, DOMAIN w \ Ids(u.allWrites))
  BY DEF Remembered
<1>1. u.allWrites = t.allWrites
  BY DEF Copies
<1>2. CASE p \in Viewed(t.regs)
  BY <1>1, <1>2 DEF Copies, Remembered
<1>3. CASE p \notin Viewed(t.regs)
  <2>1. PICK q \in Viewed(t.regs) : /\ p \subseteq q /\ t.views[q].serverFull
                                    /\ \A x \in p : u.views[p].server[x] = t.views[q].server[x]
    BY <1>3 DEF Copies, Copied
  <2>2. l \in q
    BY <2>1
  <2> QED BY <1>1, <2>1, <2>2 DEF Remembered
<1> QED
  BY <1>2, <1>3

LEMMA CopiesGrounded ==
  ASSUME NEW t, NEW u, Copies(t, u), Grounded(t)
  PROVE  Grounded(u)
  BY DEF Copies, Copied, Grounded

LEMMA CopiesPreceded ==
  ASSUME NEW t, NEW u, Copies(t, u), Filled(u), NEW ls, NEW more, NEW n, NEW m,
         Listening(ls, n, Roots(t.regs)), Listening(more, m, Roots(u.regs)),
         NEW d \in Seq(Message), Preceded(t, ls, d),
         \A r \in ViewPaths : \A k \in DOMAIN d : IsListen(d, k, r, more[r]) /\ more[r] # 0 => more[r] = ls[r]
  PROVE  Preceded(u, more, d)
<1> SUFFICES ASSUME NEW k \in DOMAIN d, d[k].type = "listen", d[k].ok, k = 1,
                    more[d[k].path] = d[k].spec, NEW p \in Viewed(u.regs), p \subseteq d[k].path
             PROVE  u.views[p].serverFull
  BY DEF Preceded
<1> DEFINE r == d[k].path
<1>1. r \in ViewPaths /\ d[k].spec # 0
  <2>1. d[k] \in Message
    OBVIOUS
  <2>2. d[k].path \in ViewPaths /\ d[k].spec \in 1 .. MaxListens
    BY <2>1, MessageFacts
  <2> QED BY <2>2, BoundsAssumption
<1>2. more[r] = ls[r] /\ ls[r] # 0
  BY <1>1 DEF IsListen
<1>3. r \in Roots(t.regs) /\ r \in Roots(u.regs)
  BY <1>1, <1>2 DEF Listening
<1>4. r \in Viewed(t.regs) /\ r \in Viewed(u.regs)
  BY <1>3 DEF Roots
<1>5. t.views[r].serverFull
  BY <1>2, <1>4 DEF Preceded
<1>6. u.views[r].serverFull
  BY <1>4, <1>5 DEF Copies
<1> QED
  BY <1>4, <1>6 DEF Filled

(* Listens are as they were, or are asked for and nothing has been said of *)
(* them.                                                                   *)
Renews(more, ls, u, v, d, on) ==
  /\ \A r \in ViewPaths : more[r] # 0 => more[r] = ls[r] \/
       /\ on => Asked(v, r, more[r]) /\ ~Asked(u, r, more[r])
       /\ ~Asked(d, r, more[r])
  /\ \A q, s : Asked(u, q, s) => Asked(v, q, s)

LEMMA UpToDateLess ==
  ASSUME NEW l, NEW B, NEW C, C \subseteq B, NEW d, NEW v, NEW r, NEW s, NEW w, NEW no, NEW S,
         UpToDate(l, B, d, v, r, s, w, no, S)
  PROVE  UpToDate(l, C, d, v, r, s, w, no, S)
<1>1. \A k, x : Sees(d, l, C, k, x) => Sees(d, l, B, k, x)
  BY DEF Sees
<1> QED
  BY <1>1 DEF UpToDate

LEMMA ServedRelistened ==
  ASSUME NEW t, NEW acks, NEW w, NEW ls, NEW u \in Seq(Request), NEW d \in Seq(Message), NEW on,
         NEW base, NEW ws, NEW no, Served(t, acks, w, ls, u, d, on, base, ws, no),
         NEW new, Copies(t, new), Filled(new), NEW more, NEW n, NEW m,
         Listening(ls, n, Roots(t.regs)), Listening(more, m, Roots(new.regs)),
         NEW rs \in Seq(Request), NEW v, on => v = u \o rs, Renews(more, ls, u, v, d, on),
         on => \A r \in ViewPaths : more[r] # 0 => \A j \in DOMAIN rs : ~IsUnlisten(rs, j, r)
  PROVE  Served(new, acks, w, more, v, d, on, base, ws, no)
<1> DEFINE S == DoneBy(t.allWrites, acks, w)
<1>1. /\ Books(t.allWrites, acks, w)
      /\ Watching(ls, u, d, on, ws)
      /\ Preceded(t, ls, d)
      /\ Stored(d, base, w, no, S)
      /\ DataSafe(d, w, no, S)
      /\ Feeds(t, ls, u, d, on, base, w, no, S)
      /\ Remembered(t, w, no)
      /\ Grounded(t)
  BY ServedParts
<1>2. new.allWrites = t.allWrites
  BY DEF Copies
<1>3. DoneBy(new.allWrites, acks, w) = S
  BY <1>2
<1> HIDE DEF S
<1>4. ASSUME NEW r \in ViewPaths, Following(r, more, v, d, on)
      PROVE  /\ more[r] = ls[r] /\ Following(r, ls, u, d, on) /\ r \in Roots(new.regs)
  <2>1. on /\ more[r] # 0 /\ ~Asked(v, r, more[r])
    BY <1>4 DEF Following
  <2>2. more[r] = ls[r]
    BY <2>1 DEF Renews
  <2>3. ~Asked(u, r, ls[r])
    BY <2>1, <2>2 DEF Renews
  <2>4. r \in Roots(new.regs)
    BY <2>1 DEF Listening
  <2> QED BY <1>4, <2>1, <2>2, <2>3, <2>4 DEF Following
<1>5. Watching(more, v, d, on, ws)
  <2>1. \A r \in ViewPaths : Following(r, more, v, d, on) => Following(r, ls, u, d, on)
    BY <1>4
  <2>2. on => \A r \in ViewPaths : more[r] # 0 =>
          /\ \A j \in DOMAIN rs : ~IsUnlisten(rs, j, r)
          /\ more[r] = ls[r] \/ ~Asked(u, r, more[r])
    BY DEF Renews
  <2> QED BY <1>1, <2>1, <2>2, WatchingSent
<1>6. Preceded(new, more, d)
  <2>1. \A r \in ViewPaths : \A k \in DOMAIN d : IsListen(d, k, r, more[r]) /\ more[r] # 0 => more[r] = ls[r]
    BY ListenAsked DEF Renews
  <2> QED BY <1>1, <2>1, CopiesPreceded
<1>7. Feeds(new, more, v, d, on, base, w, no, S)
  <2>1. ASSUME NEW r \in ViewPaths, NEW l, Following(r, more, v, d, on), l \in r
        PROVE  UpToDate(l, Base(new, r, l), d, base[l], r, more[r], w, no, S)
    <3>1. more[r] = ls[r] /\ Following(r, ls, u, d, on) /\ Base(new, r, l) \subseteq Base(t, r, l)
      BY <1>4, <2>1, CopiesBase
    <3>2. UpToDate(l, Base(t, r, l), d, base[l], r, ls[r], w, no, S)
      BY <1>1, <2>1, <3>1 DEF Feeds
    <3> QED BY <3>1, <3>2, UpToDateLess
  <2> QED BY <2>1 DEF Feeds
<1>8. Remembered(new, w, no) /\ Grounded(new)
  BY <1>1, CopiesRemembered, CopiesGrounded
<1> QED
  BY <1>1, <1>2, <1>3, <1>5, <1>6, <1>7, <1>8 DEF Served

(* Listens are started and stopped, for the roots. *)
Starting(ps, stopped, qs, rs, roots) ==
  /\ ps \in Seq(ViewPaths) /\ \A j, k \in DOMAIN ps : ps[j] = ps[k] => j = k
  /\ Started(ps, stopped) /\ qs \in Seq(ViewPaths)
  /\ rs = ListenRequests(ps) \o UnlistenRequests(qs) \/ rs = ListenRequests(ps)
  /\ up' = Sent(rs) /\ \A k \in DOMAIN qs : listens'[qs[k]] = 0
  /\ roots = (Roots(regs) \ stopped) \cup {ps[k] : k \in DOMAIN ps}

LEMMA RelistenServed ==
  ASSUME IInv, FInv, NEW u, Copies(Tree, u), Filled(u),
         NEW ps, NEW stopped, NEW qs, NEW rs, Starting(ps, stopped, qs, rs, Roots(u.regs))
  PROVE  Served(u, putsToAck, written, listens', up', down, connected, db, watched, denied)
<1> DEFINE n == listenCalls
           more == listens'
           v == up'
<1>0. /\ ps \in Seq(ViewPaths) /\ \A j, k \in DOMAIN ps : ps[j] = ps[k] => j = k
      /\ Started(ps, stopped) /\ qs \in Seq(ViewPaths)
      /\ rs = ListenRequests(ps) \o UnlistenRequests(qs) \/ rs = ListenRequests(ps)
      /\ up' = Sent(rs) /\ \A k \in DOMAIN qs : listens'[qs[k]] = 0
      /\ Roots(u.regs) = (Roots(regs) \ stopped) \cup {ps[k] : k \in DOMAIN ps}
  BY DEF Starting
<1>1. /\ Listening(listens, n, Roots(regs)) /\ n \in Nat
      /\ Lines(up, down, n, unackedListensCount) /\ up \in Seq(Request) /\ down \in Seq(Message)
  BY IInvParts
<1>2. /\ n + Len(ps) <= MaxListens /\ more = ListensAfter(listens, n, ps, stopped)
  BY <1>0 DEF Started, ListensAfter
<1>3. Relistens(ps, stopped, rs)
  BY <1>0, ListensSent
<1>4. /\ Listening(more, listenCalls', Roots(u.regs))
      /\ \A q \in ViewPaths : (\A k \in DOMAIN ps : ps[k] # q) =>
           more[q] = IF q \in stopped THEN 0 ELSE listens[q]
      /\ connected => \A k \in DOMAIN ps : Asked(v, ps[k], more[ps[k]])
      /\ \A q, s : Asked(up, q, s) => Asked(v, q, s)
  BY <1>0, <1>3 DEF Relistens, LinesOut
<1>5. NewListens(more, listens, n, Roots(regs), ps, stopped)
  <2> HIDE DEF more, n
  <2> QED BY <1>0, <1>1, <1>2, StartedListens
<1>6. \A k \in DOMAIN ps : more[ps[k]] = n + k /\ n + k > n
  BY <1>0, <1>1, <1>5 DEF NewListens
<1>7. \A q, s : Asked(up, q, s) \/ Asked(down, q, s) => s \in 1 .. n
  BY <1>1 DEF Asked, Specs, Lines
<1> HIDE DEF more, v, n
<1>8. Renews(more, listens, up, v, down, connected)
  <2>1. ASSUME NEW r \in ViewPaths, more[r] # 0, more[r] # listens[r]
        PROVE  /\ connected => Asked(v, r, more[r]) /\ ~Asked(up, r, more[r])
               /\ ~Asked(down, r, more[r])
    <3>1. PICK k \in DOMAIN ps : ps[k] = r
      BY <1>4, <2>1
    <3>2. more[r] \notin 1 .. n
      BY <1>1, <1>6, <3>1
    <3> QED BY <1>4, <1>7, <3>1, <3>2
  <2> QED BY <1>4, <2>1 DEF Renews
<1>9. connected => v = up \o rs
  BY <1>0 DEF Sent, v
<1>10. rs \in Seq(Request) /\ \A j \in DOMAIN rs : rs[j].type = "unlisten" =>
         \E k \in DOMAIN qs : rs[j].path = qs[k]
  <2>1. /\ Batch(ListenRequests(ps), n, Len(ps)) /\ Batch(UnlistenRequests(qs), n, 0)
    BY <1>0, <1>1, <1>2, ListenBatch, UnlistenBatch DEF n
  <2> DEFINE a == ListenRequests(ps)
             b == UnlistenRequests(qs)
  <2>2. a \in Seq(Request) /\ b \in Seq(Request)
    BY <2>1 DEF Batch
  <2>3. \A j \in DOMAIN a : a[j].type = "listen"
    BY DEF ListenRequests, ListenRequest
  <2>4. DOMAIN b = DOMAIN qs /\ \A j \in DOMAIN b : b[j].path = qs[j]
    BY DEF UnlistenRequests, UnlistenRequest
  <2>5. rs = a \o b \/ rs = a
    BY <1>0
  <2> HIDE DEF a, b
  <2>6. CASE rs = a
    BY <2>2, <2>3, <2>6
  <2>7. CASE rs = a \o b
    <3>1. Joined(a, b, rs) /\ rs \in Seq(Request)
      BY <2>2, <2>7, ConcatJoins
    <3>2. ASSUME NEW j \in DOMAIN rs, rs[j].type = "unlisten"
          PROVE  \E k \in DOMAIN qs : rs[j].path = qs[k]
      <4>1. CASE j <= Len(a)
        BY <2>3, <3>1, <3>2, <4>1 DEF Joined
      <4>2. CASE j > Len(a)
        <5>1. j - Len(a) \in DOMAIN b /\ Len(a) + (j - Len(a)) = j
          BY <3>1, <4>2 DEF Joined
        <5>2. rs[j] = b[j - Len(a)]
          BY <3>1, <5>1 DEF Joined
        <5> QED BY <2>4, <5>1, <5>2
      <4> QED BY <3>1, <4>1, <4>2 DEF Joined
    <3> QED BY <3>1, <3>2
  <2> QED BY <2>5, <2>6, <2>7
<1>11. connected => \A r \in ViewPaths : more[r] # 0 => \A j \in DOMAIN rs : ~IsUnlisten(rs, j, r)
  BY <1>0, <1>10 DEF IsUnlisten, more
<1>12. Served(Tree, putsToAck, written, listens, up, down, connected, db, watched, denied)
  BY DEF FInv
<1>13. Listening(listens, n, Roots(Tree.regs))
  BY <1>1, TreeAt
<1>14. Served(u, putsToAck, written, more, v, down, connected, db, watched, denied)
  BY <1>1, <1>4, <1>8, <1>9, <1>10, <1>11, <1>12, <1>13, ServedRelistened
<1> QED
  BY <1>14 DEF more, v

(* Listens stay what they are. *)
LEMMA StillServed ==
  ASSUME IInv, FInv, NEW u, Copies(Tree, u), Filled(u), Roots(u.regs) = Roots(regs)
  PROVE  Served(u, putsToAck, written, listens, up, down, connected, db, watched, denied)
<1>1. /\ Listening(listens, listenCalls, Roots(Tree.regs)) /\ Listening(listens, listenCalls, Roots(u.regs))
      /\ up \in Seq(Request) /\ down \in Seq(Message)
  BY IInvParts, TreeAt
<1>2. Served(Tree, putsToAck, written, listens, up, down, connected, db, watched, denied)
  BY DEF FInv
<1> DEFINE rs == <<>>
<1>3. rs \in Seq(Request) /\ DOMAIN rs = {} /\ up = up \o rs
  BY <1>1
<1> HIDE DEF rs
<1>4. Renews(listens, listens, up, up, down, connected)
  BY DEF Renews
<1> QED
  BY <1>1, <1>2, <1>3, <1>4, ServedRelistened

LEMMA TreeStays ==
  ASSUME NEW u, Sound(u), TreeBecomes(u)
  PROVE  Tree' = u
  BY TreeNext DEF Sound, WellFormed

(* addEventRegistration. *)
LEMMA ObserveServed ==
  ASSUME IInv, FInv, NEW p \in ViewPaths, NEW kind \in Kinds, Observe(p, kind), UNCHANGED troubles
  PROVE  FInv'
<1> DEFINE u == Registered(Tree, p, kind)
           below == DistinctBelow(regs, p)
<1>1. TreeBecomes(u) /\ UNCHANGED <<putsToAck, written, connected, down, server>>
  BY DEF Observe
<1>2. Sound(Tree) /\ regs \in [ViewPaths -> SUBSET Kinds]
  BY IInvParts
<1>3. RegisteredTree(Tree, u, p, kind)
  BY <1>2, RegisteredAt
<1>4. p \notin Viewed(Tree.regs) => Copied(Tree, u, p)
  <2>1. u = Registered(Tree, p, kind)
    OBVIOUS
  <2> HIDE DEF u
  <2> QED BY <1>2, <2>1, RegisteredCopies
<1> HIDE DEF u
<1>5. /\ Sound(u) /\ u.allWrites = Tree.allWrites /\ u.visibleWrites = Tree.visibleWrites
      /\ u.regs = [regs EXCEPT ![p] = @ \cup {kind}]
      /\ \A q \in Viewed(Tree.regs) : u.views[q] = Tree.views[q]
  BY <1>3, TreeAt DEF RegisteredTree
<1>6. Filled(u) /\ Tree' = u
  BY <1>1, <1>5, TreeStays DEF Sound
<1>7. \A q \in ViewPaths : u.regs[q] # {} <=> regs[q] # {} \/ q = p
  BY <1>2, <1>5
<1>8. Viewed(u.regs) = Viewed(Tree.regs) \cup {p}
  BY <1>7, TreeAt DEF Viewed
<1>9. Copies(Tree, u)
  BY <1>4, <1>5, <1>8 DEF Copies
<1>10. CASE regs[p] = {} /\ CoveredBy(regs, p) = {}
  <2>1. /\ Started(<<p>>, below)
        /\ \E qs \in SetToSeqs(below) :
             up' = Sent(ListenRequests(<<p>>) \o UnlistenRequests(qs))
    BY <1>10 DEF Observe
  <2>2. Roots(u.regs) = (Roots(regs) \ below) \cup {p} /\ below \subseteq ViewPaths \ {p}
    <3>1. RootAdded(regs, p, u.regs)
      BY <1>7, <1>10, AddRoot
    <3> QED BY <1>10, <3>1 DEF RootAdded
  <2> HIDE DEF below
  <2>3. IsFiniteSet(below)
    <3>1. below \subseteq Paths
      BY <2>2, PathFacts
    <3> QED BY <3>1, PathsAssumption, FS_Subset
  <2>4. PICK qs \in SetToSeqs(below) : up' = Sent(ListenRequests(<<p>>) \o UnlistenRequests(qs))
    BY <2>1
  <2>5. qs \in Seq(below) /\ \A k \in DOMAIN qs : qs[k] \in below
    BY <2>3, InOrderOf
  <2>6. qs \in Seq(ViewPaths)
    <3>1. below \subseteq ViewPaths
      BY <2>2
    <3> QED BY <2>5, <3>1
  <2> DEFINE ps == <<p>>
             rs == ListenRequests(ps) \o UnlistenRequests(qs)
  <2>7. ps \in Seq(ViewPaths) /\ DOMAIN ps = {1} /\ ps[1] = p
    OBVIOUS
  <2>8. Started(ps, below) /\ up' = Sent(rs)
    BY <2>1, <2>4
  <2>9. rs = ListenRequests(ps) \o UnlistenRequests(qs)
    OBVIOUS
  <2> HIDE DEF ps, rs
  <2>10. Relistens(ps, below, rs)
    BY <2>6, <2>7, <2>8, <2>9, ListensSent
  <2>11. \A k \in DOMAIN qs : listens'[qs[k]] = 0
    BY <2>2, <2>5, <2>7, <2>10 DEF Relistens
  <2>12. /\ \A j, k \in DOMAIN ps : ps[j] = ps[k] => j = k
         /\ Roots(u.regs) = (Roots(regs) \ below) \cup {ps[k] : k \in DOMAIN ps}
    BY <2>2, <2>7
  <2>13. Starting(ps, below, qs, rs, Roots(u.regs))
    BY <2>6, <2>7, <2>8, <2>9, <2>11, <2>12 DEF Starting
  <2>14. Served(u, putsToAck, written, listens', up', down, connected, db, watched, denied)
    BY <1>6, <1>9, <2>13, RelistenServed
  <2> QED BY <1>1, <1>6, <2>14 DEF FInv, server
<1>11. CASE ~(regs[p] = {} /\ CoveredBy(regs, p) = {})
  <2>1. listens' = listens /\ up' = up
    BY <1>11 DEF Observe
  <2>2. Roots(u.regs) = Roots(regs)
    <3>1. CASE regs[p] = {}
      <4>1. RootAdded(regs, p, u.regs)
        BY <1>7, <3>1, AddRoot
      <4> QED BY <1>11, <3>1, <4>1 DEF RootAdded
    <3>2. CASE regs[p] # {}
      <4>1. Viewed(u.regs) = Viewed(regs)
        BY <1>7, <3>2 DEF Viewed
      <4> QED BY <4>1 DEF Roots, CoveredBy
    <3> QED BY <3>1, <3>2
  <2>3. Served(u, putsToAck, written, listens, up, down, connected, db, watched, denied)
    BY <1>6, <1>9, <2>2, StillServed
  <2> QED BY <1>1, <1>6, <2>1, <2>3 DEF FInv, server
<1> QED
  BY <1>10, <1>11

(* The view at p is gone; those below are listened to instead. *)
LEMMA EndServed ==
  ASSUME IInv, FInv, NEW p \in Viewed(regs), CoveredBy(regs, p) = {}, NEW kinds \in SUBSET Kinds,
         NEW u, UnregisteredTree(Tree, u, p, kinds), u.regs[p] = {},
         NEW ps \in SetToSeqs(StartBelow(u, p)), Started(ps, {p}),
         NEW rs, rs = ListenRequests(ps) \o UnlistenRequests(<<p>>) \/ rs = ListenRequests(ps),
         up' = Sent(rs)
  PROVE  /\ Served(u, putsToAck, written, listens', up', down, connected, db, watched, denied)
         /\ listens'[p] = 0
<1> DEFINE below == StartBelow(u, p)
<1>1. regs \in [ViewPaths -> SUBSET Kinds] /\ p \in ViewPaths
  BY IInvParts DEF Viewed
<1>2. /\ Sound(u) /\ u.allWrites = Tree.allWrites /\ u.visibleWrites = Tree.visibleWrites
      /\ u.regs = [regs EXCEPT ![p] = @ \ kinds]
      /\ \A q \in Viewed(u.regs) : q \in Viewed(Tree.regs) /\ u.views[q] = Tree.views[q]
  BY TreeAt DEF UnregisteredTree
<1>3. \A q \in ViewPaths : u.regs[q] = IF q = p THEN {} ELSE regs[q]
  BY <1>1, <1>2
<1>4. u.regs \in [ViewPaths -> SUBSET Kinds]
  BY <1>1, <1>2
<1>5. /\ Roots(u.regs) = (Roots(regs) \ {p}) \cup below
      /\ below \subseteq ViewPaths \ {p}
  BY <1>1, <1>3, <1>4, EndRoot DEF StartBelow
<1>6. ps \in SetToSeqs(below)
  OBVIOUS
<1> HIDE DEF below
<1>7. IsFiniteSet(below)
  <2>1. below \subseteq Paths
    BY <1>5, PathFacts
  <2> QED BY <2>1, PathsAssumption, FS_Subset
<1>8. /\ ps \in Seq(below)
      /\ \A k \in DOMAIN ps : ps[k] \in below
      /\ \A x \in below : \E k \in DOMAIN ps : ps[k] = x
      /\ \A j, k \in DOMAIN ps : ps[j] = ps[k] => j = k
  BY <1>6, <1>7, InOrderOf
<1>9. ps \in Seq(ViewPaths) /\ below = {ps[k] : k \in DOMAIN ps}
  <2>1. below \subseteq ViewPaths
    BY <1>5
  <2>2. ps \in Seq(ViewPaths)
    BY <1>8, <2>1
  <2>3. below = {ps[k] : k \in DOMAIN ps}
    BY <1>8
  <2> QED BY <2>2, <2>3
<1>10. Copies(Tree, u) /\ Filled(u)
  BY <1>2 DEF Copies, Sound
<1> DEFINE qs == <<p>>
<1>11. qs \in Seq(ViewPaths) /\ DOMAIN qs = {1} /\ qs[1] = p
  BY <1>1
<1>12. rs = ListenRequests(ps) \o UnlistenRequests(qs) \/ rs = ListenRequests(ps)
  OBVIOUS
<1> HIDE DEF qs
<1>13. Relistens(ps, {p}, rs)
  BY <1>8, <1>9, <1>11, <1>12, ListensSent
<1>14. listens'[p] = 0
  BY <1>1, <1>5, <1>8, <1>13 DEF Relistens
<1>15. \A k \in DOMAIN qs : listens'[qs[k]] = 0
  BY <1>11, <1>14
<1>16. Roots(u.regs) = (Roots(regs) \ {p}) \cup {ps[k] : k \in DOMAIN ps}
  BY <1>5, <1>9
<1> DEFINE stopped == {p}
<1>17. Starting(ps, stopped, qs, rs, Roots(u.regs))
  BY <1>8, <1>9, <1>11, <1>12, <1>15, <1>16 DEF Starting
<1> HIDE DEF stopped
<1>18. Served(u, putsToAck, written, listens', up', down, connected, db, watched, denied)
  BY <1>10, <1>17, RelistenServed
<1> QED
  BY <1>14, <1>18

(* removeEventRegistration. *)
LEMMA RemoveObserverServed ==
  ASSUME IInv, FInv, NEW p \in ViewPaths, NEW kind \in Kinds, RemoveObserver(p, kind), UNCHANGED troubles
  PROVE  FInv'
<1> DEFINE u == Unregistered(Tree, p, {kind})
<1>1. /\ kind \in regs[p] /\ TreeBecomes(u)
      /\ UNCHANGED <<putsToAck, observeCalls, written, connected, down, server>>
  BY DEF RemoveObserver
<1>2. Sound(Tree) /\ regs \in [ViewPaths -> SUBSET Kinds]
  BY IInvParts
<1>3. UnregisteredTree(Tree, u, p, {kind})
  BY <1>2, UnregisteredAt
<1>4. u.regs[p] = {} /\ CoveredBy(regs, p) = {} =>
        \E ps \in SetToSeqs(StartBelow(u, p)) :
          /\ Started(ps, {p})
          /\ up' = Sent(ListenRequests(ps) \o UnlistenRequests(<<p>>))
  BY DEF RemoveObserver
<1>5. ~(u.regs[p] = {} /\ CoveredBy(regs, p) = {}) => listens' = listens /\ up' = up
  BY DEF RemoveObserver
<1> HIDE DEF u
<1>6. /\ Sound(u) /\ u.allWrites = Tree.allWrites /\ u.visibleWrites = Tree.visibleWrites
      /\ u.regs = [regs EXCEPT ![p] = @ \ {kind}]
      /\ \A q \in Viewed(u.regs) : q \in Viewed(Tree.regs) /\ u.views[q] = Tree.views[q]
  BY <1>3, TreeAt DEF UnregisteredTree
<1>7. Copies(Tree, u) /\ Filled(u) /\ Tree' = u
  BY <1>1, <1>6, TreeStays DEF Copies, Sound
<1>8. p \in Viewed(regs)
  BY <1>1 DEF Viewed
<1>9. CASE u.regs[p] = {} /\ CoveredBy(regs, p) = {}
  <2>1. PICK ps \in SetToSeqs(StartBelow(u, p)) :
          /\ Started(ps, {p})
          /\ up' = Sent(ListenRequests(ps) \o UnlistenRequests(<<p>>))
    BY <1>4, <1>9
  <2> DEFINE rs == ListenRequests(ps) \o UnlistenRequests(<<p>>)
  <2>2. up' = Sent(rs) /\ rs = ListenRequests(ps) \o UnlistenRequests(<<p>>)
    BY <2>1
  <2> HIDE DEF rs
  <2>3. Served(u, putsToAck, written, listens', up', down, connected, db, watched, denied)
    BY <1>3, <1>8, <1>9, <2>1, <2>2, EndServed
  <2> QED BY <1>1, <1>7, <2>3 DEF FInv, server
<1>10. CASE ~(u.regs[p] = {} /\ CoveredBy(regs, p) = {})
  <2>1. Roots(u.regs) = Roots(regs)
    <3>1. CASE u.regs[p] = {}
      <4>1. \A q \in ViewPaths : u.regs[q] = IF q = p THEN {} ELSE regs[q]
        BY <1>2, <1>6, <3>1
      <4>2. u.regs \in [ViewPaths -> SUBSET Kinds]
        BY <1>2, <1>6
      <4> QED BY <1>2, <1>8, <1>10, <3>1, <4>1, <4>2, EndRoot
    <3>2. CASE u.regs[p] # {}
      <4>1. \A q \in ViewPaths : u.regs[q] # {} <=> regs[q] # {}
        BY <1>1, <1>2, <1>6, <3>2
      <4>2. Viewed(u.regs) = Viewed(regs)
        BY <4>1 DEF Viewed
      <4> QED BY <4>2 DEF Roots, CoveredBy
    <3> QED BY <3>1, <3>2
  <2>2. Served(u, putsToAck, written, listens, up, down, connected, db, watched, denied)
    BY <1>7, <2>1, StillServed
  <2> QED BY <1>1, <1>5, <1>7, <1>10, <2>2 DEF FInv, server
<1> QED
  BY <1>9, <1>10

(* The head of d is received, by which t becomes u.                        *)
ReceivedFrom(t, u, d, ls) ==
  /\ \A r \in ViewPaths : IsListen(d, 1, r, ls[r]) => d[1].ok
  /\ \A p \in Viewed(u.regs) : d[1].type = "data" /\ p \subseteq DOMAIN d[1].node => u.views[p].serverFull
  /\ \A r, l : Base(u, r, l) \subseteq IF Carries(d[1], l) THEN {d[1].node[l]} ELSE Base(t, r, l)

LEMMA ServedReceived ==
  ASSUME NEW t, NEW acks, NEW w, NEW ls, NEW v, NEW d \in Seq(Message), d # <<>>, NEW on,
         NEW base, NEW ws, NEW no, Served(t, acks, w, ls, v, d, on, base, ws, no),
         NEW u, ReceivedFrom(t, u, d, ls), Remembered(u, w, no), Grounded(u),
         NEW more, Books(u.allWrites, more, w),
         NEW T, T = DoneBy(u.allWrites, more, w),
         T \subseteq IF d[1].type = "put" THEN DoneBy(t.allWrites, acks, w) \cup {d[1].id}
                     ELSE DoneBy(t.allWrites, acks, w)
  PROVE  Served(u, more, w, ls, v, Tail(d), on, base, ws, no)
<1> DEFINE S == DoneBy(t.allWrites, acks, w)
<1>1. /\ Watching(ls, v, d, on, ws)
      /\ Preceded(t, ls, d)
      /\ Stored(d, base, w, no, S)
      /\ DataSafe(d, w, no, S)
      /\ Feeds(t, ls, v, d, on, base, w, no, S)
  BY ServedParts
<1>2. T \subseteq IF d[1].type = "put" THEN S \cup {d[1].id} ELSE S
  OBVIOUS
<1> HIDE DEF S
<1>3. /\ \A r \in ViewPaths : IsListen(d, 1, r, ls[r]) => d[1].ok
      /\ \A p \in Viewed(u.regs) : d[1].type = "data" /\ p \subseteq DOMAIN d[1].node => u.views[p].serverFull
      /\ \A r, l : Base(u, r, l) \subseteq IF Carries(d[1], l) THEN {d[1].node[l]} ELSE Base(t, r, l)
  BY DEF ReceivedFrom
<1>4. Stored(Tail(d), base, w, no, T) /\ DataSafe(Tail(d), w, no, T)
  BY <1>1, <1>2, StoredTail, DataSafeTail
<1>5. ASSUME NEW r \in ViewPaths, Following(r, ls, v, Tail(d), on)
      PROVE  Following(r, ls, v, d, on)
  BY <1>3, <1>5, FollowingTail
<1>6. Watching(ls, v, Tail(d), on, ws)
  BY <1>1, <1>5 DEF Watching
<1>7. Preceded(u, ls, Tail(d))
  BY <1>1, <1>3, PrecededTail
<1>8. Feeds(u, ls, v, Tail(d), on, base, w, no, T)
  BY <1>1, <1>2, <1>3, <1>5, FeedsTail
<1> QED
  BY <1>4, <1>6, <1>7, <1>8 DEF Served

(* No listen waits: every view knows what the server has, or data on its   *)
(* way makes it so, and pending writes that have an answer may go.         *)
Settles(t, u, acks, more) ==
  /\ AllFull(t) /\ AllFull(u) /\ u.regs = t.regs
  /\ \A p \in Viewed(t.regs) : u.views[p].server = t.views[p].server
  /\ Within(t.allWrites, u.allWrites)
  /\ Ids(u.allWrites) \ Held(more) = Ids(t.allWrites) \ Held(acks)

LEMMA ServedSettled ==
  ASSUME NEW t, NEW acks, NEW w, NEW ls, NEW v, NEW d \in Seq(Message), NEW on, on,
         NEW base, NEW ws, NEW no,
         Served(t, acks, w, ls, v, d, on, base, ws, no),
         Specs(v) = {}, Specs(d) = {}, NEW n, Listening(ls, n, Roots(t.regs)),
         NEW u, NEW more, Settles(t, u, acks, more)
  PROVE  Served(u, more, w, ls, v, d, on, base, ws, no)
<1> DEFINE S == DoneBy(t.allWrites, acks, w)
<1>1. /\ Books(t.allWrites, acks, w)
      /\ Watching(ls, v, d, on, ws)
      /\ Stored(d, base, w, no, S)
      /\ DataSafe(d, w, no, S)
      /\ Feeds(t, ls, v, d, on, base, w, no, S)
  BY ServedParts
<1>2. /\ AllFull(t) /\ AllFull(u) /\ u.regs = t.regs
      /\ \A p \in Viewed(t.regs) : u.views[p].server = t.views[p].server
      /\ Within(t.allWrites, u.allWrites)
      /\ Ids(u.allWrites) \ Held(more) = Ids(t.allWrites) \ Held(acks)
  BY DEF Settles
<1>3. DoneBy(u.allWrites, more, w) = S
  BY <1>2 DEF DoneBy
<1>4. DOMAIN w \ Ids(u.allWrites) \subseteq S
  BY <1>2 DEF DoneBy
<1> HIDE DEF S
<1>5. \A k \in DOMAIN d : d[k].type # "listen"
  BY SpecsAt
<1>6. \A q, s : ~Asked(v, q, s)
  BY SpecsAt DEF Asked
<1>7. Books(u.allWrites, more, w)
  <2>1. \A k \in DOMAIN u.allWrites :
          /\ DOMAIN u.allWrites[k].node = w[u.allWrites[k].id]
          /\ \A l \in DOMAIN u.allWrites[k].node : u.allWrites[k].node[l] \in {u.allWrites[k].id, Nil}
    BY <1>1, <1>2 DEF Books, Within
  <2>2. Below(DoneBy(u.allWrites, more, w), Ids(u.allWrites) \ Held(more))
    BY <1>1, <1>2 DEF Books, DoneBy
  <2> QED BY <1>1, <2>1, <2>2 DEF Books
<1>8. Preceded(u, ls, d)
  BY <1>5 DEF Preceded
<1>9. \A r, l : Base(u, r, l) = Base(t, r, l)
  BY <1>2 DEF Base, AllFull
<1>10. Feeds(u, ls, v, d, on, base, w, no, S)
  BY <1>1, <1>9 DEF Feeds
<1>11. Remembered(u, w, no)
  <2>1. ASSUME NEW p \in Viewed(u.regs), NEW l \in p
        PROVE  NotBefore(u.views[p].server[l], l, w, no, DOMAIN w \ Ids(u.allWrites))
    <3>1. PICK r \in Roots(t.regs) : p \subseteq r
      BY <1>2, RootAbove
    <3>2. r \in ViewPaths /\ ls[r] # 0
      BY DEF Listening, Roots, Viewed
    <3>3. Following(r, ls, v, d, on)
      BY <1>5, <1>6, <3>2 DEF Following, IsListen
    <3>4. l \in r
      BY <3>1
    <3> DEFINE B == Base(t, r, l)
               x == t.views[p].server[l]
    <3>5. UpToDate(l, B, d, base[l], r, ls[r], w, no, S)
      BY <1>1, <3>2, <3>3, <3>4 DEF Feeds
    <3>6. x \in B
      BY <1>2, <2>1, <3>1 DEF Base, AllFull
    <3>7. x = u.views[p].server[l]
      BY <1>2, <2>1
    <3> HIDE DEF B, x
    <3>8. 0 \in 0 .. Len(d) /\ Sees(d, l, B, 0, x)
      <4>1. 1 .. 0 = {} /\ Len(d) \in Nat
        OBVIOUS
      <4> QED BY <3>6, <4>1 DEF Sees
    <3>9. \A j \in DOMAIN d : ~IsListen(d, j, r, ls[r])
      BY <1>5 DEF IsListen
    <3>10. NotBefore(x, l, w, no, AnsweredBy(d, 0, S))
      BY <3>5, <3>8, <3>9 DEF UpToDate
    <3>11. DOMAIN w \ Ids(u.allWrites) \subseteq AnsweredBy(d, 0, S)
      BY <1>4 DEF AnsweredBy
    <3> QED BY <3>7, <3>10, <3>11, NotBeforeLess
  <2> QED BY <2>1 DEF Remembered
<1>12. Grounded(u)
  BY <1>2 DEF Grounded, AllFull
<1> QED
  BY <1>1, <1>3, <1>7, <1>8, <1>10, <1>11, <1>12 DEF Served

(* onDataUpdate. *)
LEMMA OnDataServed ==
  ASSUME IInv, FInv, OnData, UNCHANGED troubles
  PROVE  FInv'
<1> DEFINE m == Head(down)
           node == m.node
           u == ApplyServerOverwrite(Tree, node)
           q == DOMAIN node
           S == DoneBy(allWrites, putsToAck, written)
<1>1. /\ down # <<>> /\ m.type = "data" /\ down' = Tail(down) /\ TreeBecomes(u)
      /\ UNCHANGED <<wire, observeCalls, written, connected, server>>
  BY DEF OnData, Receive
<1>2. Sound(Tree) /\ down \in Seq(Message)
  BY IInvParts
<1>3. m \in Message /\ m = down[1] /\ 1 \in DOMAIN down /\ Len(down) \in Nat
  BY <1>1, <1>2, TailAt
<1>4. node \in Nodes
  <2> DEFINE x == m
  <2>1. x \in Message /\ x.type = "data"
    BY <1>1, <1>3
  <2> HIDE DEF x
  <2>2. x.node \in Nodes
    BY <2>1, MessageFacts
  <2> QED BY <2>2 DEF x
<1>5. u = ApplyServerOverwrite(Tree, node)
  OBVIOUS
<1> HIDE DEF u
<1>6. FilledFrom(Tree, u, q) /\ TakenIn(Tree, u, node)
  BY <1>2, <1>4, <1>5, ServerOverwriteTree, ServerOverwriteTakesIn
<1>7. /\ Sound(u) /\ u.allWrites = Tree.allWrites /\ u.visibleWrites = Tree.visibleWrites
      /\ u.regs = Tree.regs
      /\ \A p \in Viewed(Tree.regs) :
           /\ u.views[p].serverFull = (Tree.views[p].serverFull \/ p \subseteq q)
           /\ u.views[p].serverFull =>
                \A l \in p : u.views[p].server[l] = IF l \in q THEN node[l] ELSE Tree.views[p].server[l]
           /\ u.views[p].eventFull => Tree.views[p].eventFull \/ p \subseteq q
  BY <1>6 DEF FilledFrom, TakenIn
<1>8. Tree' = u
  BY <1>1, <1>7, TreeStays
<1>9. Served(Tree, putsToAck, written, listens, up, down, connected, db, watched, denied)
  BY DEF FInv
<1>10. /\ Books(allWrites, putsToAck, written)
       /\ DataSafe(down, written, denied, S)
       /\ Remembered(Tree, written, denied)
       /\ Grounded(Tree)
  BY <1>9, ServedParts, TreeAt
<1>11. u.allWrites = allWrites /\ Tree.allWrites = allWrites
  BY <1>7, TreeAt
<1> HIDE DEF m
<1>12. m.type # "put" /\ m.type # "listen" /\ Len(down) \in Nat /\ m.type = "data"
  BY <1>1, <1>3
<1>13. ReceivedFrom(Tree, u, down, listens)
  <2>1. \A r \in ViewPaths : ~IsListen(down, 1, r, listens[r])
    BY <1>3, <1>12 DEF IsListen
  <2>2. \A p \in Viewed(u.regs) : p \subseteq q => u.views[p].serverFull
    BY <1>7
  <2>3. ASSUME NEW r, NEW l, NEW p \in Viewed(u.regs), p \subseteq r, l \in p, u.views[p].serverFull
        PROVE  u.views[p].server[l] \in IF l \in q THEN {node[l]} ELSE Base(Tree, r, l)
    <3>1. CASE l \in q
      BY <1>7, <2>3, <3>1
    <3>2. CASE l \notin q
      <4>1. Tree.views[p].serverFull /\ u.views[p].server[l] = Tree.views[p].server[l]
        BY <1>7, <2>3, <3>2
      <4> QED BY <1>7, <2>3, <3>2, <4>1 DEF Base
    <3> QED BY <3>1, <3>2
  <2>4. \A l : Carries(down[1], l) <=> l \in q
    BY <1>3, <1>12 DEF Carries
  <2> HIDE DEF q
  <2>5. ASSUME NEW r, NEW l, NEW x \in Base(u, r, l)
        PROVE  x \in IF Carries(down[1], l) THEN {down[1].node[l]} ELSE Base(Tree, r, l)
    <3>1. PICK p \in Viewed(u.regs) : p \subseteq r /\ l \in p /\ u.views[p].serverFull /\ x = u.views[p].server[l]
      BY <2>5 DEF Base
    <3> QED BY <1>3, <2>3, <2>4, <3>1
  <2>6. \A p \in Viewed(u.regs) : down[1].type = "data" /\ p \subseteq DOMAIN down[1].node => u.views[p].serverFull
    BY <1>3, <2>2 DEF q
  <2> QED BY <2>1, <2>5, <2>6 DEF ReceivedFrom
<1>14. Remembered(u, written, denied)
  <2>1. ASSUME NEW p \in Viewed(u.regs), u.views[p].serverFull, NEW l \in p
        PROVE  NotBefore(u.views[p].server[l], l, written, denied, DOMAIN written \ Ids(u.allWrites))
    <3>1. CASE l \in q
      <4>1. Carries(down[1], l) /\ u.views[p].server[l] = down[1].node[l]
        BY <1>3, <1>7, <1>12, <2>1, <3>1 DEF Carries
      <4>2. NotBefore(down[1].node[l], l, written, denied, AnsweredBy(down, 1, S))
        BY <1>3, <1>10, <4>1 DEF DataSafe
      <4>3. DOMAIN written \ Ids(u.allWrites) \subseteq AnsweredBy(down, 1, S)
        BY <1>11 DEF AnsweredBy, DoneBy
      <4> HIDE DEF S
      <4> QED BY <4>1, <4>2, <4>3, NotBeforeLess
    <3>2. CASE l \notin q
      <4>1. ~(p \subseteq q)
        BY <2>1, <3>2
      <4> HIDE DEF q
      <4>2. Tree.views[p].serverFull /\ u.views[p].server[l] = Tree.views[p].server[l]
        BY <1>7, <2>1, <3>2, <4>1 DEF q
      <4> QED BY <1>7, <1>10, <2>1, <4>2 DEF Remembered
    <3> QED BY <3>1, <3>2
  <2> QED BY <2>1 DEF Remembered
<1>15. Grounded(u)
  BY <1>7, <1>10 DEF Grounded
<1>16. S = DoneBy(u.allWrites, putsToAck, written) /\ S = DoneBy(Tree.allWrites, putsToAck, written)
       /\ Books(u.allWrites, putsToAck, written)
  BY <1>10, <1>11
<1> HIDE DEF S
<1>17. Served(u, putsToAck, written, listens, up, Tail(down), connected, db, watched, denied)
  BY <1>1, <1>2, <1>9, <1>13, <1>14, <1>15, <1>16, ServedReceived
<1> QED
  BY <1>1, <1>8, <1>17 DEF FInv, wire, server

(* The callback of sendPut. *)
LEMMA OnPutServed ==
  ASSUME IInv, FInv, OnPut, UNCHANGED troubles
  PROVE  FInv'
<1> DEFINE m == Head(down)
           a == [id |-> m.id, ok |-> m.ok]
           u == ApplyAck(Tree, m.id, m.ok)
           more == Append(putsToAck, a)
           S == DoneBy(allWrites, putsToAck, written)
           T == DoneBy(allWrites, more, written)
<1>1. /\ Receive("put") /\ down' = Tail(down)
      /\ UNCHANGED <<listens, listenCalls, unackedListensCount, up, observeCalls, written,
                     connected, server>>
  BY DEF OnPut
<1>2. /\ Consistent(Tree, putsToAck, written) /\ Sound(Tree) /\ Filled(Tree)
      /\ Waits(listens, views, up, down, connected)
      /\ (~connected => up = <<>> /\ down = <<>>) /\ down \in Seq(Message)
      /\ Listening(listens, listenCalls, Roots(regs)) /\ connected \in BOOLEAN
      /\ Lines(up, down, listenCalls, unackedListensCount)
      /\ Quiet(regs, unackedListensCount, putsToAck, connected)
      /\ HeldFirst(allWrites, putsToAck) /\ allWrites \in Seq(Pending)
  BY IInvParts DEF Others
<1>3. down # <<>> /\ m.type = "put" /\ m \in Message /\ m = down[1]
  BY <1>1, <1>2, TailAt DEF Receive
<1>4. m.ok \in BOOLEAN /\ m.id \in 1 .. LastPut
  <2> HIDE DEF m
  <2> QED BY <1>3, MessageFacts
<1>5. connected
  BY <1>2, <1>3
<1>6. /\ m.id \in Ids(allWrites) \ Held(putsToAck)
      /\ \A j \in Ids(allWrites) \ Held(putsToAck) : m.id <= j
      /\ Lines(up, Tail(down), listenCalls, unackedListensCount)
  BY <1>1, PutAnswered DEF AnsweredFirst
<1>7. /\ (NoListenOut /\ TreeBecomes(u) /\ UNCHANGED putsToAck)
         \/ (~NoListenOut /\ putsToAck' = more /\ UNCHANGED tree)
  BY DEF OnPut
<1>8. a \in Acks /\ a.id = m.id
  <2> HIDE DEF m
  <2> QED BY <1>4 DEF Acks
<1>9. u = ApplyAck(Tree, m.id, m.ok) /\ more = Append(putsToAck, a)
  OBVIOUS
<1> HIDE DEF m, u, a, more
<1>10. Held(more) = Held(putsToAck) \cup {m.id}
  <2>1. /\ a.id \in Ids(Tree.allWrites) \ Held(putsToAck)
        /\ \A j \in Ids(Tree.allWrites) \ Held(putsToAck) : a.id <= j
    BY <1>6, <1>8, TreeAt
  <2>2. HeldBack(Tree, Append(putsToAck, a), written, Held(putsToAck) \cup {a.id})
    BY <1>2, <1>8, <2>1, ConsistentHold
  <2> QED BY <1>8, <1>9, <2>2 DEF HeldBack
<1>11. Served(Tree, putsToAck, written, listens, up, down, connected, db, watched, denied)
  BY DEF FInv
<1>12. /\ Books(allWrites, putsToAck, written)
       /\ Remembered(Tree, written, denied)
       /\ Grounded(Tree)
  BY <1>11, ServedParts, TreeAt
<1>13. T \subseteq S \cup {m.id}
  BY <1>10 DEF DoneBy
<1>14. Books(allWrites, more, written)
  <2>1. ASSUME NEW x \in T, NEW j \in Ids(allWrites) \ Held(more)
        PROVE  x < j
    <3>1. j \in Ids(allWrites) \ Held(putsToAck) /\ j # m.id
      BY <1>10, <2>1
    <3>2. j \in Nat /\ m.id \in Nat
      BY <1>2, <1>4, <3>1, IdsAt
    <3>3. CASE x = m.id
      BY <1>6, <3>1, <3>2, <3>3
    <3>4. CASE x # m.id
      <4>1. x \in S
        BY <1>13, <2>1, <3>4
      <4> QED BY <1>12, <3>1, <4>1 DEF Books, Below
    <3> QED BY <3>3, <3>4
  <2>2. Below(T, Ids(allWrites) \ Held(more))
    BY <2>1 DEF Below
  <2> QED BY <1>12, <2>2 DEF Books
<1>15. ReceivedFrom(Tree, Tree, down, listens)
  <2>1. down[1].type # "listen" /\ down[1].type # "data"
    BY <1>3
  <2> QED BY <2>1 DEF ReceivedFrom, IsListen, Carries
<1>16. Served(Tree, more, written, listens, up, Tail(down), connected, db, watched, denied)
  <2>1. /\ T = DoneBy(Tree.allWrites, more, written) /\ S = DoneBy(Tree.allWrites, putsToAck, written)
        /\ Books(Tree.allWrites, more, written)
    BY <1>14, TreeAt
  <2>2. down[1].type = "put" /\ down[1].id = m.id
    BY <1>3
  <2> HIDE DEF S, T
  <2>3. T \subseteq IF down[1].type = "put" THEN DoneBy(Tree.allWrites, putsToAck, written) \cup {down[1].id}
                    ELSE DoneBy(Tree.allWrites, putsToAck, written)
    BY <1>13, <2>1, <2>2
  <2> QED BY <1>2, <1>3, <1>11, <1>12, <1>15, <2>1, <2>3, ServedReceived
<1>17. CASE NoListenOut /\ TreeBecomes(u) /\ UNCHANGED putsToAck
  <2>1. Specs(up) = {} /\ Specs(down) = {} /\ Specs(Tail(down)) = {}
    BY <1>2, <1>6, <1>17, LinesCount DEF NoListenOut
  <2>2. AllFull(Tree)
    <3>1. Listening(listens, listenCalls, Roots(Tree.regs)) /\ Waits(listens, Tree.views, up, down, TRUE)
      BY <1>2, <1>5, TreeAt
    <3> QED BY <1>2, <2>1, <3>1, AllAnswered
  <2>3. m.id \in Ids(Tree.allWrites)
    BY <1>6, TreeAt
  <2>4. AckedTree(Tree, u, m.id)
    BY <1>2, <1>9, <2>2, <2>3, AckTree
  <2>5. /\ Sound(u) /\ AllFull(u) /\ u.regs = Tree.regs
        /\ Ids(u.allWrites) = Ids(Tree.allWrites) \ {m.id}
        /\ \A p \in Viewed(Tree.regs) : u.views[p].server = Tree.views[p].server
    BY <2>4 DEF AckedTree
  <2>6. Within(Tree.allWrites, u.allWrites)
    BY <1>2, <2>3, <2>4, AckedWithin
  <2>7. Settles(Tree, u, more, putsToAck)
    BY <1>10, <2>2, <2>5, <2>6 DEF Settles
  <2>8. Tail(down) \in Seq(Message) /\ Listening(listens, listenCalls, Roots(Tree.regs))
    BY <1>2, <1>3, TailAt, TreeAt
  <2>9. Served(u, putsToAck, written, listens, up, Tail(down), connected, db, watched, denied)
    BY <1>5, <1>16, <2>1, <2>7, <2>8, ServedSettled
  <2>10. Tree' = u
    BY <1>17, <2>5, TreeStays
  <2> QED BY <1>1, <1>17, <2>9, <2>10 DEF FInv, server
<1>18. CASE ~NoListenOut /\ putsToAck' = more /\ UNCHANGED tree
  <2>1. Tree' = Tree
    BY <1>18 DEF tree, Tree
  <2> QED BY <1>1, <1>16, <1>18, <2>1 DEF FInv, server
<1> QED
  BY <1>7, <1>17, <1>18

(* A listen has its answer. *)
LEMMA SettledServed ==
  ASSUME IInv, NEW t, Answered(t), Settling(t),
         Served(t, putsToAck, written, listens', up', Tail(down), connected, db, watched, denied)
  PROVE  FInv'
<1> DEFINE u == IF unackedListensCount' = 0 THEN ApplyAcks(t, putsToAck) ELSE t
<1>1. /\ Consistent(t, putsToAck, written)
      /\ Listening(listens', listenCalls', Roots(t.regs))
      /\ Lines(up', Tail(down), listenCalls', unackedListensCount')
      /\ Waits(listens', t.views, up', Tail(down), TRUE)
      /\ down' = Tail(down) /\ connected = TRUE
      /\ UNCHANGED <<observeCalls, written, connected, server, troubles>>
  BY DEF Answered
<1>2. /\ putsToAck' = IF unackedListensCount' = 0 THEN <<>> ELSE putsToAck
      /\ TreeBecomes(u)
  BY DEF Settling
<1>3. u = IF unackedListensCount' = 0 THEN ApplyAcks(t, putsToAck) ELSE t
  OBVIOUS
<1> HIDE DEF u
<1>4. Sound(t) /\ Filled(t) /\ t.allWrites \in Seq(Pending) /\ Tail(down) \in Seq(Message)
  BY <1>1, ConsistentParts DEF Lines
<1>5. CASE unackedListensCount' = 0
  <2>1. putsToAck' = <<>> /\ u = ApplyAcks(t, putsToAck)
    BY <1>2, <1>3, <1>5
  <2>2. Specs(up') = {} /\ Specs(Tail(down)) = {}
    BY <1>1, <1>5, LinesCount
  <2>3. AllFull(t)
    BY <1>1, <1>4, <2>2, AllAnswered
  <2>4. /\ Consistent(u, <<>>, written) /\ AllFull(u) /\ u.regs = t.regs
        /\ Ids(u.allWrites) = Ids(t.allWrites) \ Held(putsToAck)
    BY <1>1, <2>1, <2>3, ConsistentBatch
  <2>5. /\ \A p \in Viewed(t.regs) : u.views[p].server = t.views[p].server
        /\ Within(t.allWrites, u.allWrites)
    BY <1>1, <2>1, <2>3, AcksLeave
  <2> DEFINE none == <<>>
  <2>6. Held(none) = {}
    BY DEF Held
  <2>7. putsToAck' = none
    BY <2>1
  <2> HIDE DEF none
  <2>8. Settles(t, u, putsToAck, none)
    BY <2>3, <2>4, <2>5, <2>6 DEF Settles
  <2> DEFINE ls == listens'
             v == up'
             d == Tail(down)
  <2>9. /\ Served(t, putsToAck, written, ls, v, d, connected, db, watched, denied)
        /\ Specs(v) = {} /\ Specs(d) = {} /\ d \in Seq(Message) /\ connected
        /\ Listening(ls, listenCalls', Roots(t.regs))
    BY <1>1, <1>4, <2>2
  <2> HIDE DEF ls, v, d
  <2>10. Served(u, none, written, ls, v, d, connected, db, watched, denied)
    BY <2>8, <2>9, ServedSettled
  <2>11. Sound(u)
    BY <2>4, ConsistentParts
  <2>12. Tree' = u
    BY <1>2, <2>11, TreeStays
  <2> QED BY <1>1, <2>7, <2>10, <2>12 DEF FInv, server, ls, v, d
<1>6. CASE unackedListensCount' # 0
  <2>1. putsToAck' = putsToAck /\ u = t
    BY <1>2, <1>3, <1>6
  <2>2. Tree' = t
    BY <1>2, <1>4, <2>1, TreeStays
  <2> QED BY <1>1, <2>1, <2>2 DEF FInv, server
<1> QED
  BY <1>5, <1>6

(* The callback of sendListen. *)
LEMMA OnListenServed ==
  ASSUME IInv, FInv, OnListen, UNCHANGED troubles
  PROVE  FInv'
<1> DEFINE m == Head(down)
           p == m.path
           S == DoneBy(allWrites, putsToAck, written)
<1>1. PICK t : Answered(t) /\ Settling(t) /\ Heard(m, t)
  BY OnListenAnswered
<1>2. /\ Sound(Tree) /\ down \in Seq(Message) /\ regs \in [ViewPaths -> SUBSET Kinds]
      /\ Listening(listens, listenCalls, Roots(regs))
  BY IInvParts
<1>3. down # <<>> /\ m.type = "listen" /\ m \in Message /\ m = down[1] /\ 1 \in DOMAIN down
  BY <1>2, TailAt DEF OnListen, Receive
<1>4. p \in ViewPaths /\ p \in Paths /\ m.spec \in 1 .. MaxListens
  <2> DEFINE x == m
  <2>1. x \in Message /\ x.type = "listen"
    BY <1>3
  <2> HIDE DEF x
  <2>2. x.path \in ViewPaths /\ x.spec \in 1 .. MaxListens
    BY <2>1, MessageFacts
  <2> QED BY <2>2, PathFacts DEF x
<1>5. Served(Tree, putsToAck, written, listens, up, down, connected, db, watched, denied)
  BY DEF FInv
<1>6. /\ Books(allWrites, putsToAck, written)
      /\ Preceded(Tree, listens, down)
      /\ Remembered(Tree, written, denied)
      /\ Grounded(Tree)
  BY <1>5, ServedParts, TreeAt
<1>7. \A r : IsListen(down, 1, r, listens[r]) => r = p /\ listens[p] = m.spec
  BY <1>3 DEF IsListen
<1>8. \A l : ~Carries(down[1], l)
  BY <1>3 DEF Carries
<1> HIDE DEF m
<1>9. down[1].type # "data" /\ down[1].type # "put"
  BY <1>3
<1>10. t.allWrites = allWrites /\ Books(t.allWrites, putsToAck, written)
       /\ DoneBy(t.allWrites, putsToAck, written) = S /\ DoneBy(Tree.allWrites, putsToAck, written) = S
  BY <1>1, <1>6, TreeAt DEF Answered
<1> HIDE DEF S
<1>11. CASE listens[p] # m.spec /\ t = Tree /\ UNCHANGED <<listens, up>>
  <2>1. ReceivedFrom(Tree, Tree, down, listens)
    BY <1>7, <1>8, <1>9, <1>11 DEF ReceivedFrom
  <2>2. Served(Tree, putsToAck, written, listens, up, Tail(down), connected, db, watched, denied)
    BY <1>2, <1>3, <1>5, <1>6, <1>9, <1>10, <1>11, <2>1, ServedReceived
  <2> QED BY <1>1, <1>11, <2>2, SettledServed
<1>12. CASE /\ listens[p] = m.spec /\ m.ok /\ t = ApplyListenComplete(Tree, p)
            /\ UNCHANGED <<listens, up>>
  <2>1. FilledFrom(Tree, t, p) /\ Left(Tree, t, p)
    BY <1>2, <1>4, <1>12, ListenCompleteTree, ListenCompleteLeaves
  <2>2. \A q \in Viewed(Tree.regs) : q \subseteq p => Tree.views[q].serverFull
    BY <1>3, <1>6, <1>12 DEF Preceded
  <2>3. /\ t.regs = Tree.regs /\ t.visibleWrites = Tree.visibleWrites
        /\ \A q \in Viewed(Tree.regs) :
             /\ t.views[q].serverFull <=> Tree.views[q].serverFull
             /\ t.views[q].server = Tree.views[q].server
             /\ t.views[q].eventFull => Tree.views[q].eventFull \/ Tree.views[q].serverFull
    BY <2>1, <2>2 DEF FilledFrom, Left
  <2>4. ReceivedFrom(Tree, t, down, listens)
    <3>1. \A r, l : Base(t, r, l) = Base(Tree, r, l)
      BY <2>3 DEF Base
    <3>2. \A r \in ViewPaths : IsListen(down, 1, r, listens[r]) => down[1].ok
      BY <1>3, <1>12
    <3> QED BY <1>8, <1>9, <3>1, <3>2 DEF ReceivedFrom
  <2>5. Remembered(t, written, denied)
    BY <1>6, <1>10, <2>3, TreeAt DEF Remembered
  <2>6. Grounded(t)
    BY <1>6, <2>3 DEF Grounded
  <2>7. Served(t, putsToAck, written, listens, up, Tail(down), connected, db, watched, denied)
    BY <1>2, <1>3, <1>5, <1>9, <1>10, <2>4, <2>5, <2>6, ServedReceived
  <2> QED BY <1>1, <1>12, <2>7, SettledServed
<1>13. CASE /\ listens[p] = m.spec /\ ~m.ok /\ t = Unregistered(Tree, p, Kinds)
            /\ \E ps \in SetToSeqs(StartBelow(t, p)) :
                 Started(ps, {p}) /\ up' = Sent(ListenRequests(ps))
  <2>1. p \in Viewed(regs) /\ CoveredBy(regs, p) = {}
    <3>1. listens[p] # 0
      BY <1>4, <1>13
    <3>2. p \in Roots(regs)
      BY <1>2, <1>4, <3>1 DEF Listening
    <3> QED BY <3>2 DEF Roots
  <2>2. UnregisteredTree(Tree, t, p, Kinds)
    <3>1. Kinds \in SUBSET Kinds
      OBVIOUS
    <3> QED BY <1>2, <1>4, <1>13, <3>1, UnregisteredAt
  <2>3. t.regs[p] = {}
    <3>1. regs[p] \ Kinds = {}
      BY <1>2, <1>4
    <3> QED BY <1>2, <1>4, <2>2, <3>1, TreeAt DEF UnregisteredTree
  <2>4. PICK ps \in SetToSeqs(StartBelow(t, p)) : Started(ps, {p}) /\ up' = Sent(ListenRequests(ps))
    BY <1>13
  <2> DEFINE rs == ListenRequests(ps)
             kinds == Kinds
  <2>5. rs = ListenRequests(ps) /\ up' = Sent(rs) /\ kinds \in SUBSET Kinds /\ UnregisteredTree(Tree, t, p, kinds)
    BY <2>2, <2>4
  <2> HIDE DEF rs, kinds
  <2>6. Served(t, putsToAck, written, listens', up', down, connected, db, watched, denied)
        /\ listens'[p] = 0
    BY <2>1, <2>3, <2>4, <2>5, EndServed
  <2> DEFINE ls == listens'
             v == up'
  <2>7. Served(t, putsToAck, written, ls, v, down, connected, db, watched, denied) /\ ls[p] = 0
    BY <2>6
  <2> HIDE DEF ls, v
  <2>8. Remembered(t, written, denied) /\ Grounded(t)
    BY <2>7, ServedParts
  <2>9. ReceivedFrom(t, t, down, ls)
    <3>1. \A r \in ViewPaths : ~IsListen(down, 1, r, ls[r])
      BY <1>3, <1>4, <2>7 DEF IsListen
    <3> QED BY <1>8, <1>9, <3>1 DEF ReceivedFrom
  <2>10. Served(t, putsToAck, written, ls, v, Tail(down), connected, db, watched, denied)
    BY <1>2, <1>3, <1>9, <1>10, <2>7, <2>8, <2>9, ServedReceived
  <2> QED BY <1>1, <2>10, SettledServed DEF ls, v
<1> QED
  BY <1>1, <1>11, <1>12, <1>13 DEF Heard

(* onDisconnect. *)
LEMMA DropServed ==
  ASSUME IInv, FInv, Drop
  PROVE  FInv'
<1> DEFINE S == DoneBy(allWrites, putsToAck, written)
           d == <<>>
<1>1. /\ connected' = FALSE /\ down' = d
      /\ UNCHANGED <<tree, listens, listenCalls, putsToAck, observeCalls, written, db, denied>>
  BY DEF Drop
<1>2. Tree' = Tree /\ allWrites' = allWrites
  BY <1>1 DEF tree, Tree
<1>3. Served(Tree, putsToAck, written, listens, up, down, connected, db, watched, denied)
  BY DEF FInv
<1>4. /\ Books(allWrites, putsToAck, written)
      /\ Stored(down, db, written, denied, S)
      /\ Remembered(Tree, written, denied)
      /\ Grounded(Tree)
  BY <1>3, ServedParts, TreeAt
<1>5. S = DoneBy(Tree.allWrites, putsToAck, written) /\ Books(Tree.allWrites, putsToAck, written)
  BY <1>4, TreeAt
<1>6. DOMAIN d = {} /\ Len(d) \in Nat
  OBVIOUS
<1> HIDE DEF d
<1>7. AnsweredBy(d, Len(d), S) \subseteq AnsweredBy(down, Len(down), S)
  <2>1. d \in Seq(Message) /\ PutIds(d) = {}
    BY NoMessages DEF d
  <2>2. AnsweredBy(d, Len(d), S) = S \cup PutIds(d)
    BY <2>1, AnsweredAll
  <2> QED BY <2>1, <2>2 DEF AnsweredBy
<1> HIDE DEF S
<1>8. Stored(d, db, written, denied, S)
  BY <1>4, <1>7, NotBeforeLess DEF Stored
<1>9. DataSafe(d, written, denied, S) /\ Preceded(Tree, listens, d)
  BY <1>6 DEF DataSafe, Preceded
<1> DEFINE on == connected'
           v == up'
           ws == watched'
<1>10. ~on
  BY <1>1
<1> HIDE DEF on, v, ws
<1>11. Watching(listens, v, d, on, ws) /\ Feeds(Tree, listens, v, d, on, db, written, denied, S)
  BY <1>10 DEF Watching, Feeds, Following
<1>12. Served(Tree, putsToAck, written, listens, v, d, on, db, ws, denied)
  BY <1>4, <1>5, <1>8, <1>9, <1>11 DEF Served
<1> QED
  BY <1>1, <1>2, <1>12 DEF FInv, on, v, ws

(* restoreState. *)
LEMMA RestoreServed ==
  ASSUME IInv, FInv, Restore, UNCHANGED troubles
  PROVE  FInv'
<1> DEFINE S == DoneBy(allWrites, putsToAck, written)
<1>1. /\ ~connected /\ connected' = TRUE
      /\ UNCHANGED <<tree, listens, listenCalls, putsToAck, observeCalls, written, down, server>>
  BY DEF Restore
<1>2. PICK ps \in SetToSeqs(Restored), ids \in Sorted(Outstanding) :
        up' = ListensAgain(ps) \o PutsAgain(ids)
  BY DEF Restore, ListensAgain, PutsAgain
<1>3. /\ Listening(listens, listenCalls, Roots(regs)) /\ listenCalls <= MaxListens
      /\ allWrites \in Seq(Pending)
  BY IInvParts
<1>4. Tree' = Tree
  BY <1>1 DEF tree, Tree
<1> DEFINE rs == ListensAgain(ps)
           us == PutsAgain(ids)
           v == up'
<1>5. rs \in Seq(Request) /\ \A p \in Restored : Asked(rs, p, listens[p])
  BY <1>3, ListensAgainSent DEF Again
<1>6. us \in Seq(Request)
  BY <1>3, PutsAgainSent
<1>7. /\ \A j \in DOMAIN rs : rs[j].type # "unlisten"
      /\ \A j \in DOMAIN us : us[j].type # "unlisten"
  BY DEF ListensAgain, ListenRequest, PutsAgain, PutRequest
<1> HIDE DEF rs, us
<1>8. Joined(rs, us, v)
  BY <1>2, <1>5, <1>6, ConcatJoins DEF rs, us
<1>9. \A q \in ViewPaths : listens[q] # 0 => Asked(v, q, listens[q])
  <2>1. ASSUME NEW q \in ViewPaths, listens[q] # 0 PROVE Asked(v, q, listens[q])
    <3>1. q \in Restored
      BY <2>1 DEF Restored
    <3> QED BY <1>2, <1>5, <1>6, <3>1, AskedConcat DEF rs, us
  <2> QED BY <2>1
<1>10. \A j \in DOMAIN v : v[j].type # "unlisten"
  <2>1. ASSUME NEW j \in DOMAIN v PROVE v[j].type # "unlisten"
    <3>1. CASE j <= Len(rs)
      BY <1>7, <1>8, <2>1, <3>1 DEF Joined
    <3>2. CASE j > Len(rs)
      <4>1. j - Len(rs) \in DOMAIN us /\ Len(rs) + (j - Len(rs)) = j
        BY <1>8, <2>1, <3>2 DEF Joined
      <4>2. v[j] = us[j - Len(rs)]
        BY <1>8, <4>1 DEF Joined
      <4> QED BY <1>7, <4>1, <4>2
    <3> QED BY <1>8, <2>1, <3>1, <3>2 DEF Joined
  <2> QED BY <2>1
<1>11. Served(Tree, putsToAck, written, listens, up, down, connected, db, watched, denied)
  BY DEF FInv
<1>12. /\ Books(allWrites, putsToAck, written)
       /\ Preceded(Tree, listens, down)
       /\ Stored(down, db, written, denied, S)
       /\ DataSafe(down, written, denied, S)
       /\ Remembered(Tree, written, denied)
       /\ Grounded(Tree)
  BY <1>11, ServedParts, TreeAt
<1>13. S = DoneBy(Tree.allWrites, putsToAck, written) /\ Books(Tree.allWrites, putsToAck, written)
  BY <1>12, TreeAt
<1> DEFINE on == connected'
<1> HIDE DEF S, v, on
<1>14. \A r \in ViewPaths : ~Following(r, listens, v, down, on)
  BY <1>9 DEF Following
<1>15. /\ Watching(listens, v, down, on, watched)
       /\ Feeds(Tree, listens, v, down, on, db, written, denied, S)
  BY <1>10, <1>14 DEF Watching, Feeds, IsUnlisten
<1>16. Served(Tree, putsToAck, written, listens, v, down, on, db, watched, denied)
  BY <1>12, <1>13, <1>15 DEF Served
<1> QED
  BY <1>1, <1>4, <1>16 DEF FInv, server, on, v

-----------------------------------------------------------------------------
(* The server takes the k-th request and sends t. *)

LEMMA FollowingHandled ==
  ASSUME NEW u \in Seq(Request), NEW k \in DOMAIN u, NEW d, NEW t, NEW e, Joined(d, t, e),
         NEW r, NEW ls, NEW on, Following(r, ls, RemoveAt(u, k), e, on)
  PROVE  /\ Following(r, ls, u, d, on) \/ IsListen(u, k, r, ls[r])
         /\ \A j \in DOMAIN t : IsListen(t, j, r, ls[r]) => t[j].ok
<1> DEFINE v == RemoveAt(u, k)
           s == ls[r]
<1>1. ~IsListen(u, k, r, s) /\ Asked(u, r, s) => Asked(v, r, s)
  BY AskedWithout DEF IsListen
<1>2. Following(r, ls, v, e, on)
  OBVIOUS
<1> HIDE DEF v
<1>3. \A j \in DOMAIN t : IsListen(t, j, r, ls[r]) => t[j].ok
  <2>1. ASSUME NEW j \in DOMAIN t, IsListen(t, j, r, ls[r]) PROVE t[j].ok
    <3>1. Len(d) + j \in DOMAIN e /\ e[Len(d) + j] = t[j]
      BY DEF Joined
    <3> QED BY <1>2, <2>1, <3>1 DEF Following, IsListen
  <2> QED BY <2>1
<1>4. CASE IsListen(u, k, r, s)
  BY <1>3, <1>4
<1>5. CASE ~IsListen(u, k, r, s)
  BY <1>1, <1>2, <1>3, <1>5, FollowingConcat
<1> QED
  BY <1>4, <1>5

LEMMA WatchingHandled ==
  ASSUME NEW u \in Seq(Request), NEW k \in DOMAIN u, \A j \in 1 .. k - 1 : u[j].type = "listen",
         NEW ls, NEW d, NEW e, NEW on, NEW ws, NEW more, Watching(ls, u, d, on, ws),
         \A r \in ViewPaths : Following(r, ls, RemoveAt(u, k), e, on) =>
           r \in more /\ (Following(r, ls, u, d, on) \/ IsListen(u, k, r, ls[r]))
  PROVE  Watching(ls, RemoveAt(u, k), e, on, more)
<1> DEFINE v == RemoveAt(u, k)
<1>1. /\ Len(u) \in Nat \ {0} /\ DOMAIN u = 1 .. Len(u) /\ DOMAIN v = 1 .. Len(u) - 1
      /\ \A j \in 1 .. Len(u) - 1 : v[j] = IF j < k THEN u[j] ELSE u[j + 1]
  BY RemoveAtAt
<1>2. \A r \in ViewPaths : Following(r, ls, v, e, on) =>
        r \in more /\ (Following(r, ls, u, d, on) \/ IsListen(u, k, r, ls[r]))
  OBVIOUS
<1> HIDE DEF v
<1>3. k \in Nat /\ k >= 1
  BY <1>1
<1>4. ASSUME NEW j \in DOMAIN v
      PROVE  \E m \in DOMAIN u : v[j] = u[m] /\ m # k /\ m = IF j < k THEN j ELSE j + 1
  <2>1. CASE j < k
    BY <1>1, <1>3, <2>1
  <2>2. CASE ~(j < k)
    <3>1. j + 1 \in DOMAIN u /\ v[j] = u[j + 1] /\ j + 1 # k
      BY <1>1, <1>3, <2>2
    <3> QED BY <2>2, <3>1
  <2> QED BY <2>1, <2>2
<1>5. ASSUME NEW r \in ViewPaths, Following(r, ls, v, e, on), NEW j \in DOMAIN v, IsUnlisten(v, j, r)
      PROVE  FALSE
  <2>1. PICK m \in DOMAIN u : v[j] = u[m] /\ m # k
    BY <1>4
  <2>2. IsUnlisten(u, m, r) /\ on /\ ls[r] # 0
    BY <1>5, <2>1 DEF IsUnlisten, Following
  <2>3. CASE Following(r, ls, u, d, on)
    BY <2>2, <2>3 DEF Watching
  <2>4. CASE IsListen(u, k, r, ls[r])
    <3>1. m < k
      BY <2>2, <2>4 DEF Watching
    <3>2. m \in 1 .. k - 1
      BY <1>1, <1>3, <3>1
    <3> QED BY <2>2, <3>2 DEF IsUnlisten
  <2> QED BY <1>2, <1>5, <2>3, <2>4
<1>6. ASSUME on, NEW r \in ViewPaths, NEW j \in DOMAIN v, NEW i \in DOMAIN v, ls[r] # 0,
             IsListen(v, i, r, ls[r]), IsUnlisten(v, j, r)
      PROVE  j < i
  <2>1. PICK m \in DOMAIN u : v[j] = u[m] /\ m # k /\ m = IF j < k THEN j ELSE j + 1
    BY <1>4
  <2>2. PICK n \in DOMAIN u : v[i] = u[n] /\ n # k /\ n = IF i < k THEN i ELSE i + 1
    BY <1>4
  <2>3. IsUnlisten(u, m, r) /\ IsListen(u, n, r, ls[r])
    BY <1>6, <2>1, <2>2 DEF IsUnlisten, IsListen
  <2>4. m < n
    BY <1>6, <2>3 DEF Watching
  <2> QED BY <1>1, <1>3, <2>1, <2>2, <2>4
<1>7. Watching(ls, v, e, on, more)
  BY <1>2, <1>5, <1>6 DEF Watching
<1> QED
  BY <1>7 DEF v

LEMMA PrecededConcat ==
  ASSUME NEW x, NEW ls, NEW d, NEW t, NEW e, Joined(d, t, e), Preceded(x, ls, d),
         \A j \in DOMAIN t : t[j].type = "listen" /\ t[j].ok =>
           /\ j > 1 /\ t[j - 1].type = "data" /\ DOMAIN t[j - 1].node = t[j].path
  PROVE  Preceded(x, ls, e)
<1>1. /\ Len(d) \in Nat /\ Len(t) \in Nat /\ Len(e) = Len(d) + Len(t)
      /\ DOMAIN d = 1 .. Len(d) /\ DOMAIN t = 1 .. Len(t) /\ DOMAIN e = 1 .. Len(e)
      /\ \A j \in 1 .. Len(d) : e[j] = d[j]
      /\ \A j \in 1 .. Len(t) : e[Len(d) + j] = t[j]
  BY DEF Joined
<1>2. ASSUME NEW k \in DOMAIN e, e[k].type = "listen", e[k].ok
      PROVE  /\ k = 1 /\ ls[e[k].path] = e[k].spec =>
                  \A p \in Viewed(x.regs) : p \subseteq e[k].path => x.views[p].serverFull
             /\ k > 1 => e[k - 1].type = "data" /\ DOMAIN e[k - 1].node = e[k].path
  <2>1. CASE k <= Len(d)
    <3>1. k \in DOMAIN d /\ e[k] = d[k]
      BY <1>1, <2>1
    <3>2. k > 1 => e[k - 1] = d[k - 1]
      BY <1>1, <2>1
    <3> QED BY <1>2, <3>1, <3>2 DEF Preceded
  <2>2. CASE k > Len(d)
    <3> DEFINE j == k - Len(d)
    <3>1. j \in DOMAIN t /\ Len(d) + j = k
      BY <1>1, <2>2
    <3>2. e[k] = t[j]
      BY <1>1, <3>1
    <3>3. j > 1 /\ t[j - 1].type = "data" /\ DOMAIN t[j - 1].node = t[j].path
      BY <1>2, <3>1, <3>2
    <3>6. j > 1
      BY <3>3
    <3> HIDE DEF j
    <3>7. Len(d) \in Nat /\ Len(t) \in Nat /\ j \in 1 .. Len(t) /\ DOMAIN t = 1 .. Len(t)
      BY <1>1, <3>1
    <3>4. j - 1 \in DOMAIN t /\ Len(d) + (j - 1) = k - 1 /\ k # 1
      BY <3>1, <3>6, <3>7
    <3>5. e[k - 1] = t[j - 1]
      BY <1>1, <3>4
    <3> QED BY <3>2, <3>3, <3>4, <3>5
  <2> QED BY <1>1, <2>1, <2>2
<1> QED
  BY <1>2 DEF Preceded

(* What is sent keeps everyone who follows up to date. *)
Serves(ls, u, v, d, t, e, on, base, new) ==
  \A r \in ViewPaths : Following(r, ls, v, e, on) =>
    \/ /\ Following(r, ls, u, d, on)
       /\ \A l \in r : base[l] = new[l] \/ \E j \in DOMAIN t : Carries(t[j], l)
    \/ /\ Len(t) = 2 /\ IsListen(t, 2, r, ls[r])
       /\ \A l \in r : Carries(t[1], l)

LEMMA ServedSent ==
  ASSUME NEW x, NEW acks, NEW w, NEW ls, NEW u, NEW d, NEW on, NEW base, NEW ws, NEW no,
         Served(x, acks, w, ls, u, d, on, base, ws, no),
         NEW t, NEW e, Joined(d, t, e), NEW new, NEW more,
         NEW S, S = DoneBy(x.allWrites, acks, w), Sends(t, e, new, w, no, more, S),
         \A j \in DOMAIN t : t[j].type = "listen" /\ t[j].ok =>
           /\ j > 1 /\ t[j - 1].type = "data" /\ DOMAIN t[j - 1].node = t[j].path,
         NEW v, NEW now, Watching(ls, v, e, on, now), Serves(ls, u, v, d, t, e, on, base, new)
  PROVE  Served(x, acks, w, ls, v, e, on, new, now, more)
<1>1. /\ Books(x.allWrites, acks, w)
      /\ Preceded(x, ls, d)
      /\ Stored(d, base, w, no, S)
      /\ DataSafe(d, w, no, S)
      /\ Feeds(x, ls, u, d, on, base, w, no, S)
      /\ Remembered(x, w, no)
      /\ Grounded(x)
  BY ServedParts
<1>2. Stored(e, new, w, more, S) /\ DataSafe(e, w, more, S)
  BY <1>1, SafeConcat
<1>3. Preceded(x, ls, e)
  BY <1>1, PrecededConcat
<1>4. Feeds(x, ls, v, e, on, new, w, more, S)
  <2>1. ASSUME NEW r \in ViewPaths, NEW l, Following(r, ls, v, e, on), l \in r
        PROVE  UpToDate(l, Base(x, r, l), e, new[l], r, ls[r], w, more, S)
    <3> DEFINE B == Base(x, r, l)
               s == ls[r]
               z == new[l]
    <3>1. l \in Leaves
      BY <2>1, PathFacts
    <3>2. CASE /\ Following(r, ls, u, d, on)
               /\ base[l] = new[l] \/ \E j \in DOMAIN t : Carries(t[j], l)
      <4>1. UpToDate(l, B, d, base[l], r, s, w, no, S)
        BY <1>1, <2>1, <3>2 DEF Feeds
      <4> HIDE DEF B, s
      <4>2. UpToDate(l, B, e, new[l], r, s, w, more, S)
        BY <1>1, <3>1, <3>2, <4>1, FeedConcat
      <4> QED BY <4>2 DEF B, s
    <3>3. CASE Len(t) = 2 /\ IsListen(t, 2, r, ls[r]) /\ Carries(t[1], l)
      <4>1. 1 \in DOMAIN t
        BY <3>3 DEF Joined
      <4>2. t[1].node[l] = z /\ NotBefore(z, l, w, more, AnsweredBy(e, Len(e), S))
        BY <3>1, <3>3, <4>1 DEF Sends
      <4> HIDE DEF B, s, z
      <4>3. UpToDate(l, B, e, z, r, s, w, more, S)
        BY <3>3, <4>2, UpToDateNew DEF s
      <4> QED BY <4>3 DEF B, s, z
    <3> QED BY <2>1, <3>2, <3>3 DEF Serves
  <2> QED BY <2>1 DEF Feeds
<1>5. Remembered(x, w, more)
  <2>1. no \subseteq more
    BY DEF Sends
  <2> QED BY <1>1, <2>1, NotBeforeLess DEF Remembered
<1> QED
  BY <1>1, <1>2, <1>3, <1>4, <1>5 DEF Served

(* The data t, of the node, reaches every path in ws. *)
Spreads(t, node, ws) ==
  /\ t \in Seq(Message) /\ \A j \in DOMAIN t : t[j].type = "data"
  /\ \A j \in DOMAIN t : \A l : Carries(t[j], l) => l \in DOMAIN node /\ t[j].node[l] = node[l]
  /\ \A p \in ws, l \in DOMAIN node : l \in p => \E j \in DOMAIN t : Carries(t[j], l)

LEMMA PushesSpread ==
  ASSUME watched \subseteq ViewPaths, NEW node \in Nodes
  PROVE  Spreads(Pushes(node), node, watched)
<1> DEFINE q == DOMAIN node
           P == {p \in watched : p \cap q # {}}
           push(p) == [type |-> "data", node |-> Child(node, q \cap p)]
           M == {push(p) : p \in P}
           t == Pushes(node)
<1>1. P \subseteq Paths /\ P \subseteq watched
  BY PathFacts
<1>2. IsFiniteSet(P)
  BY <1>1, PathsAssumption, FS_Subset
<1>3. IsFiniteSet(M)
  <2> HIDE DEF P, push
  <2>1. [p \in P |-> push(p)] \in Surjection(P, M)
    BY DEF Surjection
  <2> HIDE DEF M
  <2> QED BY <1>2, <2>1, FS_Surjection
<1>4. t = SetToSeq(M)
  BY DEF Pushes
<1>5. t \in Seq(Message)
  BY PushesData DEF Pushed
<1>6. \A p \in P : /\ push(p).type = "data"
                   /\ \A l : Carries(push(p), l) <=> l \in q /\ l \in p
                   /\ \A l : Carries(push(p), l) => push(p).node[l] = node[l]
  BY DEF Carries, Child
<1> HIDE DEF M, t, q
<1>7. t \in SetToSeqs(M)
  BY <1>3, <1>4, SomeOrder
<1>8. /\ \A j \in DOMAIN t : t[j] \in M
      /\ \A m \in M : \E j \in DOMAIN t : t[j] = m
  BY <1>3, <1>7, InOrderOf
<1> HIDE DEF push
<1>9. ASSUME NEW j \in DOMAIN t
      PROVE  \E p \in P : t[j] = push(p)
  BY <1>8 DEF M
<1>10. ASSUME NEW p \in P
       PROVE  \E j \in DOMAIN t : t[j] = push(p)
  BY <1>8 DEF M
<1>11. \A j \in DOMAIN t : t[j].type = "data"
  BY <1>6, <1>9
<1>12. ASSUME NEW j \in DOMAIN t, NEW l, Carries(t[j], l)
       PROVE  l \in q /\ t[j].node[l] = node[l]
  <2>1. PICK p \in P : t[j] = push(p)
    BY <1>9
  <2> QED BY <1>6, <1>12, <2>1
<1>13. ASSUME NEW p \in watched, NEW l \in q, l \in p
       PROVE  \E j \in DOMAIN t : Carries(t[j], l)
  <2>1. p \in P
    BY <1>13 DEF q
  <2>2. PICK j \in DOMAIN t : t[j] = push(p)
    BY <1>10, <2>1
  <2> QED BY <1>6, <1>13, <2>1, <2>2
<1>14. Spreads(t, node, watched)
  BY <1>5, <1>11, <1>12, <1>13 DEF Spreads, q
<1> QED
  BY <1>14 DEF t

(* What is stored stays; a write answered now was refused. *)
LEMMA StoredStill ==
  ASSUME NEW d, NEW t, NEW e, Joined(d, t, e), NEW base, NEW w, NEW no, NEW more, no \subseteq more,
         PutIds(t) \subseteq more, NEW S, Stored(d, base, w, no, S)
  PROVE  Stored(e, base, w, more, S)
<1>1. AnsweredBy(e, Len(e), S) = AnsweredBy(d, Len(d), S) \cup PutIds(t)
  BY AnsweredConcat
<1> QED
  BY <1>1 DEF Stored, NotBefore

(* Write i is stored, and answered; those answered before are older. *)
LEMMA StoredWrite ==
  ASSUME NEW d, NEW t, NEW e, Joined(d, t, e), NEW base, NEW w, NEW no, NEW S,
         Stored(d, base, w, no, S),
         NEW i \in 1 .. LastPut, PutIds(t) = {i}, NEW node, DOMAIN node = w[i],
         \A l \in DOMAIN node : node[l] \in {i, Nil},
         \A j \in AnsweredBy(d, Len(d), S) : j \in Nat /\ j <= i,
         NEW new, \A l \in Leaves : new[l] = IF l \in DOMAIN node THEN node[l] ELSE base[l]
  PROVE  Stored(e, new, w, no, S)
<1> DEFINE A == AnsweredBy(d, Len(d), S)
<1>1. AnsweredBy(e, Len(e), S) = A \cup {i}
  BY AnsweredConcat
<1> HIDE DEF A
<1>2. ASSUME NEW l \in Leaves
      PROVE  NotBefore(new[l], l, w, no, A \cup {i})
  <2>1. CASE l \in DOMAIN node
    <3>1. new[l] = i \/ new[l] = Nil
      BY <2>1
    <3>2. ASSUME NEW j \in A \cup {i} PROVE new[l] \notin Older(j)
      <4>1. j \in Nat /\ j <= i /\ i \in Nat
        BY <1>1, BoundsAssumption DEF A
      <4>2. Nil \notin 1 .. LastPut /\ Nil # Initial /\ i # Initial
        BY BoundsAssumption
      <4>3. Nil \notin 1 .. j - 1 /\ i \notin 1 .. j - 1
        BY <4>1, <4>2, BoundsAssumption
      <4> QED BY <3>1, <4>2, <4>3 DEF Older
    <3> QED BY <3>2 DEF NotBefore
  <2>2. CASE l \notin DOMAIN node
    <3>1. new[l] = base[l] /\ l \notin w[i]
      BY <2>2
    <3>2. NotBefore(base[l], l, w, no, A)
      BY DEF Stored, A
    <3> QED BY <3>1, <3>2 DEF NotBefore
  <2> QED BY <2>1, <2>2
<1> QED
  BY <1>1, <1>2 DEF Stored

(* Another client writes. *)
LEMMA StoredTheirs ==
  ASSUME NEW d, NEW t, NEW e, Joined(d, t, e), NEW base, NEW w, NEW no, NEW S,
         Stored(d, base, w, no, S), PutIds(t) = {}, NEW node,
         \A l \in DOMAIN node : node[l] = Theirs,
         AnsweredBy(d, Len(d), S) \subseteq 1 .. LastPut,
         NEW new, \A l \in Leaves : new[l] = IF l \in DOMAIN node THEN node[l] ELSE base[l]
  PROVE  Stored(e, new, w, no, S)
<1> DEFINE A == AnsweredBy(d, Len(d), S)
<1>1. AnsweredBy(e, Len(e), S) = A
  <2>1. AnsweredBy(e, Len(e), S) = A \cup PutIds(t)
    BY AnsweredConcat
  <2> HIDE DEF A
  <2> QED BY <2>1
<1> HIDE DEF A
<1>2. ASSUME NEW l \in Leaves
      PROVE  NotBefore(new[l], l, w, no, A)
  <2>1. CASE l \in DOMAIN node
    <3>1. ASSUME NEW j \in A PROVE Theirs \notin Older(j)
      <4>1. j \in 1 .. LastPut
        BY DEF A
      <4> QED BY <4>1, BoundsAssumption DEF Older
    <3> QED BY <2>1, <3>1 DEF NotBefore
  <2>2. CASE l \notin DOMAIN node
    BY <2>2 DEF Stored, A
  <2> QED BY <2>1, <2>2
<1> QED
  BY <1>1, <1>2 DEF Stored

(* The server takes the k-th request, those before it are listens, and     *)
(* sends t.                                                                *)
Taken(k, t) ==
  /\ \A j \in 1 .. k - 1 : up[j].type = "listen"
  /\ t \in Seq(Message)
  /\ up' = RemoveAt(up, k) /\ down' = down \o t
  /\ UNCHANGED <<tree, listens, putsToAck, written, connected>>

(* Whoever is told keeps being told. *)
Tells(k, t) ==
  /\ \A r \in watched : (\A j \in DOMAIN up : ~IsUnlisten(up, j, r)) =>
       r \in watched' /\ \A l \in r : db[l] = db'[l] \/ \E j \in DOMAIN t : Carries(t[j], l)
  /\ \A r \in ViewPaths :
       /\ IsListen(up, k, r, listens[r])
       /\ \A j \in DOMAIN t : IsListen(t, j, r, listens[r]) => t[j].ok
       => /\ r \in watched' /\ Len(t) = 2 /\ IsListen(t, 2, r, listens[r])
          /\ \A l \in r : Carries(t[1], l)

LEMMA TakenServed ==
  ASSUME IInv, FInv, NEW k \in DOMAIN up, NEW t, Taken(k, t), Tells(k, t),
         NEW S, S = DoneBy(allWrites, putsToAck, written),
         Sends(t, down', db', written, denied, denied', S),
         \A j \in DOMAIN t : t[j].type = "listen" /\ t[j].ok =>
           /\ j > 1 /\ t[j - 1].type = "data" /\ DOMAIN t[j - 1].node = t[j].path
  PROVE  FInv'
<1> DEFINE x == Tree
           acks == putsToAck
           w == written
           ls == listens
           u == up
           d == down
           on == connected
           base == db
           ws == watched
           no == denied
           e == d \o t
           v == RemoveAt(u, k)
           new == db'
           now == watched'
           more == denied'
<1>1. u \in Seq(Request) /\ d \in Seq(Message) /\ t \in Seq(Message)
  BY IInvParts DEF Taken
<1>2. /\ \A j \in 1 .. k - 1 : u[j].type = "listen"
      /\ up' = v /\ down' = e
      /\ UNCHANGED <<tree, listens, putsToAck, written, connected>>
  BY DEF Taken
<1>3. Joined(d, t, e)
  BY <1>1, ConcatJoins
<1>4. Tree' = Tree
  BY <1>2 DEF tree, Tree
<1>5. Served(x, acks, w, ls, u, d, on, base, ws, no)
  BY DEF FInv
<1>6. S = DoneBy(x.allWrites, acks, w)
  BY TreeAt
<1>7. Sends(t, e, new, w, no, more, S)
  BY <1>2
<1>8. /\ \A r \in ws : (\A j \in DOMAIN u : ~IsUnlisten(u, j, r)) =>
           r \in now /\ \A l \in r : base[l] = new[l] \/ \E j \in DOMAIN t : Carries(t[j], l)
      /\ \A r \in ViewPaths :
           /\ IsListen(u, k, r, ls[r])
           /\ \A j \in DOMAIN t : IsListen(t, j, r, ls[r]) => t[j].ok
           => /\ r \in now /\ Len(t) = 2 /\ IsListen(t, 2, r, ls[r])
              /\ \A l \in r : Carries(t[1], l)
  BY DEF Tells
<1>9. k \in DOMAIN u
  OBVIOUS
<1> HIDE DEF x, acks, w, ls, u, d, on, base, ws, no, e, new, now, more
<1>10. Watching(ls, u, d, on, ws)
  BY <1>5, <1>6, ServedParts
<1>11. ASSUME NEW r \in ViewPaths, Following(r, ls, v, e, on)
       PROVE  \/ /\ Following(r, ls, u, d, on) /\ r \in now
                 /\ \A l \in r : base[l] = new[l] \/ \E j \in DOMAIN t : Carries(t[j], l)
              \/ /\ r \in now /\ IsListen(u, k, r, ls[r])
                 /\ Len(t) = 2 /\ IsListen(t, 2, r, ls[r])
                 /\ \A l \in r : Carries(t[1], l)
  <2>1. /\ Following(r, ls, u, d, on) \/ IsListen(u, k, r, ls[r])
        /\ \A j \in DOMAIN t : IsListen(t, j, r, ls[r]) => t[j].ok
    BY <1>1, <1>3, <1>9, <1>11, FollowingHandled
  <2>2. CASE Following(r, ls, u, d, on)
    <3>1. r \in ws /\ \A j \in DOMAIN u : ~IsUnlisten(u, j, r)
      BY <1>10, <2>2 DEF Watching
    <3> QED BY <1>8, <2>2, <3>1
  <2>3. CASE IsListen(u, k, r, ls[r])
    BY <1>8, <2>1, <2>3
  <2> QED BY <2>1, <2>2, <2>3
<1>12. \A r \in ViewPaths : Following(r, ls, v, e, on) =>
         r \in now /\ (Following(r, ls, u, d, on) \/ IsListen(u, k, r, ls[r]))
  BY <1>11
<1>13. Watching(ls, v, e, on, now)
  BY <1>1, <1>2, <1>9, <1>10, <1>12, WatchingHandled
<1> HIDE DEF v
<1>14. Serves(ls, u, v, d, t, e, on, base, new)
  BY <1>11 DEF Serves
<1>15. \A j \in DOMAIN t : t[j].type = "listen" /\ t[j].ok =>
         j > 1 /\ t[j - 1].type = "data" /\ DOMAIN t[j - 1].node = t[j].path
  OBVIOUS
<1>16. Served(x, acks, w, ls, v, e, on, new, now, more)
  BY <1>3, <1>5, <1>6, <1>7, <1>13, <1>14, <1>15, ServedSent
<1> QED
  BY <1>2, <1>4, <1>16 DEF FInv, x, acks, w, ls, on, new, now, more

(* The parts of FInv and IInv the server's steps need. *)
LEMMA ServerKnows ==
  ASSUME IInv, FInv, NEW S, S = DoneBy(allWrites, putsToAck, written)
  PROVE  /\ Stored(down, db, written, denied, S)
         /\ Books(allWrites, putsToAck, written)
         /\ AnsweredBy(down, Len(down), S) \subseteq 1 .. LastPut
         /\ \A i \in PutIds(up) : \A j \in AnsweredBy(down, Len(down), S) : j <= i
<1>1. Served(Tree, putsToAck, written, listens, up, down, connected, db, watched, denied)
  BY DEF FInv
<1>2. S = DoneBy(Tree.allWrites, putsToAck, written)
  BY TreeAt
<1>3. Stored(down, db, written, denied, S) /\ Books(Tree.allWrites, putsToAck, written)
  BY <1>1, <1>2, ServedParts
<1>4. Books(allWrites, putsToAck, written)
  BY <1>3, TreeAt
<1>5. down \in Seq(Message) /\ PutsOut(allWrites, putsToAck, up, down, connected)
  BY IInvParts
<1>6. AnsweredBy(down, Len(down), S) = S \cup PutIds(down)
  BY <1>5, AnsweredAll
<1>7. /\ DOMAIN written = 1 .. Len(written) /\ Len(written) \in Nat
      /\ Ids(allWrites) \subseteq DOMAIN written
      /\ PutIds(up) \subseteq Ids(allWrites) \ Held(putsToAck)
      /\ PutIds(down) \subseteq Ids(allWrites) \ Held(putsToAck)
      /\ S \subseteq DOMAIN written
  BY IdsWritten
<1>8. Len(written) <= LastPut /\ Below(S, Ids(allWrites) \ Held(putsToAck))
  BY <1>4 DEF Books
<1>9. AnsweredBy(down, Len(down), S) \subseteq 1 .. LastPut
  <2>1. S \cup PutIds(down) \subseteq 1 .. Len(written)
    BY <1>7
  <2>2. 1 .. Len(written) \subseteq 1 .. LastPut
    BY <1>7, <1>8, BoundsAssumption
  <2> QED BY <1>6, <2>1, <2>2
<1>10. ASSUME NEW i \in PutIds(up), NEW j \in S \cup PutIds(down)
       PROVE  j <= i
  <2>1. j < i
    BY <1>5, <1>7, <1>8 DEF Below, PutsOut
  <2>2. i \in Nat /\ j \in Nat
    BY <1>7
  <2> QED BY <2>1, <2>2
<1> QED
  BY <1>3, <1>4, <1>6, <1>9, <1>10

(* A listen is answered with the data of its path. *)
LEMMA AnswerListenServed ==
  ASSUME IInv, FInv, NEW k \in DOMAIN up, NEW data, NEW m, Taken(k, <<data, m>>),
         up[k].type = "listen", data.type = "data", m.type = "listen", m.path = up[k].path, m.spec = up[k].spec,
         data.node = Child(db, up[k].path),
         watched' = watched \cup {up[k].path}, db' = db, denied' = denied
  PROVE  FInv'
<1> DEFINE S == DoneBy(allWrites, putsToAck, written)
           t == <<data, m>>
           q == up[k].path
<1>1. Stored(down, db, written, denied, S)
  BY ServerKnows
<1>2. t \in Seq(Message) /\ down' = down \o t /\ down \in Seq(Message) /\ up \in Seq(Request)
  BY IInvParts DEF Taken
<1>3. Joined(down, t, down')
  BY <1>2, ConcatJoins
<1>4. Len(t) = 2 /\ DOMAIN t = {1, 2} /\ t[1] = data /\ t[2] = m
  OBVIOUS
<1>5. q \in ViewPaths
  <2>1. up[k] \in Request
    BY <1>2
  <2> QED BY <2>1, RequestFacts
<1>6. q \subseteq Leaves
  BY <1>5, PathFacts
<1>7. DOMAIN data.node = q /\ \A l \in q : data.node[l] = db[l]
  BY DEF Child
<1>8. Taken(k, t)
  OBVIOUS
<1> HIDE DEF t, S, q
<1>9. PutIds(t) = {}
  BY <1>4 DEF PutIds
<1>10. Stored(down', db, written, denied, S)
  BY <1>1, <1>3, <1>9, StoredStill
<1>11. \A l : /\ Carries(t[1], l) <=> l \in q
              /\ ~Carries(t[2], l)
  BY <1>4, <1>7 DEF Carries
<1>12. Sends(t, down', db', written, denied, denied', S)
  BY <1>4, <1>6, <1>7, <1>10, <1>11 DEF Sends, Stored
<1>13. Tells(k, t)
  BY <1>4, <1>11 DEF Tells, IsListen, q
<1>14. \A j \in DOMAIN t : t[j].type = "listen" /\ t[j].ok =>
         j > 1 /\ t[j - 1].type = "data" /\ DOMAIN t[j - 1].node = t[j].path
  BY <1>4, <1>7 DEF q
<1> QED
  BY <1>8, <1>12, <1>13, <1>14, TakenServed DEF S

(* A listen is refused. *)
LEMMA RefuseListenServed ==
  ASSUME IInv, FInv, NEW k \in DOMAIN up, NEW m, Taken(k, <<m>>),
         up[k].type = "listen", m.type = "listen", m.path = up[k].path, m.spec = up[k].spec, ~m.ok,
         watched' = watched, db' = db, denied' = denied
  PROVE  FInv'
<1> DEFINE S == DoneBy(allWrites, putsToAck, written)
           t == <<m>>
<1>1. Stored(down, db, written, denied, S)
  BY ServerKnows
<1>2. t \in Seq(Message) /\ down' = down \o t /\ down \in Seq(Message)
  BY IInvParts DEF Taken
<1>3. Joined(down, t, down')
  BY <1>2, ConcatJoins
<1>4. DOMAIN t = {1} /\ t[1] = m
  OBVIOUS
<1>5. Taken(k, t)
  OBVIOUS
<1> HIDE DEF t, S
<1>6. PutIds(t) = {} /\ \A l : ~Carries(t[1], l)
  BY <1>4 DEF PutIds, Carries
<1>7. Stored(down', db, written, denied, S)
  BY <1>1, <1>3, <1>6, StoredStill
<1>8. Sends(t, down', db', written, denied, denied', S)
  BY <1>4, <1>6, <1>7 DEF Sends, Stored
<1>9. Tells(k, t)
  BY <1>4 DEF Tells, IsListen
<1> QED
  BY <1>4, <1>5, <1>8, <1>9, TakenServed DEF S

(* A path is not listened to any more. *)
LEMMA UnlistenServed ==
  ASSUME IInv, FInv, NEW k \in DOMAIN up, Taken(k, <<>>), up[k].type = "unlisten",
         watched' = watched \ {up[k].path}, db' = db, denied' = denied
  PROVE  FInv'
<1> DEFINE S == DoneBy(allWrites, putsToAck, written)
           t == <<>>
<1>1. Stored(down, db, written, denied, S)
  BY ServerKnows
<1>2. t \in Seq(Message) /\ down' = down \o t /\ down \in Seq(Message)
  BY IInvParts DEF Taken
<1>3. Joined(down, t, down')
  BY <1>2, ConcatJoins
<1>4. DOMAIN t = {}
  OBVIOUS
<1>5. Taken(k, t)
  OBVIOUS
<1> HIDE DEF t, S
<1>6. PutIds(t) = {}
  BY <1>4 DEF PutIds
<1>7. Stored(down', db, written, denied, S)
  BY <1>1, <1>3, <1>6, StoredStill
<1>8. Sends(t, down', db', written, denied, denied', S)
  BY <1>4, <1>7 DEF Sends, Stored
<1>9. Tells(k, t)
  BY <1>4 DEF Tells, IsListen, IsUnlisten
<1> QED
  BY <1>4, <1>5, <1>8, <1>9, TakenServed DEF S

(* A write is stored, and told to those who listen. *)
LEMMA StoreWriteServed ==
  ASSUME IInv, FInv, NEW k \in DOMAIN up, NEW ts, NEW m, NEW node, Spreads(ts, node, watched),
         Taken(k, ts \o <<m>>), up[k].type = "put", m.type = "put", m.id = up[k].id, m \in Message,
         node = WriteOf(allWrites, up[k].id).node, db' = UpdateChild(db, node),
         watched' = watched, denied' = denied
  PROVE  FInv'
<1> DEFINE S == DoneBy(allWrites, putsToAck, written)
           o == <<m>>
           t == ts \o o
           i == up[k].id
<1>1. /\ Stored(down, db, written, denied, S)
      /\ Books(allWrites, putsToAck, written)
      /\ \A n \in PutIds(up) : \A j \in AnsweredBy(down, Len(down), S) : j <= n
      /\ AnsweredBy(down, Len(down), S) \subseteq 1 .. LastPut
  BY ServerKnows
<1>2. t \in Seq(Message) /\ down' = down \o t /\ down \in Seq(Message) /\ up \in Seq(Request)
      /\ PutsOut(allWrites, putsToAck, up, down, connected) /\ allWrites \in Seq(Pending)
      /\ db \in Node(Leaves)
  BY IInvParts DEF Taken, Others
<1>3. Joined(down, t, down')
  BY <1>2, ConcatJoins
<1>4. Len(o) = 1 /\ DOMAIN o = {1} /\ o[1] = m /\ o \in Seq(Message)
  OBVIOUS
<1>5. Taken(k, t)
  OBVIOUS
<1> HIDE DEF o
<1>6. Joined(ts, o, t)
  BY <1>4, ConcatJoins DEF Spreads
<1>7. i \in PutIds(up)
  BY SpecsAt
<1>8. i \in Ids(allWrites)
  BY <1>7, IdsWritten
<1>9. /\ node \in WriteNodes /\ DOMAIN node = written[i] /\ \A l \in DOMAIN node : node[l] \in {i, Nil}
      /\ i \in 1 .. LastPut
  <2> DEFINE n == IndexOf(allWrites, i)
  <2>1. n \in DOMAIN allWrites /\ allWrites[n].id = i /\ node = allWrites[n].node
    BY <1>8, IndexOfAt DEF WriteOf
  <2> HIDE DEF n, i
  <2>2. allWrites[n].node \in WriteNodes /\ allWrites[n].id \in 1 .. LastPut
    BY <1>2, <2>1, PendingAt
  <2> QED BY <1>1, <2>1, <2>2 DEF Books
<1> HIDE DEF t, S, i
<1>10. /\ Len(t) = Len(ts) + 1 /\ Len(ts) \in Nat /\ DOMAIN t = 1 .. Len(t) /\ DOMAIN ts = 1 .. Len(ts)
       /\ \A j \in DOMAIN ts : j \in DOMAIN t /\ t[j] = ts[j]
       /\ Len(t) \in DOMAIN t /\ t[Len(t)] = m
       /\ \A j \in DOMAIN t : j = Len(t) \/ j \in DOMAIN ts
  <2>1. /\ Len(t) = Len(ts) + 1 /\ Len(ts) \in Nat /\ DOMAIN t = 1 .. Len(t) /\ DOMAIN ts = 1 .. Len(ts)
        /\ \A j \in 1 .. Len(ts) : t[j] = ts[j]
        /\ t[Len(ts) + 1] = m
    BY <1>4, <1>6 DEF Joined
  <2> QED BY <2>1
<1>11. /\ \A j \in DOMAIN t : j # Len(t) => t[j].type = "data"
       /\ \A j \in DOMAIN t : \A l : Carries(t[j], l) => l \in DOMAIN node /\ t[j].node[l] = node[l]
       /\ \A p \in watched, l \in DOMAIN node : l \in p => \E j \in DOMAIN t : Carries(t[j], l)
  <2>1. ~\E l : Carries(m, l)
    BY DEF Carries
  <2>2. \A j \in DOMAIN t : j # Len(t) => j \in DOMAIN ts /\ t[j] = ts[j]
    BY <1>10
  <2>3. \A j \in DOMAIN t : \A l : Carries(t[j], l) => l \in DOMAIN node /\ t[j].node[l] = node[l]
    BY <1>10, <2>1, <2>2 DEF Spreads
  <2>4. \A p \in watched, l \in DOMAIN node : l \in p => \E j \in DOMAIN t : Carries(t[j], l)
    <3>1. ASSUME NEW p \in watched, NEW l \in DOMAIN node, l \in p PROVE \E j \in DOMAIN t : Carries(t[j], l)
      <4>1. PICK j \in DOMAIN ts : Carries(ts[j], l)
        BY <3>1 DEF Spreads
      <4>2. j \in DOMAIN t /\ t[j] = ts[j]
        BY <1>10
      <4> QED BY <4>1, <4>2
    <3> QED BY <3>1
  <2>5. \A j \in DOMAIN t : j # Len(t) => t[j].type = "data"
    BY <2>2 DEF Spreads
  <2> QED BY <2>3, <2>4, <2>5
<1>12. PutIds(t) = {i}
  <2>1. m.type = "put" /\ m.id = i
    BY DEF i
  <2>2. ASSUME NEW x PROVE x \in PutIds(t) <=> x = i
    <3>1. \A j \in DOMAIN t : t[j].type = "put" <=> j = Len(t)
      BY <1>10, <1>11, <2>1
    <3> QED BY <1>10, <2>1, <3>1 DEF PutIds
  <2> QED BY <2>2
<1>13. DOMAIN node \subseteq Leaves /\ node \in Node(DOMAIN node)
  BY <1>9, WriteNodeFacts, PathFacts
<1>14. \A l \in Leaves : db'[l] = IF l \in DOMAIN node THEN node[l] ELSE db[l]
  <2> DEFINE q == DOMAIN node
  <2>1. node \in Node(q) /\ db \in Node(Leaves) /\ db' = UpdateChild(db, node)
    BY <1>2, <1>13
  <2> HIDE DEF q
  <2>2. ASSUME NEW l \in Leaves
        PROVE  UpdateChild(db, node)[l] = IF l \in q THEN node[l] ELSE db[l]
    BY <2>1, UpdateChildAt
  <2> QED BY <2>1, <2>2 DEF q
<1>15. \A j \in AnsweredBy(down, Len(down), S) : j \in Nat /\ j <= i
  BY <1>1, <1>7
<1> DEFINE new == db'
           e == down'
<1>16. /\ Joined(down, t, e) /\ \A l \in Leaves : new[l] = IF l \in DOMAIN node THEN node[l] ELSE db[l]
  BY <1>3, <1>14
<1>17. PutIds(t) = {i} /\ i \in 1 .. LastPut /\ DOMAIN node = written[i]
       /\ \A l \in DOMAIN node : node[l] \in {i, Nil}
  BY <1>9, <1>12
<1> HIDE DEF new, e
<1>18. Stored(e, new, written, denied, S)
  BY <1>1, <1>15, <1>16, <1>17, StoredWrite
<1>19. Sends(t, e, new, written, denied, denied, S)
  <2>1. \A j \in DOMAIN t : \A l : Carries(t[j], l) => l \in Leaves /\ t[j].node[l] = new[l]
    BY <1>11, <1>13, <1>16
  <2>2. \A j \in DOMAIN t : t[j].type = "put" => j = Len(t)
    BY <1>11
  <2> QED BY <1>18, <2>1, <2>2 DEF Sends, Stored
<1>20. ASSUME NEW r \in watched, NEW l \in r
       PROVE  db[l] = new[l] \/ \E j \in DOMAIN t : Carries(t[j], l)
  <2>1. watched \subseteq ViewPaths
    BY IInvParts DEF Others
  <2>2. l \in Leaves
    BY <2>1, PathFacts
  <2> QED BY <1>11, <1>16, <2>2
<1>21. Tells(k, t)
  BY <1>20 DEF Tells, IsListen, new
<1>22. Sends(t, down', db', written, denied, denied', S)
  BY <1>19 DEF new, e
<1>23. \A j \in DOMAIN t : t[j].type # "listen"
  BY <1>10, <1>11
<1> QED
  BY <1>5, <1>21, <1>22, <1>23, TakenServed DEF S

(* A write is refused. *)
LEMMA RefuseWriteServed ==
  ASSUME IInv, FInv, NEW k \in DOMAIN up, NEW m, Taken(k, <<m>>),
         up[k].type = "put", m.type = "put", m.id = up[k].id,
         watched' = watched, db' = db, denied' = denied \cup {up[k].id}
  PROVE  FInv'
<1> DEFINE S == DoneBy(allWrites, putsToAck, written)
           t == <<m>>
           i == up[k].id
           more == denied'
<1>1. Stored(down, db, written, denied, S)
  BY ServerKnows
<1>2. t \in Seq(Message) /\ down' = down \o t /\ down \in Seq(Message)
  BY IInvParts DEF Taken
<1>3. Joined(down, t, down')
  BY <1>2, ConcatJoins
<1>4. Len(t) = 1 /\ DOMAIN t = {1} /\ t[1] = m
  OBVIOUS
<1>5. Taken(k, t)
  OBVIOUS
<1>6. denied \subseteq more /\ i \in more
  OBVIOUS
<1> HIDE DEF t, S, more
<1>7. PutIds(t) \subseteq more /\ \A l : ~Carries(t[1], l)
  BY <1>4, <1>6 DEF PutIds, Carries
<1>8. Stored(down', db, written, more, S)
  BY <1>1, <1>3, <1>6, <1>7, StoredStill
<1>9. Sends(t, down', db', written, denied, more, S)
  BY <1>4, <1>6, <1>7, <1>8 DEF Sends, Stored
<1>10. Tells(k, t)
  BY <1>4 DEF Tells, IsListen
<1> QED
  BY <1>4, <1>5, <1>9, <1>10, TakenServed DEF S, more

(* The k-th request, for which the server does any of five things. *)
LEMMA ServerHandleServed ==
  ASSUME IInv, FInv, NEW k \in DOMAIN up, ServerHandle(k)
  PROVE  FInv'
<1> DEFINE r == up[k]
           node == WriteOf(allWrites, r.id).node
           data == [type |-> "data", node |-> Child(db, r.path)]
           listened(ok) == [type |-> "listen", path |-> r.path, spec |-> r.spec, ok |-> ok]
           wrote(ok) == [type |-> "put", id |-> r.id, ok |-> ok]
<1>1. /\ \A j \in 1 .. k - 1 : up[j].type = "listen"
      /\ up' = RemoveAt(up, k)
      /\ UNCHANGED <<tree, listens, putsToAck, written, connected>>
  BY DEF ServerHandle
<1>2. \/ /\ r.type = "listen"
         /\ watched' = watched \cup {r.path} /\ down' = down \o <<data, listened(TRUE)>>
         /\ UNCHANGED <<db, denied, troubles>>
      \/ /\ r.type = "listen"
         /\ down' = Append(down, listened(FALSE))
         /\ UNCHANGED server
      \/ /\ r.type = "unlisten"
         /\ watched' = watched \ {r.path}
         /\ UNCHANGED <<down, db, denied, troubles>>
      \/ /\ r.type = "put"
         /\ db' = UpdateChild(db, node) /\ down' = down \o Append(Pushes(node), wrote(TRUE))
         /\ UNCHANGED <<watched, denied, troubles>>
      \/ /\ r.type = "put"
         /\ denied' = denied \cup {r.id}
         /\ down' = Append(down, wrote(FALSE))
         /\ UNCHANGED <<db, watched>>
  BY DEF ServerHandle
<1>3. /\ PutsOut(allWrites, putsToAck, up, down, connected)
      /\ allWrites \in Seq(Pending) /\ up \in Seq(Request) /\ down \in Seq(Message)
      /\ db \in Node(Leaves) /\ watched \subseteq ViewPaths
  BY IInvParts DEF Others
<1>4. r \in Request
  BY <1>3
<1>5. /\ r.type = "listen" => r.path \in ViewPaths /\ r.spec \in 1 .. MaxListens
      /\ r.type = "put" => r.id \in 1 .. LastPut
  <2> HIDE DEF r
  <2> QED BY <1>4, RequestFacts
<1>6. ASSUME r.type = "listen", NEW ok \in BOOLEAN PROVE listened(ok) \in Message
  BY <1>5, <1>6 DEF Message
<1>7. ASSUME r.type = "put", NEW ok \in BOOLEAN PROVE wrote(ok) \in Message
  BY <1>5, <1>7 DEF Message
<1>8. CASE /\ r.type = "listen"
           /\ watched' = watched \cup {r.path} /\ down' = down \o <<data, listened(TRUE)>>
           /\ UNCHANGED <<db, denied, troubles>>
  <2>1. data \in Message
    <3>1. r.path \in Paths /\ r.path \in SUBSET Leaves
      BY <1>5, <1>8, PathFacts
    <3>2. Child(db, r.path) \in Node(r.path)
      BY <1>3, <3>1, ChildType
    <3>3. Child(db, r.path) \in UNION {Node(x) : x \in Paths}
      <4>1. Node(r.path) \in {Node(x) : x \in Paths}
        BY <3>1
      <4> QED BY <3>2, <4>1
    <3> HIDE DEF r
    <3> QED BY <3>3 DEF Message
  <2> DEFINE m == listened(TRUE)
  <2>2. m \in Message /\ m.type = "listen" /\ m.path = r.path /\ m.spec = r.spec
    BY <1>6, <1>8
  <2>3. data.type = "data" /\ data.node = Child(db, r.path)
    OBVIOUS
  <2> HIDE DEF m, data
  <2>4. Taken(k, <<data, m>>)
    BY <1>1, <1>8, <2>1, <2>2 DEF Taken, m
  <2> QED BY <1>8, <2>2, <2>3, <2>4, AnswerListenServed
<1>9. CASE /\ r.type = "listen"
           /\ down' = Append(down, listened(FALSE))
           /\ UNCHANGED server
  <2> DEFINE m == listened(FALSE)
  <2>1. m \in Message /\ m.type = "listen" /\ m.path = r.path /\ m.spec = r.spec /\ ~m.ok
    BY <1>6, <1>9
  <2>2. down' = Append(down, m)
    BY <1>9
  <2> HIDE DEF m
  <2>3. down' = down \o <<m>>
    BY <1>3, <2>1, <2>2
  <2>4. Taken(k, <<m>>)
    BY <1>1, <2>1, <2>3 DEF Taken
  <2> QED BY <1>9, <2>1, <2>4, RefuseListenServed DEF server
<1>10. CASE /\ r.type = "unlisten"
            /\ watched' = watched \ {r.path}
            /\ UNCHANGED <<down, db, denied, troubles>>
  <2>1. down' = down \o <<>>
    BY <1>3, <1>10
  <2>2. Taken(k, <<>>)
    BY <1>1, <2>1 DEF Taken
  <2> QED BY <1>10, <2>2, UnlistenServed
<1>11. CASE /\ r.type = "put"
            /\ db' = UpdateChild(db, node) /\ down' = down \o Append(Pushes(node), wrote(TRUE))
            /\ UNCHANGED <<watched, denied, troubles>>
  <2>1. r.id \in Ids(allWrites)
    <3>1. r.id \in PutIds(up)
      BY <1>11, SpecsAt
    <3> QED BY <3>1, IdsWritten
  <2>2. node \in Nodes
    <3>1. IndexOf(allWrites, r.id) \in DOMAIN allWrites
      BY <2>1, IndexOfAt
    <3> QED BY <1>3, <3>1, PendingAt, WriteNodeFacts DEF WriteOf
  <2> DEFINE m == wrote(TRUE)
             ts == Pushes(node)
             n == node
  <2>3. m \in Message /\ m.type = "put" /\ m.id = r.id
    BY <1>7, <1>11
  <2>4. Spreads(ts, n, watched)
    BY <1>3, <2>2, PushesSpread
  <2>5. down' = down \o Append(ts, m)
    BY <1>11
  <2>6. n = WriteOf(allWrites, r.id).node /\ db' = UpdateChild(db, n)
    BY <1>11
  <2> HIDE DEF m, ts, node, n
  <2>7. ts \in Seq(Message)
    BY <2>4 DEF Spreads
  <2>8. Append(ts, m) = ts \o <<m>> /\ ts \o <<m>> \in Seq(Message)
    BY <2>3, <2>7
  <2>9. Taken(k, ts \o <<m>>)
    BY <1>1, <2>5, <2>8 DEF Taken
  <2>10. watched' = watched /\ denied' = denied
    BY <1>11
  <2> QED BY <1>11, <2>3, <2>4, <2>6, <2>9, <2>10, StoreWriteServed
<1>12. CASE /\ r.type = "put"
            /\ denied' = denied \cup {r.id}
            /\ down' = Append(down, wrote(FALSE))
            /\ UNCHANGED <<db, watched>>
  <2> DEFINE m == wrote(FALSE)
  <2>1. m \in Message /\ m.type = "put" /\ m.id = r.id
    BY <1>7, <1>12
  <2>2. down' = Append(down, m)
    BY <1>12
  <2> HIDE DEF m
  <2>3. down' = down \o <<m>>
    BY <1>3, <2>1, <2>2
  <2>4. Taken(k, <<m>>)
    BY <1>1, <2>1, <2>3 DEF Taken
  <2> QED BY <1>12, <2>1, <2>4, RefuseWriteServed
<1> QED
  BY <1>2, <1>8, <1>9, <1>10, <1>11, <1>12

(* Another client writes. *)
LEMMA OtherWritesServed ==
  ASSUME IInv, FInv, NEW p \in WritePaths, OtherWrites(p)
  PROVE  FInv'
<1> DEFINE S == DoneBy(allWrites, putsToAck, written)
           node == [l \in p |-> Theirs]
           t == Pushes(node)
           e == down \o t
           new == db'
<1>1. /\ db' = UpdateChild(db, node) /\ down' = e
      /\ UNCHANGED <<tree, wire, written, connected, watched, denied>>
  BY DEF OtherWrites
<1>2. down \in Seq(Message) /\ db \in Node(Leaves) /\ watched \subseteq ViewPaths
  BY IInvParts DEF Others
<1>3. p \in Paths /\ node \in Node(p) /\ DOMAIN node = p /\ \A l \in p : node[l] = Theirs
  BY PathFacts DEF Node, Values
<1>4. node \in Nodes
  <2>1. Node(p) \in {Node(x) : x \in Paths}
    BY <1>3
  <2> QED BY <1>3, <2>1 DEF Nodes
<1>5. Spreads(t, node, watched)
  BY <1>2, <1>4, PushesSpread
<1>6. \A l \in Leaves : new[l] = IF l \in p THEN node[l] ELSE db[l]
  <2>1. ASSUME NEW l \in Leaves
        PROVE  UpdateChild(db, node)[l] = IF l \in p THEN node[l] ELSE db[l]
    BY <1>2, <1>3, UpdateChildAt
  <2> QED BY <1>1, <2>1
<1>7. /\ Stored(down, db, written, denied, S)
      /\ AnsweredBy(down, Len(down), S) \subseteq 1 .. LastPut
  BY ServerKnows
<1>8. Tree' = Tree /\ listens' = listens /\ putsToAck' = putsToAck /\ up' = up
  BY <1>1 DEF tree, Tree, wire
<1>9. S = DoneBy(Tree.allWrites, putsToAck, written)
  BY TreeAt
<1> HIDE DEF t, node
<1>10. Joined(down, t, e)
  BY <1>2, <1>5, ConcatJoins DEF Spreads
<1>11. \A j \in DOMAIN t : t[j].type = "data"
  BY <1>5 DEF Spreads
<1>12. PutIds(t) = {}
  BY <1>11 DEF PutIds
<1> HIDE DEF e, new, S
<1>13. Stored(e, new, written, denied, S)
  BY <1>3, <1>6, <1>7, <1>10, <1>12, StoredTheirs
<1>14. Sends(t, e, new, written, denied, denied, S)
  <2>1. \A j \in DOMAIN t : \A l : Carries(t[j], l) => l \in Leaves /\ t[j].node[l] = new[l]
    <3>1. p \subseteq Leaves
      BY PathFacts
    <3> QED BY <1>3, <1>5, <1>6, <3>1 DEF Spreads
  <2> QED BY <1>11, <1>13, <2>1 DEF Sends, Stored
<1> DEFINE x == Tree
           acks == putsToAck
           w == written
           ls == listens
           u == up
           d == down
           on == connected
           base == db
           ws == watched
           no == denied
<1>15. Served(x, acks, w, ls, u, d, on, base, ws, no)
  BY DEF FInv
<1>16. /\ S = DoneBy(x.allWrites, acks, w) /\ Joined(d, t, e) /\ Sends(t, e, new, w, no, no, S)
       /\ \A l \in Leaves : new[l] = IF l \in p THEN node[l] ELSE base[l]
       /\ Spreads(t, node, ws) /\ ws \subseteq ViewPaths
  BY <1>2, <1>5, <1>6, <1>9, <1>10, <1>14
<1> HIDE DEF x, acks, w, ls, u, d, on, base, ws, no
<1>17. Watching(ls, u, d, on, ws)
  BY <1>15, <1>16, ServedParts
<1>18. ASSUME NEW r \in ViewPaths, Following(r, ls, u, e, on)
       PROVE  /\ Following(r, ls, u, d, on) /\ r \in ws
              /\ \A l \in r : base[l] = new[l] \/ \E j \in DOMAIN t : Carries(t[j], l)
  <2>1. Following(r, ls, u, d, on)
    BY <1>16, <1>18, FollowingConcat
  <2>2. r \in ws
    BY <1>17, <2>1 DEF Watching
  <2>3. ASSUME NEW l \in r PROVE base[l] = new[l] \/ \E j \in DOMAIN t : Carries(t[j], l)
    <3>1. l \in Leaves
      BY PathFacts
    <3>2. CASE l \in p
      BY <1>3, <1>16, <2>2, <3>2 DEF Spreads
    <3>3. CASE l \notin p
      BY <1>16, <3>1, <3>3
    <3> QED BY <3>2, <3>3
  <2> QED BY <2>1, <2>2, <2>3
<1>19. Watching(ls, u, e, on, ws)
  BY <1>17, <1>18 DEF Watching
<1>20. Serves(ls, u, u, d, t, e, on, base, new)
  BY <1>18 DEF Serves
<1>21. \A j \in DOMAIN t : t[j].type = "listen" /\ t[j].ok =>
         j > 1 /\ t[j - 1].type = "data" /\ DOMAIN t[j - 1].node = t[j].path
  BY <1>11
<1>22. Served(x, acks, w, ls, u, e, on, new, ws, no)
  BY <1>15, <1>16, <1>19, <1>20, <1>21, ServedSent
<1> QED
  BY <1>1, <1>8, <1>22 DEF FInv, x, acks, w, ls, u, on, new, ws, no

LEMMA InitFInv ==
  ASSUME Init
  PROVE  FInv
<1>1. /\ allWrites = <<>> /\ regs = [p \in ViewPaths |-> {}] /\ visibleWrites = {}
      /\ listens = [p \in ViewPaths |-> 0] /\ written = <<>>
      /\ putsToAck = <<>> /\ up = <<>> /\ down = <<>>
      /\ db = [l \in Leaves |-> Initial] /\ watched = {} /\ denied = {}
  BY DEF Init
<1> DEFINE S == DoneBy(allWrites, putsToAck, written)
<1>2. DOMAIN allWrites = {} /\ DOMAIN written = {} /\ Len(written) = 0 /\ DOMAIN down = {} /\ DOMAIN up = {}
      /\ down \in Seq(Message)
  BY <1>1
<1>3. S = {} /\ Ids(allWrites) = {}
  BY <1>2 DEF DoneBy, Ids
<1>4. Books(allWrites, putsToAck, written)
  BY <1>2, <1>3, BoundsAssumption DEF Books, Below, DoneBy
<1>5. Viewed(regs) = {}
  BY <1>1 DEF Viewed
<1>6. PutIds(down) = {}
  BY <1>2 DEF PutIds
<1>7. AnsweredBy(down, Len(down), S) = {}
  BY <1>2, <1>3, <1>6, AnsweredAll
<1> HIDE DEF S
<1>8. Stored(down, db, written, denied, S)
  BY <1>7 DEF Stored, NotBefore
<1>9. DataSafe(down, written, denied, S) /\ Preceded(Tree, listens, down)
  BY <1>2 DEF DataSafe, Preceded
<1>10. \A r \in ViewPaths : listens[r] = 0
  BY <1>1
<1>11. /\ Watching(listens, up, down, connected, watched)
       /\ Feeds(Tree, listens, up, down, connected, db, written, denied, S)
  BY <1>2, <1>10 DEF Watching, Feeds, Following
<1>12. Remembered(Tree, written, denied) /\ Grounded(Tree)
  BY <1>5, TreeAt DEF Remembered, Grounded
<1>13. S = DoneBy(Tree.allWrites, putsToAck, written) /\ Books(Tree.allWrites, putsToAck, written)
  BY <1>4, TreeAt DEF S
<1>14. Served(Tree, putsToAck, written, listens, up, down, connected, db, watched, denied)
  BY <1>8, <1>9, <1>11, <1>12, <1>13, ServedParts
<1> QED
  BY <1>14 DEF FInv

LEMMA NextFInv ==
  ASSUME IInv, FInv, [Next]_vars
  PROVE  FInv'
<1>1. CASE Application /\ UNCHANGED troubles
  <2>1. CASE \E p \in WritePaths, remove \in BOOLEAN : Set(p, remove)
    BY <1>1, <2>1, SetServed
  <2>2. CASE \E p \in ViewPaths, kind \in Kinds : Observe(p, kind)
    BY <1>1, <2>2, ObserveServed
  <2>3. CASE \E p \in ViewPaths : RemoveObserver(p, "on")
    <3>1. "on" \in Kinds
      BY DEF Kinds
    <3> QED BY <1>1, <2>3, <3>1, RemoveObserverServed
  <2> QED BY <1>1, <2>1, <2>2, <2>3 DEF Application
<1>2. CASE Queue /\ UNCHANGED troubles
  <2>1. CASE RemoveCalled
    <3>1. "once" \in Kinds
      BY DEF Kinds
    <3>2. PICK p \in fired : RemoveObserver(p, "once")
      BY <2>1 DEF RemoveCalled
    <3>3. p \in ViewPaths
      <4>1. Tree.fired \in SUBSET ViewPaths
        BY IInvParts, TreeFields DEF Sound
      <4> QED BY <4>1, TreeAt
    <3> QED BY <1>2, <3>1, <3>2, <3>3, RemoveObserverServed
  <2> QED BY <1>2, <2>1, OnDataServed, OnPutServed, OnListenServed, RestoreServed DEF Queue
<1>3. CASE Drop
  BY <1>3, DropServed
<1>4. CASE \E k \in DOMAIN up : ServerHandle(k)
  BY <1>4, ServerHandleServed
<1>5. CASE \E p \in WritePaths : OtherWrites(p)
  BY <1>5, OtherWritesServed
<1>6. CASE UNCHANGED vars
  <2>1. /\ UNCHANGED <<allWrites, visibleWrites, regs, views, raised, fired>>
        /\ UNCHANGED <<listens, putsToAck, up, db, watched, denied, written, connected, down>>
    BY <1>6 DEF vars, tree, wire, server
  <2>2. Tree' = Tree
    BY <2>1 DEF Tree
  <2> QED BY <2>1, <2>2 DEF FInv
<1> QED
  BY <1>1, <1>2, <1>3, <1>4, <1>5, <1>6 DEF Next

(* What every listened path is told, and what the server stores, is not    *)
(* from before the writes it answered; nothing a view keeps is from before *)
(* a write that was acknowledged.                                          *)
THEOREM NothingOlderIsSent == Spec => [](IInv /\ FInv)
<1>1. Init => IInv /\ FInv
  BY InitIInv, InitFInv
<1>2. IInv /\ FInv /\ [Next]_vars => IInv' /\ FInv'
  BY NextIInv, NextFInv
<1> QED
  BY <1>1, <1>2, PTL DEF Spec

(* What a view shows of a leaf, when writes are acknowledged in order: the *)
(* last pending write of it, or the server's value.                        *)
LEMMA ShownNow ==
  ASSUME IInv, InOrder, NEW p \in Viewed(regs), views[p].eventFull, NEW l \in p
  PROVE  /\ \A k : LastAt(allWrites, l, k) => views[p].event[l] = allWrites[k].node[l]
         /\ (\A k \in DOMAIN allWrites : l \notin DOMAIN allWrites[k].node) =>
              views[p].event[l] = views[p].server[l]
<1>1. LayeredBut(visibleWrites, allWrites, {}) /\ allWrites \in Seq(Pending)
  BY NothingStale
<1>2. Faithful(views[p], p, visibleWrites)
  <2>1. FaithfulBut(Tree, {})
    BY IInvParts DEF Consistent
  <2>2. \A q \in Viewed(Tree.regs) : Faithful(Tree.views[q], q, Tree.visibleWrites)
    BY <2>1, FaithfulNone
  <2> QED BY <2>2, TreeAt
<1> DEFINE v == views[p].server[l]
<1>3. views[p].event[l] = Shown(visibleWrites, l, v)
  BY <1>2 DEF Faithful
<1> HIDE DEF v
<1>4. ASSUME NEW k, LastAt(allWrites, l, k) PROVE Shown(visibleWrites, l, v) = allWrites[k].node[l]
  <2> DEFINE none == {}
  <2>1. l \notin none /\ LayeredBut(visibleWrites, allWrites, none) /\ allWrites \in Seq(Pending)
    BY <1>1
  <2> HIDE DEF none
  <2>2. LastAt(allWrites, l, k)
    BY <1>4
  <2> QED BY <2>1, <2>2, LayeredShows
<1>5. ASSUME \A k \in DOMAIN allWrites : l \notin DOMAIN allWrites[k].node
      PROVE  Shown(visibleWrites, l, v) = v
  BY <1>1, <1>5, LayeredShowsServer
<1> QED
  BY <1>3, <1>4, <1>5 DEF v

(* Write i, or a later one, is the last pending one of a leaf it wrote. *)
LEMMA LastIsLater ==
  ASSUME IInv, FInv, InOrder, NEW i \in DOMAIN written, NEW l \in written[i], NEW k, LastAt(allWrites, l, k)
  PROVE  allWrites[k].id >= i /\ allWrites[k].node[l] \notin Older(i)
<1>1. /\ allWrites \in Seq(Pending) /\ WellFormed(Tree)
  BY IInvParts DEF Sound
<1>2. Ascending(allWrites)
  BY <1>1, TreeAt DEF WellFormed
<1>3. Books(allWrites, putsToAck, written)
  BY ServerKnows
<1>4. k \in DOMAIN allWrites /\ l \in DOMAIN allWrites[k].node
      /\ \A j \in DOMAIN allWrites : j > k => l \notin DOMAIN allWrites[j].node
  BY DEF LastAt
<1> DEFINE n == allWrites[k].id
<1>5. n \in Ids(allWrites) /\ n \in 1 .. LastPut
  BY <1>1, <1>4, IdsAt
<1>6. i \in Nat
  BY IdsWritten
<1>7. n >= i
  <2>1. CASE i \in Ids(allWrites)
    <3>1. PICK j \in DOMAIN allWrites : allWrites[j].id = i
      BY <1>1, <2>1, IdsAt
    <3>2. l \in DOMAIN allWrites[j].node
      BY <1>3, <3>1 DEF Books
    <3>3. j = k \/ j < k
      <4>1. j \in Nat /\ k \in Nat
        BY <1>1, <1>4, LenProperties
      <4> QED BY <1>4, <3>2, <4>1
    <3> QED BY <1>2, <1>4, <1>5, <1>6, <3>1, <3>3, BoundsAssumption DEF Ascending
  <2>2. CASE i \notin Ids(allWrites)
    BY <1>5, <1>6, <2>2, BoundsAssumption DEF InOrder
  <2> QED BY <2>1, <2>2
<1>8. allWrites[k].node[l] \in {n, Nil}
  BY <1>3, <1>4 DEF Books
<1> HIDE DEF n
<1>9. n \notin Older(i) /\ Nil \notin Older(i)
  <2>1. Nil \notin 1 .. LastPut /\ Nil # Initial /\ n # Initial /\ n \in Nat
    BY <1>5, BoundsAssumption
  <2>2. i - 1 < LastPut
    BY <1>5, <1>6, <1>7, BoundsAssumption
  <2>3. Nil \notin 1 .. i - 1
    BY <1>6, <2>1, <2>2, BoundsAssumption
  <2>4. n \notin 1 .. i - 1
    BY <1>6, <1>7, <2>1
  <2> QED BY <2>1, <2>3, <2>4 DEF Older
<1> QED
  BY <1>7, <1>8, <1>9 DEF n

(* No observer is shown a value from before a write of its own application *)
(* that was not refused, when writes are acknowledged in order: not while  *)
(* the write is pending, when it is sent again after a loss, or afterwards. *)
THEOREM OwnWritesStayShown == Spec => []NeverOlder
<1>1. ASSUME IInv, FInv, InOrder, NEW p \in Viewed(regs), NEW i \in DOMAIN written \ denied,
             views[p].eventFull, NEW l \in p \cap written[i]
      PROVE  views[p].event[l] \notin Older(i)
  <2>1. allWrites \in Seq(Pending) /\ LayeredBut(visibleWrites, allWrites, {})
    BY <1>1, NothingStale
  <2>2. CASE \E k \in DOMAIN allWrites : l \in DOMAIN allWrites[k].node
    <3>1. PICK k : LastAt(allWrites, l, k)
      BY <2>1, <2>2, LastExists
    <3>2. views[p].event[l] = allWrites[k].node[l]
      BY <1>1, <3>1, ShownNow
    <3> QED BY <1>1, <3>1, <3>2, LastIsLater
  <2>3. CASE \A k \in DOMAIN allWrites : l \notin DOMAIN allWrites[k].node
    <3>1. views[p].event[l] = views[p].server[l]
      BY <1>1, <2>3, ShownNow
    <3>2. Remembered(Tree, written, denied) /\ Grounded(Tree)
      <4>1. Served(Tree, putsToAck, written, listens, up, down, connected, db, watched, denied)
        BY <1>1 DEF FInv
      <4> QED BY <4>1, ServedParts
    <3>3. ~HasCompleteWrite(visibleWrites, p)
      <4>1. ASSUME NEW w \in visibleWrites, p \subseteq DOMAIN w PROVE FALSE
        <5>1. PICK k \in DOMAIN allWrites : DOMAIN w = DOMAIN allWrites[k].node
          BY <2>1 DEF LayeredBut
        <5> QED BY <1>1, <2>3, <4>1, <5>1
      <4> QED BY <4>1 DEF HasCompleteWrite, Covering
    <3>4. views[p].serverFull
      BY <1>1, <3>2, <3>3, TreeAt DEF Grounded
    <3>5. i \notin Ids(allWrites)
      <4>1. ASSUME NEW k \in DOMAIN allWrites, allWrites[k].id = i PROVE FALSE
        <5>1. Books(allWrites, putsToAck, written)
          BY <1>1, ServerKnows
        <5>2. DOMAIN allWrites[k].node = written[i]
          BY <4>1, <5>1 DEF Books
        <5> QED BY <1>1, <2>3, <5>2
      <4> QED BY <2>1, <4>1, IdsAt
    <3>6. NotBefore(views[p].server[l], l, written, denied, DOMAIN written \ Ids(allWrites))
      BY <1>1, <3>2, <3>4, TreeAt DEF Remembered
    <3> QED BY <1>1, <3>1, <3>5, <3>6 DEF NotBefore
  <2> QED BY <2>2, <2>3
<1>2. IInv /\ FInv => NeverOlder
  BY <1>1 DEF NeverOlder
<1> QED
  BY <1>2, NothingOlderIsSent, PTL

(* When every request and message was handled and nothing is pending all   *)
(* observers are shown the server's data.                                  *)
THEOREM AnsweredIsCurrent == Spec => []Converged
<1>1. ASSUME IInv, FInv, connected, up = <<>>, down = <<>>, allWrites = <<>>, NEW p \in Viewed(regs)
      PROVE  views[p].eventFull /\ views[p].event = Child(db, p)
  <2>1. /\ Filled(Tree) /\ WellFormed(Tree) /\ Listening(listens, listenCalls, Roots(regs))
        /\ Waits(listens, views, up, down, connected) /\ db \in Node(Leaves)
    BY <1>1, IInvParts DEF Sound, Others
  <2>2. DOMAIN up = {} /\ DOMAIN down = {} /\ Len(down) = 0 /\ DOMAIN allWrites = {}
    BY <1>1
  <2>3. PICK r \in Roots(regs) : p \subseteq r
    BY RootAbove
  <2>4. r \in Viewed(regs) /\ r \in ViewPaths /\ p \in ViewPaths
    BY DEF Roots, Viewed
  <2>5. listens[r] # 0
    BY <2>1, <2>4 DEF Listening
  <2>6. ~Asked(up, r, listens[r]) /\ ~Asked(down, r, listens[r])
    BY <2>2 DEF Asked
  <2>7. views[r].serverFull
    BY <1>1, <2>1, <2>4, <2>5, <2>6 DEF Waits
  <2>8. views[p].serverFull
    BY <2>1, <2>3, <2>4, <2>7, TreeAt DEF Filled
  <2>9. views[p].eventFull
    BY <2>1, <2>8, TreeAt DEF Filled
  <2>10. ASSUME NEW l \in p PROVE views[p].server[l] = db[l]
    <3> DEFINE S == DoneBy(allWrites, putsToAck, written)
               B == Base(Tree, r, l)
               x == views[p].server[l]
    <3>1. Feeds(Tree, listens, up, down, connected, db, written, denied, S)
      <4>1. Served(Tree, putsToAck, written, listens, up, down, connected, db, watched, denied)
        BY <1>1 DEF FInv
      <4>2. S = DoneBy(Tree.allWrites, putsToAck, written)
        BY TreeAt
      <4> QED BY <4>1, <4>2, ServedParts
    <3>2. Following(r, listens, up, down, connected)
      BY <1>1, <2>2, <2>5, <2>6 DEF Following
    <3>3. UpToDate(l, B, down, db[l], r, listens[r], written, denied, S)
      BY <2>3, <2>4, <2>10, <3>1, <3>2 DEF Feeds
    <3>4. x \in B
      BY <2>3, <2>8, <2>10, TreeAt DEF Base
    <3> HIDE DEF B, x, S
    <3>5. Sees(down, l, B, Len(down), x)
      BY <2>2, <3>4 DEF Sees
    <3> QED BY <3>3, <3>5 DEF UpToDate, x
  <2>11. ASSUME NEW l \in p PROVE views[p].event[l] = db[l]
    <3>1. InOrder
      <4>1. Ids(allWrites) = {}
        BY <2>2 DEF Ids
      <4> QED BY <4>1 DEF InOrder
    <3>2. views[p].event[l] = views[p].server[l]
      BY <1>1, <2>2, <2>9, <2>11, <3>1, ShownNow
    <3> QED BY <2>10, <3>2
  <2>12. views[p].event \in Node(p) /\ Child(db, p) \in Node(p) /\ \A l \in p : Child(db, p)[l] = db[l]
    <3>1. views[p].event \in Node(p)
      <4>1. views[p] \in ViewOf(p)
        BY <2>1, <2>4, TreeAt DEF WellFormed
      <4> QED BY <4>1 DEF ViewOf
    <3>2. p \in SUBSET Leaves
      BY <2>4, PathFacts
    <3> QED BY <2>1, <3>1, <3>2, ChildType
  <2> DEFINE n == views[p].event
             o == Child(db, p)
  <2>13. n \in Node(p) /\ o \in Node(p) /\ \A l \in p : n[l] = o[l]
    BY <2>11, <2>12
  <2> HIDE DEF n, o
  <2>14. n = o
    BY <2>13, NodesEqual
  <2> QED BY <2>9, <2>14 DEF n, o
<1>2. IInv /\ FInv => Converged
  BY <1>1 DEF Converged
<1> QED
  BY <1>2, NothingOlderIsSent, PTL

=============================================================================
