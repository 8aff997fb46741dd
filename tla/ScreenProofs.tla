---------------------------- MODULE ScreenProofs ----------------------------
(***************************************************************************)
(* Facts about calls and timeouts as Screen moves them, for the proofs     *)
(* about the screens: what is left of a sequence, which elements of one    *)
(* are of a kind, and what becomes of the calls when one is made, answered *)
(* or back, or when nobody waits for them any more.                        *)
(***************************************************************************)
EXTENDS Screen, Counting, FunctionTheorems, SequenceTheorems

\* What is left of a sequence when elements are dropped, added or changed is told
\* by its length and its elements.
IsSequence(s) == Len(s) \in Nat /\ s = [k \in 1 .. Len(s) |-> s[k]]

\* A sequence is what SMT takes for one.
LEMMA SequenceFacts ==
  ASSUME NEW s, IsSequence(s)
  PROVE  /\ DOMAIN s = 1 .. Len(s)
         /\ s \in Seq({s[k] : k \in DOMAIN s})
  BY DEF IsSequence

\* And what SMT takes for one is a sequence.
LEMMA SeqIsSequence ==
  ASSUME NEW S, NEW s \in Seq(S)
  PROVE  IsSequence(s) /\ DOMAIN s = 1 .. Len(s)
  <1>1. Len(s) \in Nat /\ s \in [1 .. Len(s) -> S]
    BY LenProperties
  <1> QED BY <1>1, Zenon DEF IsSequence

\* So is a function on the first numbers.
LEMMA FunctionIsSequence ==
  ASSUME NEW n \in Nat, NEW s, s = [k \in 1 .. n |-> s[k]]
  PROVE  IsSequence(s) /\ Len(s) = n
  BY DEF IsSequence

\* Two sequences are equal where their lengths and elements are.
LEMMA SameSequence ==
  ASSUME NEW s, NEW w, IsSequence(s), IsSequence(w), Len(s) = Len(w), \A k \in 1 .. Len(s) : s[k] = w[k]
  PROVE  s = w
  BY DEF IsSequence

\* A slice of a sequence.
LEMMA SliceFacts ==
  ASSUME NEW s, IsSequence(s), NEW m \in Nat \ {0}, NEW n \in Nat, n <= Len(s), m <= n + 1
  PROVE  /\ IsSequence(SubSeq(s, m, n)) /\ Len(SubSeq(s, m, n)) = n - m + 1
         /\ \A k \in 1 .. n - m + 1 : SubSeq(s, m, n)[k] = s[m + k - 1]
  <1> DEFINE S == {s[k] : k \in DOMAIN s}
             w == SubSeq(s, m, n)
  <1>1. s \in Seq(S) /\ DOMAIN s = 1 .. Len(s) /\ Len(s) \in Nat
    BY SequenceFacts DEF IsSequence
  <1>2. \A k \in m .. n : s[k] \in S
    BY <1>1
  <1>3. /\ w \in Seq(S) /\ Len(w) = IF m <= n THEN n - m + 1 ELSE 0
        /\ \A k \in 1 .. n - m + 1 : w[k] = s[m + k - 1]
    BY <1>2, SubSeqProperties
  <1>4. IsSequence(w)
    BY <1>3, SeqIsSequence
  <1>5. (IF m <= n THEN n - m + 1 ELSE 0) = n - m + 1
    OBVIOUS
  <1> QED BY <1>3, <1>4, <1>5

\* RemoveAt closes the gap.
LEMMA RemoveAtFacts ==
  ASSUME NEW s, IsSequence(s), NEW i \in DOMAIN s
  PROVE  /\ IsSequence(RemoveAt(s, i)) /\ Len(RemoveAt(s, i)) = Len(s) - 1
         /\ DOMAIN RemoveAt(s, i) = 1 .. Len(s) - 1
         /\ \A k \in DOMAIN RemoveAt(s, i) :
              /\ k \in 1 .. Len(s) - 1
              /\ RemoveAt(s, i)[k] = s[IF k < i THEN k ELSE k + 1]
              /\ (IF k < i THEN k ELSE k + 1) \in DOMAIN s \ {i}
  <1> DEFINE S == {s[k] : k \in DOMAIN s}
             a == SubSeq(s, 1, i - 1)
             b == SubSeq(s, i + 1, Len(s))
  <1>1. s \in Seq(S) /\ DOMAIN s = 1 .. Len(s) /\ Len(s) \in Nat
    BY SequenceFacts DEF IsSequence
  <1>2. a \in Seq(S) /\ Len(a) = i - 1 /\ \A k \in 1 .. i - 1 : a[k] = s[k]
    <2>1. \A k \in 1 .. i - 1 : s[k] \in S
      BY <1>1
    <2>2. 1 \in Int /\ i - 1 \in Int /\ i >= 1
      BY <1>1
    <2>3. \A k \in 1 .. (i - 1) - 1 + 1 : a[k] = s[1 + k - 1]
      BY <2>1, <2>2, SubSeqProperties
    <2>4. \A k \in 1 .. i - 1 : 1 + k - 1 = k /\ k \in 1 .. (i - 1) - 1 + 1
      BY <2>2
    <2>5. a \in Seq(S) /\ Len(a) = IF 1 <= i - 1 THEN (i - 1) - 1 + 1 ELSE 0
      BY <2>1, <2>2, SubSeqProperties
    <2>6. (IF 1 <= i - 1 THEN (i - 1) - 1 + 1 ELSE 0) = i - 1
      BY <1>1
    <2> QED BY <2>3, <2>4, <2>5, <2>6
  <1>3. b \in Seq(S) /\ Len(b) = Len(s) - i /\ \A k \in 1 .. Len(s) - i : b[k] = s[i + k]
    <2>1. \A k \in i + 1 .. Len(s) : s[k] \in S
      BY <1>1
    <2>2. i + 1 \in Int /\ Len(s) \in Int /\ i <= Len(s) /\ i \in Nat
      BY <1>1
    <2>3. \A k \in 1 .. Len(s) - (i + 1) + 1 : b[k] = s[i + 1 + k - 1]
      BY <2>1, <2>2, SubSeqProperties
    <2>4. \A k \in 1 .. Len(s) - i : i + 1 + k - 1 = i + k /\ k \in 1 .. Len(s) - (i + 1) + 1
      BY <2>2
    <2>5. b \in Seq(S) /\ Len(b) = Len(s) - i
      BY <2>1, <2>2, SubSeqProperties
    <2> QED BY <2>3, <2>4, <2>5
  <1>4. RemoveAt(s, i) = a \o b
    BY DEF RemoveAt
  <1> HIDE DEF a, b
  <1>5. a \o b \in Seq(S) /\ Len(a \o b) = Len(s) - 1
    <2>1. Len(a \o b) = Len(a) + Len(b) /\ a \o b \in Seq(S)
      BY <1>2, <1>3, ConcatProperties
    <2> QED BY <1>1, <1>2, <1>3, <2>1
  <1>6. \A k \in 1 .. Len(s) - 1 : (a \o b)[k] = s[IF k < i THEN k ELSE k + 1]
    <2>1. \A k \in 1 .. Len(a) + Len(b) :
            (a \o b)[k] = IF k <= Len(a) THEN a[k] ELSE b[k - Len(a)]
      BY <1>2, <1>3, ConcatProperties
    <2> TAKE k \in 1 .. Len(s) - 1
    <2>2. CASE k < i
      BY <1>1, <1>2, <1>3, <2>1, <2>2
    <2>3. CASE ~(k < i)
      <3>0. i \in Int /\ Len(s) \in Int /\ k \in Int /\ 1 <= i /\ i <= k /\ k <= Len(s) - 1
        BY <1>1, <2>3
      <3>a. k \in 1 .. Len(a) + Len(b) /\ ~(k <= Len(a))
        BY <1>2, <1>3, <3>0
      <3>1. (a \o b)[k] = b[k - (i - 1)] /\ k - (i - 1) \in 1 .. Len(s) - i
        BY <1>2, <2>1, <3>0, <3>a
      <3>2. i + (k - (i - 1)) = k + 1
        BY <1>1
      <3> QED BY <1>3, <2>3, <3>1, <3>2
    <2> QED BY <2>2, <2>3
  <1>7. DOMAIN (a \o b) = 1 .. Len(s) - 1
    BY <1>1, <1>5, LenProperties
  <1>8. IsSequence(a \o b)
    BY <1>5, SeqIsSequence
  <1>9. \A k \in 1 .. Len(s) - 1 : (IF k < i THEN k ELSE k + 1) \in DOMAIN s \ {i}
    BY <1>1
  <1> QED BY <1>4, <1>5, <1>6, <1>7, <1>8, <1>9

\* What is appended comes last.
LEMMA AppendFacts ==
  ASSUME NEW s, IsSequence(s), NEW e
  PROVE  /\ IsSequence(Append(s, e)) /\ Len(Append(s, e)) = Len(s) + 1
         /\ DOMAIN Append(s, e) = DOMAIN s \union {Len(s) + 1}
         /\ \A k \in DOMAIN s : Append(s, e)[k] = s[k]
         /\ Append(s, e)[Len(s) + 1] = e
  <1> DEFINE S == {s[k] : k \in DOMAIN s} \union {e}
  <1>1. s \in Seq(S) /\ DOMAIN s = 1 .. Len(s) /\ Len(s) \in Nat
    BY SequenceFacts DEF IsSequence
  <1>2. Append(s, e) \in Seq(S) /\ Len(Append(s, e)) = Len(s) + 1
    BY <1>1
  <1>3. /\ \A k \in DOMAIN s : Append(s, e)[k] = s[k]
        /\ Append(s, e)[Len(s) + 1] = e
    BY <1>1
  <1>4. IsSequence(Append(s, e)) /\ DOMAIN Append(s, e) = 1 .. Len(s) + 1
    BY <1>2, SeqIsSequence
  <1> QED BY <1>1, <1>2, <1>3, <1>4

\* Appending one element is sending one call.
LEMMA ConcatOne ==
  ASSUME NEW s, IsSequence(s), NEW e
  PROVE  s \o <<e>> = Append(s, e) /\ Len(<<e>>) = 1
  <1> DEFINE S == {s[k] : k \in DOMAIN s} \union {e}
  <1>1. s \in Seq(S)
    BY SequenceFacts DEF IsSequence
  <1> QED BY <1>1

\* The timeout that fires is one of the pending ones.
LEMMA FirstFacts ==
  ASSUME IsSequence(timers), NEW kind, Pending(kind)
  PROVE  First(kind) \in DOMAIN timers /\ timers[First(kind)] = kind
  <1> DEFINE T == {k \in DOMAIN timers : timers[k] = kind}
  <1>1. DOMAIN timers = 1 .. Len(timers) /\ Len(timers) \in Nat
    BY SequenceFacts DEF IsSequence
  <1>2. T \subseteq Nat /\ T # {}
    BY <1>1 DEF Pending
  <1>3. PICK m \in T : \A n \in T : m <= n
    BY <1>2, LeastNumber
  <1>4. \A j \in 1 .. m - 1 : timers[j] # kind
    <2> TAKE j \in 1 .. m - 1
    <2>1. j \in 1 .. Len(timers) /\ j < m
      BY <1>1
    <2> QED BY <1>1, <1>3, <2>1
  <1> QED BY <1>3, <1>4 DEF First

\* The calls that remain when those at the places gone have come back, or when the
\* screen is left: all others, except that nobody may wait for them any more.
Abandoned(c) == [c EXCEPT !.live = FALSE]

Matches(f, new, old, gone) ==
  /\ f \in [DOMAIN new -> DOMAIN old \ gone]
  /\ \A j, k \in DOMAIN new : f[j] = f[k] => j = k
  /\ \A i \in DOMAIN old \ gone : \E k \in DOMAIN new : f[k] = i
  /\ \A k \in DOMAIN new : new[k] = old[f[k]] \/ new[k] = Abandoned(old[f[k]])

Remains(new, old, gone) ==
  IsSequence(new) /\ Len(new) <= Len(old) /\ \E f : Matches(f, new, old, gone)

\* One call has come back.
LEMMA OneGone ==
  ASSUME NEW cs, IsSequence(cs), NEW i \in DOMAIN cs
  PROVE  Remains(RemoveAt(cs, i), cs, {i})
  <1> DEFINE new == RemoveAt(cs, i)
             f == [k \in DOMAIN new |-> IF k < i THEN k ELSE k + 1]
  <1>1. DOMAIN cs = 1 .. Len(cs) /\ Len(cs) \in Nat
    BY SequenceFacts DEF IsSequence
  <1>2. /\ IsSequence(new) /\ Len(new) = Len(cs) - 1 /\ DOMAIN new = 1 .. Len(cs) - 1
        /\ \A k \in DOMAIN new : new[k] = cs[f[k]] /\ f[k] \in DOMAIN cs \ {i}
    BY RemoveAtFacts
  <1> HIDE DEF new
  <1>3. f \in [DOMAIN new -> DOMAIN cs \ {i}]
    BY <1>2
  <1>4. \A j, k \in DOMAIN new : f[j] = f[k] => j = k
    BY <1>1, <1>2
  <1>5. \A j \in DOMAIN cs \ {i} : \E k \in DOMAIN new : f[k] = j
    <2> TAKE j \in DOMAIN cs \ {i}
    <2>1. CASE j < i
      BY <1>1, <1>2, <2>1
    <2>2. CASE ~(j < i)
      <3>1. j - 1 \in DOMAIN new /\ f[j - 1] = j
        BY <1>1, <1>2, <2>2
      <3> QED BY <3>1
    <2> QED BY <2>1, <2>2
  <1> HIDE DEF f
  <1>6. Len(new) <= Len(cs)
    BY <1>1, <1>2
  <1>7. Matches(f, new, cs, {i})
    BY <1>2, <1>3, <1>4, <1>5 DEF Matches
  <1> QED BY <1>2, <1>6, <1>7 DEF Remains, new

\* Nothing has come back.
LEMMA NoneGone ==
  ASSUME NEW cs, IsSequence(cs)
  PROVE  Remains(cs, cs, {})
  <1> DEFINE f == [k \in DOMAIN cs |-> k]
  <1>1. Matches(f, cs, cs, {})
    BY DEF Matches
  <1>2. Len(cs) <= Len(cs)
    BY DEF IsSequence
  <1> QED BY <1>1, <1>2 DEF Remains

\* Leaving the screen keeps the calls.
LEMMA LeftRemains ==
  ASSUME NEW new, NEW old, NEW gone, Remains(new, old, gone)
  PROVE  Remains(Left(new), old, gone) /\ DOMAIN Left(new) = DOMAIN new
  <1>1. IsSequence(new) /\ Len(new) <= Len(old) /\ DOMAIN new = 1 .. Len(new) /\ Len(new) \in Nat
    BY SequenceFacts DEF Remains, IsSequence
  <1>2. DOMAIN Left(new) = DOMAIN new /\ IsSequence(Left(new)) /\ Len(Left(new)) = Len(new)
    <2>1. Left(new) = [k \in 1 .. Len(new) |-> Left(new)[k]]
      BY <1>1 DEF Left
    <2> QED BY <1>1, <2>1, FunctionIsSequence DEF Left
  <1>3. \A k \in DOMAIN new : Left(new)[k] = Abandoned(new[k])
    BY DEF Left, Abandoned
  <1>4. \A c : Abandoned(Abandoned(c)) = Abandoned(c)
    BY DEF Abandoned
  <1>5. PICK f : Matches(f, new, old, gone)
    BY DEF Remains
  <1>6. \A k \in DOMAIN new : Left(new)[k] = Abandoned(old[f[k]])
    <2> TAKE k \in DOMAIN new
    <2>1. CASE new[k] = old[f[k]]
      BY <1>3, <2>1
    <2>2. CASE new[k] = Abandoned(old[f[k]])
      BY <1>3, <1>4, <2>2
    <2> QED BY <1>5, <2>1, <2>2 DEF Matches
  <1>7. Matches(f, Left(new), old, gone)
    BY <1>2, <1>5, <1>6 DEF Matches
  <1>8. Len(Left(new)) <= Len(old)
    BY <1>1, <1>2
  <1> QED BY <1>2, <1>7, <1>8 DEF Remains

(* How often something is in a sequence *)

Places(s, e) == {k \in DOMAIN s : s[k] = e}
Times(s, e) == Cardinality(Places(s, e))

\* A sequence has finitely many places.
LEMMA PlacesFacts ==
  ASSUME NEW s, IsSequence(s), NEW e
  PROVE  /\ IsFiniteSet(Places(s, e)) /\ Times(s, e) \in Nat
         /\ Times(s, e) = 0 <=> \A k \in DOMAIN s : s[k] # e
  <1>1. DOMAIN s = 1 .. Len(s) /\ Len(s) \in Nat
    BY SequenceFacts DEF IsSequence
  <1>2. IsFiniteSet(1 .. Len(s)) /\ Places(s, e) \subseteq 1 .. Len(s)
    BY <1>1, FS_Interval DEF Places
  <1>3. IsFiniteSet(Places(s, e))
    BY <1>2, FS_Subset
  <1>4. Times(s, e) \in Nat /\ (Times(s, e) = 0 <=> Places(s, e) = {})
    BY <1>3, FS_CardinalityType, FS_EmptySet DEF Times
  <1> QED BY <1>3, <1>4 DEF Places

\* At the end it is there once more.
LEMMA TimesAppend ==
  ASSUME NEW s, IsSequence(s), NEW d, NEW e
  PROVE  Times(Append(s, d), e) = Times(s, e) + (IF d = e THEN 1 ELSE 0)
  <1> DEFINE w == Append(s, d)
             n == Len(s) + 1
  <1>1. DOMAIN w = DOMAIN s \union {n} /\ (\A k \in DOMAIN s : w[k] = s[k]) /\ w[n] = d
    BY AppendFacts
  <1>2. n \notin DOMAIN s
    BY SequenceFacts DEF IsSequence
  <1> HIDE DEF w, n
  <1>3. IsFiniteSet(Places(s, e)) /\ Times(s, e) \in Nat
    BY PlacesFacts
  <1>4. CASE d = e
    <2>1. Places(w, e) = Places(s, e) \union {n} /\ n \notin Places(s, e)
      BY <1>1, <1>2, <1>4 DEF Places
    <2> QED BY <1>3, <1>4, <2>1, FS_AddElement DEF Times, w
  <1>5. CASE d # e
    <2>1. Places(w, e) = Places(s, e)
      BY <1>1, <1>2, <1>5 DEF Places
    <2> QED BY <1>3, <1>5, <2>1 DEF Times, w
  <1> QED BY <1>4, <1>5

\* Taken out it is there once less.
LEMMA TimesRemove ==
  ASSUME NEW s, IsSequence(s), NEW i \in DOMAIN s, NEW e
  PROVE  Times(RemoveAt(s, i), e) = Times(s, e) - (IF s[i] = e THEN 1 ELSE 0)
  <1> DEFINE w == RemoveAt(s, i)
             T == Places(s, e) \ {i}
             f == [k \in Places(w, e) |-> IF k < i THEN k ELSE k + 1]
  <1>1. /\ DOMAIN s = 1 .. Len(s) /\ Len(s) \in Nat /\ IsSequence(w)
        /\ DOMAIN w = 1 .. Len(s) - 1
        /\ \A k \in DOMAIN w : w[k] = s[IF k < i THEN k ELSE k + 1]
    BY SequenceFacts, RemoveAtFacts DEF IsSequence
  <1> HIDE DEF w
  <1>2. f \in [Places(w, e) -> T]
    BY <1>1 DEF Places
  <1>3. \A a, b \in Places(w, e) : f[a] = f[b] => a = b
    BY <1>1 DEF Places
  <1>4. \A t \in T : \E k \in Places(w, e) : f[k] = t
    <2> SUFFICES ASSUME NEW t \in T PROVE \E k \in Places(w, e) : f[k] = t
      OBVIOUS
    <2>1. t \in 1 .. Len(s) /\ t # i /\ i \in 1 .. Len(s) /\ s[t] = e
      BY <1>1 DEF Places
    <2>2. CASE t < i
      BY <1>1, <2>1, <2>2 DEF Places
    <2>3. CASE t > i
      <3>1. t - 1 \in DOMAIN w /\ ~(t - 1 < i) /\ t - 1 + 1 = t
        BY <1>1, <2>1, <2>3
      <3>2. w[t - 1] = s[t]
        BY <1>1, <3>1
      <3>3. t - 1 \in Places(w, e) /\ f[t - 1] = t
        BY <2>1, <3>1, <3>2 DEF Places
      <3> QED BY <3>3
    <2> QED BY <2>1, <2>2, <2>3
  <1> HIDE DEF f
  <1>5. ExistsBijection(Places(w, e), T)
    <2>1. f \in Bijection(Places(w, e), T)
      BY <1>2, <1>3, <1>4, Fun_IsBij
    <2> QED BY <2>1, Fun_ExistsBij
  <1>6. IsFiniteSet(Places(w, e)) /\ IsFiniteSet(Places(s, e)) /\ Times(s, e) \in Nat /\ Times(w, e) \in Nat
    BY <1>1, PlacesFacts
  <1>7. Times(w, e) = Cardinality(T)
    BY <1>5, <1>6, FS_Bijection DEF Times
  <1>8. CASE s[i] = e
    <2>1. i \in Places(s, e)
      BY <1>8 DEF Places
    <2> QED BY <1>6, <1>7, <1>8, <2>1, FS_RemoveElement DEF Times, w
  <1>9. CASE s[i] # e
    <2>1. T = Places(s, e)
      BY <1>9 DEF Places
    <2> QED BY <1>6, <1>7, <1>9, <2>1 DEF Times, w
  <1> QED BY <1>8, <1>9

(* Calls *)

\* What a call is, and a sequence of them.
Shape(c) ==
  c \in [op : {c.op}, resource : {c.resource}, arg : {c.arg}, live : BOOLEAN,
         reply : [status : {"waiting", "ok", "failed"}, value : {c.reply.value}], overtaken : BOOLEAN]

Shaped(cs) == IsSequence(cs) /\ Len(cs) <= MaxCalls /\ \A k \in DOMAIN cs : Shape(cs[k])

\* Two calls that differ at most in having been overtaken.
Alike(d, c) ==
  /\ Shape(d)
  /\ d.op = c.op /\ d.resource = c.resource /\ d.arg = c.arg
  /\ d.live = c.live /\ d.reply = c.reply

\* What a call is made for: revoking all sessions is a job of its own.
Job(c) == IF c.op = "revoke" /\ c.arg = "all" THEN "revokeAll" ELSE c.op

Does(c, job) == c.live /\ Job(c) = job

\* A job is under way, and no two calls do it.
Working(cs, job) == \E k \in DOMAIN cs : Does(cs[k], job)
Alone(cs, job) == \A j, k \in DOMAIN cs : Does(cs[j], job) /\ Does(cs[k], job) => j = k

\* Where the k-th call was before the i-th was taken out.
Slot(k, i) == IF k < i THEN k ELSE k + 1

\* The i-th call is taken out: the others stay in their order, and the earlier ones
\* for the same callback have been overtaken.
TakenOut(new, old, i) ==
  /\ DOMAIN new \subseteq Nat /\ DOMAIN old \subseteq Nat
  /\ \A k \in DOMAIN new :
       /\ Slot(k, i) \in DOMAIN old \ {i}
       /\ Alike(new[k], old[Slot(k, i)])
       /\ new[k].overtaken <=> old[Slot(k, i)].overtaken \/ (Slot(k, i) < i /\ old[Slot(k, i)].op = old[i].op)
  /\ \A j \in DOMAIN old \ {i} : \E k \in DOMAIN new : Slot(k, i) = j

\* A call is put after the others.
Extended(new, old, c) ==
  \E n \in Nat \ DOMAIN old :
    /\ DOMAIN old \subseteq Nat /\ DOMAIN new = DOMAIN old \union {n}
    /\ new[n] = c /\ \A k \in DOMAIN old : k < n /\ new[k] = old[k]

\* The i-th call has come back and the others remain.
Ended(new, old, i) ==
  /\ Shaped(new) /\ Len(new) = Len(old) - 1
  /\ TakenOut(new, old, i)
  /\ \A k \in DOMAIN new : \E j \in DOMAIN old : Alike(new[k], old[j])
  /\ \A job : Working(old, job) => Working(new, job) \/ Does(old[i], job)
  /\ \A job : Working(new, job) => Working(old, job) /\ ~(Alone(old, job) /\ Does(old[i], job))
  /\ \A job : Alone(old, job) => Alone(new, job)

\* A call has been made after the others.
Made(new, old, c) ==
  /\ Shaped(new) /\ Len(new) = Len(old) + 1
  /\ Extended(new, old, c)
  /\ \A k \in DOMAIN new : new[k] = c \/ \E j \in DOMAIN old : new[k] = old[j]
  /\ \A job : Working(new, job) <=> Working(old, job) \/ Does(c, job)
  /\ \A job : Alone(old, job) /\ ~(Working(old, job) /\ Does(c, job)) => Alone(new, job)

\* The i-th call has been answered.
Answered(new, old, i, reply) ==
  /\ Shaped(new) /\ DOMAIN new = DOMAIN old
  /\ \A k \in DOMAIN new \ {i} : new[k] = old[k]
  /\ new[i].op = old[i].op /\ new[i].resource = old[i].resource /\ new[i].arg = old[i].arg
  /\ new[i].live = old[i].live /\ new[i].reply = reply /\ new[i].overtaken = old[i].overtaken
  /\ \A job : (Working(new, job) <=> Working(old, job)) /\ (Alone(old, job) => Alone(new, job))

\* Nobody waits for the calls any more.
Dropped(new, old) ==
  /\ Shaped(new) /\ DOMAIN new = DOMAIN old /\ Len(new) = Len(old)
  /\ \A k \in DOMAIN new :
       /\ new[k].op = old[k].op /\ new[k].resource = old[k].resource /\ new[k].arg = old[k].arg
       /\ new[k].reply = old[k].reply /\ ~new[k].live
  /\ \A job : ~Working(new, job) /\ Alone(new, job)

\* What remains when the i-th call is taken out of cs.
Without(cs, i) ==
  RemoveAt([j \in DOMAIN cs |->
              [cs[j] EXCEPT !.overtaken = @ \/ (j < i /\ cs[j].op = cs[i].op)]], i)

\* Taking out a call leaves the others in order, and the earlier ones like it overtaken.
LEMMA EndedFacts ==
  ASSUME NEW cs, Shaped(cs), NEW i \in DOMAIN cs
  PROVE  Ended(Without(cs, i), cs, i)
  <1> DEFINE F == [j \in DOMAIN cs |->
                     [cs[j] EXCEPT !.overtaken = @ \/ (j < i /\ cs[j].op = cs[i].op)]]
             new == RemoveAt(F, i)
             g(k) == Slot(k, i)
             late(j) == cs[j].overtaken \/ (j < i /\ cs[j].op = cs[i].op)
  <1>1. IsSequence(cs) /\ DOMAIN cs = 1 .. Len(cs) /\ Len(cs) \in Nat /\ Len(cs) <= MaxCalls
    BY SequenceFacts DEF Shaped, IsSequence
  <1>2. IsSequence(F) /\ Len(F) = Len(cs)
    <2>1. F = [k \in 1 .. Len(cs) |-> F[k]]
      BY <1>1
    <2> QED BY <1>1, <2>1, FunctionIsSequence
  <1>3. \A j \in DOMAIN cs : Alike(F[j], cs[j]) /\ (F[j].overtaken <=> late(j))
    <2> TAKE j \in DOMAIN cs
    <2>1. Shape(cs[j])
      BY DEF Shaped
    <2>2. F[j] = [cs[j] EXCEPT !.overtaken = cs[j].overtaken \/ (j < i /\ cs[j].op = cs[i].op)]
      OBVIOUS
    <2> DEFINE b == cs[j].overtaken \/ (j < i /\ cs[j].op = cs[i].op)
    <2>3. b \in BOOLEAN
      BY Zenon
    <2>4. b <=> late(j)
      OBVIOUS
    <2> HIDE DEF b, late
    <2>5. F[j] = [cs[j] EXCEPT !.overtaken = b]
      BY <2>2 DEF b
    <2> HIDE DEF F
    <2>6. Alike(F[j], cs[j]) /\ F[j].overtaken = b
      BY <2>1, <2>3, <2>5 DEF Shape, Alike
    <2> QED BY <2>4, <2>6
  <1>4. i \in DOMAIN F /\ DOMAIN F = DOMAIN cs
    OBVIOUS
  <1> HIDE DEF F
  <1>5. /\ IsSequence(new) /\ Len(new) = Len(cs) - 1 /\ DOMAIN new = 1 .. Len(cs) - 1
        /\ \A k \in DOMAIN new : new[k] = F[g(k)] /\ g(k) \in DOMAIN cs \ {i}
    <2>1. /\ IsSequence(RemoveAt(F, i)) /\ Len(RemoveAt(F, i)) = Len(F) - 1
          /\ DOMAIN RemoveAt(F, i) = 1 .. Len(F) - 1
          /\ \A k \in DOMAIN RemoveAt(F, i) :
               /\ k \in 1 .. Len(F) - 1
               /\ RemoveAt(F, i)[k] = F[IF k < i THEN k ELSE k + 1]
               /\ (IF k < i THEN k ELSE k + 1) \in DOMAIN F \ {i}
      BY <1>2, <1>4, RemoveAtFacts, Zenon
    <2>2. Len(new) = Len(cs) - 1 /\ DOMAIN new = 1 .. Len(cs) - 1
      BY <1>2, <2>1
    <2>3. \A k \in DOMAIN new : new[k] = F[g(k)] /\ g(k) \in DOMAIN cs \ {i}
      BY <1>4, <2>1, Zenon DEF Slot
    <2> QED BY <2>1, <2>2, <2>3
  <1> HIDE DEF new, late
  <1>6. \A k \in DOMAIN new : /\ g(k) \in DOMAIN cs \ {i} /\ Alike(new[k], cs[g(k)])
                              /\ new[k].overtaken <=> late(g(k))
    BY <1>3, <1>5
  <1>7. \A j, k \in DOMAIN new : g(j) = g(k) => j = k
    BY <1>1, <1>5 DEF Slot
  <1>8. \A j \in DOMAIN cs \ {i} : \E k \in DOMAIN new : g(k) = j
    <2> TAKE j \in DOMAIN cs \ {i}
    <2>1. CASE j < i
      BY <1>1, <1>5, <2>1 DEF Slot
    <2>2. CASE ~(j < i)
      <3>1. j - 1 \in DOMAIN new /\ g(j - 1) = j
        BY <1>1, <1>5, <2>2 DEF Slot
      <3> QED BY <3>1
    <2> QED BY <2>1, <2>2
  <1> HIDE DEF g
  <1>9. \A k \in DOMAIN new : \A job : Does(new[k], job) <=> Does(cs[g(k)], job)
    BY <1>6 DEF Does, Job, Alike
  <1>10. Shaped(new)
    BY <1>1, <1>5, <1>6, BoundsAssumption DEF Shaped, Alike
  <1>11. \A job : Working(cs, job) => Working(new, job) \/ Does(cs[i], job)
    BY <1>8, <1>9 DEF Working
  <1>12. \A job : Working(new, job) => Working(cs, job) /\ ~(Alone(cs, job) /\ Does(cs[i], job))
    BY <1>6, <1>9 DEF Working, Alone
  <1>13. \A job : Alone(cs, job) => Alone(new, job)
    BY <1>6, <1>7, <1>9 DEF Alone
  <1>14. TakenOut(new, cs, i)
    BY <1>1, <1>5, <1>6, <1>8 DEF TakenOut, g, late
  <1>15. Ended(new, cs, i)
    BY <1>5, <1>6, <1>10, <1>11, <1>12, <1>13, <1>14 DEF Ended
  <1> QED BY <1>15 DEF Without, new, F

\* A call made is the last one.
LEMMA MadeFacts ==
  ASSUME NEW cs, Shaped(cs), NEW c, Shape(c), Len(cs) + 1 <= MaxCalls
  PROVE  Made(cs \o <<c>>, cs, c)
  <1> DEFINE new == Append(cs, c)
  <1>1. IsSequence(cs) /\ DOMAIN cs = 1 .. Len(cs) /\ Len(cs) \in Nat
    BY SequenceFacts DEF Shaped, IsSequence
  <1>2. cs \o <<c>> = new
    BY <1>1, ConcatOne
  <1>3. /\ IsSequence(new) /\ Len(new) = Len(cs) + 1
        /\ DOMAIN new = DOMAIN cs \union {Len(cs) + 1}
        /\ \A k \in DOMAIN cs : new[k] = cs[k]
        /\ new[Len(cs) + 1] = c
    BY <1>1, AppendFacts
  <1> HIDE DEF new
  <1>4. Shaped(new)
    BY <1>1, <1>3 DEF Shaped
  <1>5. \A job : Working(new, job) <=> Working(cs, job) \/ Does(c, job)
    BY <1>1, <1>3 DEF Working
  <1>6. \A job : Alone(cs, job) /\ ~(Working(cs, job) /\ Does(c, job)) => Alone(new, job)
    BY <1>1, <1>3 DEF Alone, Working
  <1>7. Extended(new, cs, c)
    <2> DEFINE n == Len(cs) + 1
    <2>1. n \in Nat \ DOMAIN cs /\ DOMAIN cs \subseteq Nat /\ \A k \in DOMAIN cs : k < n
      BY <1>1
    <2>2. DOMAIN new = DOMAIN cs \union {n} /\ new[n] = c /\ \A k \in DOMAIN cs : new[k] = cs[k]
      BY <1>3
    <2> HIDE DEF n
    <2> QED BY <2>1, <2>2 DEF Extended
  <1> QED BY <1>2, <1>3, <1>4, <1>5, <1>6, <1>7 DEF Made

\* An answer changes the reply of its call alone.
LEMMA AnsweredFacts ==
  ASSUME NEW cs, Shaped(cs), NEW i \in DOMAIN cs, NEW r,
         r \in [status : {"waiting", "ok", "failed"}, value : {r.value}]
  PROVE  Answered([cs EXCEPT ![i].reply = r], cs, i, r)
  <1> DEFINE new == [cs EXCEPT ![i].reply = r]
  <1>1. IsSequence(cs) /\ DOMAIN cs = 1 .. Len(cs) /\ Len(cs) \in Nat
    BY SequenceFacts DEF Shaped, IsSequence
  <1>2. DOMAIN new = DOMAIN cs /\ \A k \in DOMAIN new \ {i} : new[k] = cs[k]
    OBVIOUS
  <1>3. new[i] = [cs[i] EXCEPT !.reply = r]
    OBVIOUS
  <1>4. IsSequence(new) /\ Len(new) = Len(cs)
    <2>1. new = [k \in 1 .. Len(cs) |-> new[k]]
      BY <1>1
    <2> QED BY <1>1, <2>1, FunctionIsSequence
  <1> HIDE DEF new
  <1>5. Shape(cs[i])
    BY DEF Shaped
  <1>6. /\ Shape(new[i])
        /\ new[i].op = cs[i].op /\ new[i].resource = cs[i].resource /\ new[i].arg = cs[i].arg
        /\ new[i].live = cs[i].live /\ new[i].reply = r /\ new[i].overtaken = cs[i].overtaken
    BY <1>3, <1>5 DEF Shape
  <1>7. Shaped(new)
    BY <1>1, <1>2, <1>4, <1>6 DEF Shaped
  <1>8. \A k \in DOMAIN cs : \A job : Does(new[k], job) <=> Does(cs[k], job)
    BY <1>2, <1>6 DEF Does, Job
  <1>9. \A job : (Working(new, job) <=> Working(cs, job)) /\ (Alone(cs, job) => Alone(new, job))
    BY <1>2, <1>8 DEF Working, Alone
  <1> QED BY <1>2, <1>6, <1>7, <1>9 DEF Answered, new

\* A screen that is left has no live call.
LEMMA DroppedFacts ==
  ASSUME NEW cs, Shaped(cs)
  PROVE  Dropped(Left(cs), cs)
  <1> DEFINE new == Left(cs)
  <1>1. IsSequence(cs) /\ DOMAIN cs = 1 .. Len(cs) /\ Len(cs) \in Nat
    BY SequenceFacts DEF Shaped, IsSequence
  <1>2. DOMAIN new = DOMAIN cs /\ \A k \in DOMAIN cs : new[k] = [cs[k] EXCEPT !.live = FALSE]
    BY DEF Left
  <1>3. IsSequence(new) /\ Len(new) = Len(cs)
    <2>1. new = [k \in 1 .. Len(cs) |-> new[k]]
      BY <1>1 DEF Left
    <2> QED BY <1>1, <2>1, FunctionIsSequence
  <1> HIDE DEF new
  <1>4. \A k \in DOMAIN new :
          /\ Shape(new[k])
          /\ new[k].op = cs[k].op /\ new[k].resource = cs[k].resource /\ new[k].arg = cs[k].arg
          /\ new[k].reply = cs[k].reply /\ ~new[k].live
    <2> TAKE k \in DOMAIN new
    <2>1. Shape(cs[k]) /\ new[k] = [cs[k] EXCEPT !.live = FALSE]
      BY <1>2 DEF Shaped
    <2> QED BY <2>1 DEF Shape
  <1>5. Shaped(new)
    BY <1>1, <1>3, <1>4 DEF Shaped
  <1>6. \A job : ~Working(new, job) /\ Alone(new, job)
    BY <1>4 DEF Working, Alone, Does
  <1> QED BY <1>2, <1>3, <1>4, <1>5, <1>6 DEF Dropped, new
=============================================================================
