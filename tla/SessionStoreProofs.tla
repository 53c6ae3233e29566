-------------------------- MODULE SessionStoreProofs --------------------------
(***************************************************************************)
(* What holds of a session for any number of requests, rewriters, messages *)
(* and crashes: IInv is inductive, it implies the invariants of            *)
(* SessionStore, and the session implements Conversation.  First the lists *)
(* of messages and what a compaction makes of them, by the least place     *)
(* where two recursions could differ; then the disks an operation goes     *)
(* through, one lemma per action, the theorems and the refinement.         *)
(***************************************************************************)
EXTENDS SessionStore, SequenceTheorems, WellFoundedInduction, TLAPS

(* Every nonempty set of natural numbers has a least element.              *)
LEMMA Least ==
    ASSUME NEW S, S \subseteq Nat, S # {}
    PROVE  \E x \in S : \A y \in S : x <= y
<1>1. PICK x \in S : \A y \in S : ~ (<<y, x>> \in OpToRel(<, Nat))
  BY WFMin, NatLessThanWellFounded
<1>2. ASSUME NEW y \in S PROVE x <= y
  <2>1. ~(<<y, x>> \in {p \in Nat \X Nat : p[1] < p[2]})
    BY <1>1 DEF OpToRel
  <2> QED BY <2>1
<1> QED BY <1>2

(* What OfRoles goes through is determined by its recursion.               *)
Filtered(g, ms, roles) ==
    g = [n \in 0..Len(ms) |->
            IF n = 0 THEN <<>>
            ELSE IF ms[n].role \in roles THEN Append(g[n - 1], ms[n]) ELSE g[n - 1]]

(* There is one such function: two would differ at a least place.          *)
LEMMA FilteredOnce ==
    ASSUME NEW ms \in Seq(Message), NEW roles, NEW f, NEW g,
           Filtered(f, ms, roles), Filtered(g, ms, roles)
    PROVE  f = g
<1>1. Len(ms) \in Nat
  BY LenProperties
<1> DEFINE Differ == {n \in 0..Len(ms) : f[n] # g[n]}
<1>2. ASSUME Differ # {} PROVE FALSE
  <2>0. Differ \subseteq Nat
    BY <1>1
  <2>1. PICK x \in Differ : \A y \in Differ : x <= y
    <3> HIDE DEF Differ
    <3> QED BY <1>2, <2>0, Least
  <2>2. x \in 0..Len(ms) /\ f[x] # g[x]
    OBVIOUS
  <2>3. CASE x = 0
    BY <2>2, <2>3, <1>1 DEF Filtered
  <2>4. CASE x > 0
    <3>1. x - 1 \in 0..Len(ms) /\ ~(x <= x - 1) /\ x # 0
      BY <1>1, <2>2, <2>4
    <3>2. f[x - 1] = g[x - 1]
      BY <2>1, <3>1
    <3>3. /\ f[x] = IF ms[x].role \in roles THEN Append(f[x - 1], ms[x]) ELSE f[x - 1]
          /\ g[x] = IF ms[x].role \in roles THEN Append(g[x - 1], ms[x]) ELSE g[x - 1]
      BY <2>2, <3>1 DEF Filtered
    <3> QED BY <2>2, <3>2, <3>3
  <2> QED BY <1>1, <2>2, <2>3, <2>4
<1>3. \A n \in 0..Len(ms) : f[n] = g[n]
  BY <1>2
<1> QED BY <1>3 DEF Filtered

(* So whatever satisfies the recursion says what OfRoles is.               *)
LEMMA OfRolesIs ==
    ASSUME NEW ms \in Seq(Message), NEW roles, NEW g, Filtered(g, ms, roles)
    PROVE  OfRoles(ms, roles) = g[Len(ms)]
<1> DEFINE f == CHOOSE f : Filtered(f, ms, roles)
<1>1. Filtered(f, ms, roles)
  OBVIOUS
<1>2. OfRoles(ms, roles) = f[Len(ms)]
  BY DEF OfRoles, Filtered
<1>3. f = g
  BY <1>1, FilteredOnce
<1> QED BY <1>2, <1>3

(* Of a list whose system messages come first, OfRoles takes the head or   *)
(* the rest.                                                               *)
LEMMA SystemHead ==
    ASSUME NEW ms \in Seq(Message), SystemFirst(ms)
    PROVE  \E k \in 0..Len(ms) : \A i \in 1..Len(ms) : ms[i].role = "system" <=> i <= k
<1> DEFINE S == {n \in 0..Len(ms) : \A i \in 1..Len(ms) : i > n => ms[i].role # "system"}
<1>1. Len(ms) \in Nat
  BY LenProperties
<1>2. S \subseteq Nat /\ Len(ms) \in S
  BY <1>1
<1>3. PICK k \in S : \A n \in S : k <= n
  <2> HIDE DEF S
  <2> QED BY <1>2, Least
<1>4. k \in 0..Len(ms) /\ \A i \in 1..Len(ms) : i > k => ms[i].role # "system"
  OBVIOUS
<1>5. ASSUME k > 0 PROVE ms[k].role = "system"
  <2>1. k - 1 \in 0..Len(ms) /\ ~(k <= k - 1) /\ k \in 1..Len(ms)
    BY <1>1, <1>4, <1>5
  <2>2. k - 1 \notin S
    BY <1>3, <2>1
  <2>3. PICK i \in 1..Len(ms) : i > k - 1 /\ ms[i].role = "system"
    BY <2>1, <2>2
  <2>4. i = k
    BY <1>1, <1>4, <2>1, <2>3
  <2> QED BY <2>3, <2>4
<1>6. ASSUME NEW i \in 1..Len(ms), i <= k PROVE ms[i].role = "system"
  <2>1. k \in 1..Len(ms) /\ (i = k \/ i < k)
    BY <1>1, <1>4, <1>6
  <2> QED BY <1>5, <2>1 DEF SystemFirst
<1>7. \A i \in 1..Len(ms) : i <= k \/ i > k
  BY <1>1, <1>4
<1> QED BY <1>4, <1>6, <1>7

(* A piece of a list with one more message.                                *)
LEMMA SubSeqGrows ==
    ASSUME NEW ms \in Seq(Message), NEW a \in 1..(Len(ms) + 1), NEW n \in a..Len(ms)
    PROVE  SubSeq(ms, a, n) = Append(SubSeq(ms, a, n - 1), ms[n])
<1>1. Len(ms) \in Nat /\ ms[n] \in Message /\ n \in 1..Len(ms)
  BY LenProperties, ElementOfSeq
<1>2. /\ SubSeq(ms, a, n) \in Seq(Message) /\ Len(SubSeq(ms, a, n)) = n - a + 1
      /\ \A i \in 1..(n - a + 1) : SubSeq(ms, a, n)[i] = ms[a + i - 1]
  BY <1>1, SubSeqProperties
<1>3. /\ SubSeq(ms, a, n - 1) \in Seq(Message) /\ Len(SubSeq(ms, a, n - 1)) = n - a
      /\ \A i \in 1..(n - a) : SubSeq(ms, a, n - 1)[i] = ms[a + i - 1]
  <2>1. a \in 1..(Len(ms) + 1) /\ n - 1 \in (a - 1)..Len(ms)
    BY <1>1
  <2>2. IF a <= n - 1 THEN n - 1 - a + 1 = n - a ELSE n - a = 0
    BY <1>1
  <2> QED BY <1>1, <2>1, <2>2, SubSeqProperties
<1> DEFINE s == SubSeq(ms, a, n - 1)
<1>4. /\ Append(s, ms[n]) \in Seq(Message) /\ Len(Append(s, ms[n])) = n - a + 1
      /\ \A i \in 1..(n - a) : Append(s, ms[n])[i] = s[i]
      /\ Append(s, ms[n])[n - a + 1] = ms[n]
  BY <1>1, <1>3, AppendProperties
<1>5. \A i \in 1..(n - a + 1) : SubSeq(ms, a, n)[i] = Append(s, ms[n])[i]
  <2> SUFFICES ASSUME NEW i \in 1..(n - a + 1) PROVE SubSeq(ms, a, n)[i] = Append(s, ms[n])[i]
    OBVIOUS
  <2>1. i \in 1..(n - a) \/ (i = n - a + 1 /\ a + i - 1 = n)
    BY <1>1
  <2> QED BY <1>2, <1>3, <1>4, <2>1
<1> HIDE DEF s
<1>6. SubSeq(ms, a, n) = Append(s, ms[n])
  BY <1>2, <1>4, <1>5, SeqEqual
<1> QED BY <1>6 DEF s

(* Of a list whose system messages are its first k, OfRoles takes the      *)
(* first k or the rest.                                                    *)
LEMMA OfRolesSplits ==
    ASSUME NEW ms \in Seq(Message), NEW k \in 0..Len(ms),
           \A i \in 1..Len(ms) : ms[i].role = "system" <=> i <= k
    PROVE  /\ OfRoles(ms, {"system"}) = SubSeq(ms, 1, k)
           /\ Chat(ms) = SubSeq(ms, k + 1, Len(ms))
<1> DEFINE f == [n \in 0..Len(ms) |-> IF n <= k THEN SubSeq(ms, 1, n) ELSE SubSeq(ms, 1, k)]
           g == [n \in 0..Len(ms) |-> IF n <= k THEN <<>> ELSE SubSeq(ms, k + 1, n)]
<1>1. Len(ms) \in Nat /\ k \in Nat /\ \A i \in 1..Len(ms) : ms[i].role \in {"user", "assistant", "system"}
  <2>1. \A i \in 1..Len(ms) : ms[i] \in Message
    BY ElementOfSeq
  <2> QED BY <2>1, LenProperties DEF Message
<1>2. SubSeq(ms, 1, 0) = <<>> /\ SubSeq(ms, k + 1, k) = <<>>
  BY <1>1, SubSeqProperties
<1>3. Filtered(f, ms, {"system"})
  <2> SUFFICES ASSUME NEW n \in 0..Len(ms)
               PROVE  f[n] = IF n = 0 THEN <<>>
                             ELSE IF ms[n].role \in {"system"} THEN Append(f[n - 1], ms[n]) ELSE f[n - 1]
    BY DEF Filtered
  <2>1. CASE n = 0
    BY <1>1, <1>2, <2>1
  <2>2. CASE n > 0 /\ n <= k
    <3>1. n \in 1..Len(ms) /\ n - 1 \in 0..Len(ms) /\ n - 1 <= k /\ 1 \in 1..(Len(ms) + 1) /\ n # 0
      BY <1>1, <2>2
    <3>2. f[n] = SubSeq(ms, 1, n) /\ f[n - 1] = SubSeq(ms, 1, n - 1) /\ ms[n].role = "system"
      BY <2>2, <3>1
    <3> HIDE DEF f
    <3> QED BY <3>1, <3>2, SubSeqGrows
  <2>3. CASE n > k
    <3>1. n \in 1..Len(ms) /\ n - 1 \in 0..Len(ms) /\ n # 0 /\ ~(n <= k)
      BY <1>1, <2>3
    <3>2. ms[n].role # "system" /\ f[n] = SubSeq(ms, 1, k)
      BY <3>1
    <3>3. n - 1 <= k => n - 1 = k
      BY <1>1, <2>3
    <3>4. f[n - 1] = SubSeq(ms, 1, k)
      BY <3>1, <3>3
    <3> HIDE DEF f
    <3> QED BY <3>1, <3>2, <3>4
  <2> QED BY <1>1, <2>1, <2>2, <2>3
<1>4. Filtered(g, ms, {"user", "assistant"})
  <2> SUFFICES ASSUME NEW n \in 0..Len(ms)
               PROVE  g[n] = IF n = 0 THEN <<>>
                             ELSE IF ms[n].role \in {"user", "assistant"} THEN Append(g[n - 1], ms[n]) ELSE g[n - 1]
    BY DEF Filtered
  <2>1. CASE n = 0
    BY <1>1, <2>1
  <2>2. CASE n > 0 /\ n <= k
    <3>1. n \in 1..Len(ms) /\ n - 1 \in 0..Len(ms) /\ n - 1 <= k /\ n # 0
      BY <1>1, <2>2
    <3>2. g[n] = <<>> /\ g[n - 1] = <<>> /\ ms[n].role = "system"
      BY <2>2, <3>1
    <3> HIDE DEF g
    <3> QED BY <3>1, <3>2
  <2>3. CASE n > k
    <3>1. n \in 1..Len(ms) /\ n - 1 \in 0..Len(ms) /\ n # 0 /\ ~(n <= k) /\ k + 1 \in 1..(Len(ms) + 1)
          /\ n \in (k + 1)..Len(ms)
      BY <1>1, <2>3
    <3>2. ms[n].role \in {"user", "assistant"} /\ g[n] = SubSeq(ms, k + 1, n)
      BY <1>1, <3>1
    <3>3. n - 1 <= k => n - 1 = k
      BY <1>1, <2>3
    <3>4. g[n - 1] = SubSeq(ms, k + 1, n - 1)
      BY <1>2, <3>1, <3>3
    <3> HIDE DEF g
    <3> QED BY <3>1, <3>2, <3>4, SubSeqGrows
  <2> QED BY <1>1, <2>1, <2>2, <2>3
<1>5. f[Len(ms)] = SubSeq(ms, 1, k)
  <2>1. Len(ms) \in 0..Len(ms) /\ (Len(ms) <= k => Len(ms) = k)
    BY <1>1
  <2> QED BY <2>1
<1>6. g[Len(ms)] = SubSeq(ms, k + 1, Len(ms))
  <2>1. Len(ms) \in 0..Len(ms) /\ (Len(ms) <= k => Len(ms) = k)
    BY <1>1
  <2> QED BY <1>2, <2>1
<1> HIDE DEF f, g
<1> QED BY <1>3, <1>4, <1>5, <1>6, OfRolesIs DEF Chat


(* What a list says.                                                       *)
LEMMA PartsSaid ==
    ASSUME NEW ms \in Seq(Message)
    PROVE  /\ \A p : p \in Parts(ms) <=> \E i \in 1..Len(ms) : p \in ms[i].of
           /\ Parts(ms) \subseteq Part
<1>1. DOMAIN ms = 1..Len(ms) /\ \A i \in 1..Len(ms) : ms[i] \in Message
  BY LenProperties, ElementOfSeq
<1>2. ToSet(ms) = {ms[i] : i \in 1..Len(ms)}
  BY <1>1 DEF ToSet
<1>3. \A p : p \in Parts(ms) <=> \E i \in 1..Len(ms) : p \in ms[i].of
  BY <1>2 DEF Parts
<1>4. \A i \in 1..Len(ms) : ms[i].of \subseteq Part
  BY <1>1 DEF Message
<1> QED BY <1>3, <1>4

(* A compaction puts one summary for the j messages after the k system     *)
(* messages.                                                               *)
Summarises(new, ms, k, j) ==
    /\ new \in Seq(Message) /\ Len(new) = Len(ms) - j + 1
    /\ \A i \in 1..k : new[i] = ms[i]
    /\ new[k + 1].role = "system"
    /\ \A p : p \in new[k + 1].of <=> \E i \in (k + 1)..(k + j) : p \in ms[i].of
    /\ \A i \in (k + 2)..Len(new) : new[i] = ms[i + j - 1]

(* A compaction keeps the system messages, sums up the next j in one and   *)
(* keeps what follows.                                                     *)
LEMMA CompactedSummarises ==
    ASSUME NEW ms \in Seq(Message), SystemFirst(ms)
    PROVE  \E k \in 0..Len(ms) : \E j \in 0..(Len(ms) - k) :
               /\ \A i \in 1..Len(ms) : ms[i].role = "system" <=> i <= k
               /\ Summarises(Compacted(ms), ms, k, j)
<1>1. PICK k \in 0..Len(ms) : \A i \in 1..Len(ms) : ms[i].role = "system" <=> i <= k
  BY SystemHead
<1> DEFINE n == Len(ms)
           chat == Chat(ms)
           j == (Len(chat) * 6) \div 10
           old == SubSeq(chat, 1, j)
           recent == SubSeq(chat, j + 1, Len(chat))
           summary == [role |-> "system", of |-> Parts(old)]
           head == OfRoles(ms, {"system"})
           new == head \o <<summary>> \o recent
<1>2. n \in Nat /\ k \in Nat /\ k <= n /\ \A i \in 1..n : ms[i] \in Message
  BY LenProperties, ElementOfSeq
<1>3. /\ head \in Seq(Message) /\ Len(head) = k
      /\ \A i \in 1..k : head[i] = ms[i]
  <2>1. head = SubSeq(ms, 1, k)
    BY <1>1, OfRolesSplits
  <2>2. 1 \in Int /\ k \in Int /\ (\A i \in 1..k : ms[i] \in Message) /\ k - 1 + 1 = k
    BY <1>2
  <2> HIDE DEF head
  <2>3. /\ SubSeq(ms, 1, k) \in Seq(Message) /\ Len(SubSeq(ms, 1, k)) = IF 1 <= k THEN k - 1 + 1 ELSE 0
        /\ \A i \in 1..(k - 1 + 1) : SubSeq(ms, 1, k)[i] = ms[1 + i - 1]
    BY <2>2, SubSeqProperties
  <2>4. Len(SubSeq(ms, 1, k)) = k
    BY <1>2, <2>3
  <2>5. \A i \in 1..k : 1 + i - 1 = i
    BY <1>2
  <2> QED BY <2>1, <2>2, <2>3, <2>4, <2>5
<1>4. /\ chat \in Seq(Message) /\ Len(chat) = n - k
      /\ \A i \in 1..(n - k) : chat[i] = ms[k + i]
  <2>1. chat = SubSeq(ms, k + 1, n)
    BY <1>1, OfRolesSplits
  <2> HIDE DEF chat
  <2>2. k + 1 \in Int /\ n \in Int /\ (\A i \in (k + 1)..n : ms[i] \in Message) /\ n - (k + 1) + 1 = n - k
    BY <1>2
  <2>3. /\ SubSeq(ms, k + 1, n) \in Seq(Message)
        /\ Len(SubSeq(ms, k + 1, n)) = IF k + 1 <= n THEN n - (k + 1) + 1 ELSE 0
        /\ \A i \in 1..(n - (k + 1) + 1) : SubSeq(ms, k + 1, n)[i] = ms[k + 1 + i - 1]
    BY <2>2, SubSeqProperties
  <2>4. Len(SubSeq(ms, k + 1, n)) = n - k
    BY <1>2, <2>3
  <2>5. \A i \in 1..(n - k) : k + 1 + i - 1 = k + i
    BY <1>2
  <2> QED BY <2>1, <2>2, <2>3, <2>4, <2>5
<1> HIDE DEF chat, head
<1>5. j \in Nat /\ j <= n - k
  <2>1. Len(chat) \in Nat
    BY <1>2, <1>4
  <2> QED BY <1>4, <2>1
<1> HIDE DEF j
<1>6. /\ old \in Seq(Message) /\ Len(old) = j
      /\ \A i \in 1..j : old[i] = ms[k + i]
  <2>1. \A i \in 1..j : i \in 1..(n - k) /\ i \in 1..Len(chat)
    BY <1>2, <1>4, <1>5
  <2>2. 1 \in Int /\ j \in Int /\ (\A i \in 1..j : chat[i] \in Message) /\ j - 1 + 1 = j
    BY <1>4, <1>5, <2>1, ElementOfSeq
  <2>3. /\ old \in Seq(Message) /\ Len(old) = IF 1 <= j THEN j - 1 + 1 ELSE 0
        /\ \A i \in 1..(j - 1 + 1) : old[i] = chat[1 + i - 1]
    BY <2>2, SubSeqProperties
  <2> HIDE DEF old
  <2>4. Len(old) = j
    BY <1>5, <2>3
  <2>5. \A i \in 1..j : 1 + i - 1 = i
    BY <1>5
  <2> QED BY <1>4, <2>1, <2>2, <2>3, <2>4, <2>5
<1>7. /\ recent \in Seq(Message) /\ Len(recent) = n - k - j
      /\ \A i \in 1..(n - k - j) : recent[i] = ms[k + j + i]
  <2>1. \A i \in (j + 1)..(n - k) : i \in 1..(n - k)
    BY <1>2, <1>5
  <2>2. /\ j + 1 \in Int /\ Len(chat) \in Int /\ (\A i \in (j + 1)..Len(chat) : chat[i] \in Message)
        /\ Len(chat) - (j + 1) + 1 = n - k - j
    BY <1>2, <1>4, <1>5, <2>1, ElementOfSeq
  <2>3. /\ recent \in Seq(Message)
        /\ Len(recent) = IF j + 1 <= Len(chat) THEN Len(chat) - (j + 1) + 1 ELSE 0
        /\ \A i \in 1..(Len(chat) - (j + 1) + 1) : recent[i] = chat[j + 1 + i - 1]
    BY <2>2, SubSeqProperties
  <2> HIDE DEF recent
  <2>4. Len(recent) = n - k - j
    <3>1. Len(chat) = n - k /\ n - k \in Nat
      BY <1>2, <1>4
    <3>2. Len(recent) = IF j + 1 <= n - k THEN n - k - (j + 1) + 1 ELSE 0
      BY <2>3, <3>1
    <3> HIDE DEF n
    <3> QED BY <1>2, <1>5, <3>2
  <2>5. \A i \in 1..(n - k - j) : j + 1 + i - 1 = j + i /\ j + i \in 1..(n - k) /\ k + (j + i) = k + j + i
    BY <1>2, <1>5
  <2> QED BY <1>4, <2>2, <2>3, <2>4, <2>5
<1>8. summary \in Message
  BY <1>6, PartsSaid DEF Message
<1>9. \A p : p \in summary.of <=> \E i \in (k + 1)..(k + j) : p \in ms[i].of
  <2>1. \A p : p \in summary.of <=> \E i \in 1..j : p \in old[i].of
    BY <1>6, PartsSaid
  <2>2. \A i \in 1..j : k + i \in (k + 1)..(k + j)
    BY <1>2, <1>5
  <2>3. \A i \in (k + 1)..(k + j) : i - k \in 1..j /\ k + (i - k) = i
    BY <1>2, <1>5
  <2> QED BY <1>6, <2>1, <2>2, <2>3
<1> HIDE DEF old, recent
<1>10. /\ <<summary>> \in Seq(Message) /\ Len(<<summary>>) = 1 /\ <<summary>>[1] = summary
       /\ summary.role = "system"
  BY <1>8
<1> HIDE DEF summary
<1>11. /\ head \o <<summary>> \in Seq(Message) /\ Len(head \o <<summary>>) = k + 1
       /\ \A i \in 1..(k + 1) : (head \o <<summary>>)[i] = IF i <= k THEN head[i] ELSE <<summary>>[i - k]
  BY <1>3, <1>10, ConcatProperties
<1>12. /\ new \in Seq(Message) /\ Len(new) = k + 1 + (n - k - j)
       /\ \A i \in 1..(k + 1 + (n - k - j)) :
             new[i] = IF i <= k + 1 THEN (head \o <<summary>>)[i] ELSE recent[i - (k + 1)]
  <2> DEFINE front == head \o <<summary>>
  <2>1. front \in Seq(Message) /\ Len(front) = k + 1
    BY <1>11
  <2>2. new = front \o recent
    OBVIOUS
  <2> HIDE DEF front, new
  <2>3. /\ new \in Seq(Message) /\ Len(new) = Len(front) + Len(recent)
        /\ \A i \in 1..(Len(front) + Len(recent)) :
              new[i] = IF i <= Len(front) THEN front[i] ELSE recent[i - Len(front)]
    BY <1>7, <2>1, <2>2, ConcatProperties
  <2> QED BY <1>7, <2>1, <2>3 DEF front
<1> HIDE DEF new
<1>13. k + 1 + (n - k - j) = n - j + 1
  BY <1>2, <1>5
<1>14. \A i \in 1..k : new[i] = ms[i]
  <2>1. \A i \in 1..k : i \in 1..(k + 1) /\ i \in 1..(k + 1 + (n - k - j)) /\ i <= k + 1 /\ i <= k
    BY <1>2, <1>5
  <2> QED BY <1>3, <1>11, <1>12, <2>1
<1>15. new[k + 1] = summary
  <2>1. k + 1 \in 1..(k + 1) /\ k + 1 \in 1..(k + 1 + (n - k - j)) /\ k + 1 <= k + 1 /\ ~(k + 1 <= k) /\ k + 1 - k = 1
    BY <1>2, <1>5
  <2> QED BY <1>10, <1>11, <1>12, <2>1
<1>16. \A i \in (k + 2)..(n - j + 1) : new[i] = ms[i + j - 1]
  <2>1. \A i \in (k + 2)..(n - j + 1) : /\ i \in 1..(k + 1 + (n - k - j)) /\ ~(i <= k + 1)
                                        /\ i - (k + 1) \in 1..(n - k - j)
                                        /\ k + j + (i - (k + 1)) = i + j - 1
    BY <1>2, <1>5
  <2> QED BY <1>7, <1>12, <2>1
<1>17. Compacted(ms) = new
  BY DEF Compacted, new, head, summary, recent, old, j, chat
<1>18. j \in 0..(n - k)
  BY <1>2, <1>5
<1>19. Summarises(new, ms, k, j)
  BY <1>9, <1>10, <1>12, <1>13, <1>14, <1>15, <1>16 DEF Summarises
<1> QED BY <1>1, <1>17, <1>18, <1>19

(* Each message of a compaction comes from one of the list, or from the j  *)
(* that it sums up; so what was said once is still said once.              *)
LEMMA CompactedLists ==
    ASSUME NEW ms \in Seq(Message), NEW ts, SystemFirst(ms), Apart(ms), Paired(ms, ts)
    PROVE  /\ Compacted(ms) \in Seq(Message)
           /\ SystemFirst(Compacted(ms)) /\ Apart(Compacted(ms)) /\ Paired(Compacted(ms), ts)
           /\ Parts(Compacted(ms)) = Parts(ms)
<1> DEFINE n == Len(ms)
           new == Compacted(ms)
<1>1. PICK k \in 0..n : \E j \in 0..(n - k) : /\ \A i \in 1..n : ms[i].role = "system" <=> i <= k
                                              /\ Summarises(new, ms, k, j)
  BY CompactedSummarises
<1>2. PICK j \in 0..(n - k) : /\ \A i \in 1..n : ms[i].role = "system" <=> i <= k
                              /\ Summarises(new, ms, k, j)
  BY <1>1
<1> HIDE DEF new
<1>3. /\ new \in Seq(Message) /\ Len(new) = n - j + 1
      /\ \A i \in 1..k : new[i] = ms[i]
      /\ new[k + 1].role = "system"
      /\ \A p : p \in new[k + 1].of <=> \E i \in (k + 1)..(k + j) : p \in ms[i].of
      /\ \A i \in (k + 2)..(n - j + 1) : new[i] = ms[i + j - 1]
  BY <1>2 DEF Summarises
<1>4. n \in Nat /\ k \in Nat /\ j \in Nat /\ k + j <= n
  <2>1. n \in Nat
    BY LenProperties
  <2> HIDE DEF n
  <2> QED BY <2>1, <1>1, <1>2
<1>5. \A i \in 1..n : ms[i].role = "system" <=> i <= k
  BY <1>2
<1> HIDE DEF n
<1> DEFINE From(a, x) == IF a <= k THEN x = a ELSE IF a = k + 1 THEN x \in (k + 1)..(k + j) ELSE x = a + j - 1
           m == n - j + 1
<1>6. ASSUME NEW a \in 1..m PROVE a \in 1..k \/ a = k + 1 \/ a \in (k + 2)..(n - j + 1)
  BY <1>4
<1>7. ASSUME NEW a \in 1..m, NEW p \in new[a].of
      PROVE  \E x \in 1..n : p \in ms[x].of /\ From(a, x)
  <2>1. CASE a \in 1..k
    <3>1. a \in 1..n /\ a <= k
      BY <1>4, <2>1
    <3> QED BY <1>3, <1>7, <2>1, <3>1
  <2>2. CASE a = k + 1
    <3>1. PICK x \in (k + 1)..(k + j) : p \in ms[x].of
      BY <1>3, <1>7, <2>2
    <3>2. x \in 1..n /\ ~(a <= k)
      BY <1>4, <2>2, <3>1
    <3> QED BY <2>2, <3>1, <3>2
  <2>3. CASE a \in (k + 2)..(n - j + 1)
    <3>1. a + j - 1 \in 1..n /\ ~(a <= k) /\ a # k + 1
      BY <1>4, <2>3
    <3> QED BY <1>3, <1>7, <2>3, <3>1
  <2> QED BY <1>6, <2>1, <2>2, <2>3
<1>8. ASSUME NEW a \in 1..m, NEW b \in 1..m, NEW x \in 1..n, From(a, x), From(b, x)
      PROVE  a = b
  BY <1>4, <1>8
<1>9. ASSUME NEW x \in 1..n
      PROVE  \E a \in 1..m : \A p \in ms[x].of : p \in new[a].of
  <2>1. CASE x <= k
    <3>1. x \in 1..m /\ x \in 1..k
      BY <1>4, <2>1
    <3> QED BY <1>3, <3>1
  <2>2. CASE x \in (k + 1)..(k + j)
    <3>1. k + 1 \in 1..m
      BY <1>4
    <3> QED BY <1>3, <2>2, <3>1
  <2>3. CASE x > k + j
    <3>1. x - j + 1 \in 1..m /\ x - j + 1 \in (k + 2)..(n - j + 1) /\ x - j + 1 + j - 1 = x
      BY <1>4, <2>3
    <3> QED BY <1>3, <3>1
  <2> QED BY <1>4, <2>1, <2>2, <2>3
<1>10. ASSUME NEW a \in 1..m
       PROVE  new[a].role = "system" <=> a <= k + 1
  <2>1. CASE a \in 1..k
    <3>1. a \in 1..n /\ a <= k /\ a <= k + 1
      BY <1>4, <2>1
    <3> QED BY <1>3, <1>5, <2>1, <3>1
  <2>2. CASE a = k + 1
    BY <1>3, <1>4, <2>2
  <2>3. CASE a \in (k + 2)..(n - j + 1)
    <3>1. a + j - 1 \in 1..n /\ ~(a + j - 1 <= k) /\ ~(a <= k + 1)
      BY <1>4, <2>3
    <3> QED BY <1>3, <1>5, <2>3, <3>1
  <2> QED BY <1>6, <2>1, <2>2, <2>3
<1>11. SystemFirst(new)
  <2> SUFFICES ASSUME NEW a \in 1..m, NEW b \in 1..m, a < b, new[b].role = "system" PROVE new[a].role = "system"
    BY <1>3 DEF SystemFirst
  <2>1. b <= k + 1
    BY <1>10
  <2>2. a <= k + 1
    BY <1>4, <2>1
  <2> QED BY <1>10, <2>2
<1>12. Apart(new)
  <2> SUFFICES ASSUME NEW a \in 1..m, NEW b \in 1..m, a # b, NEW p \in new[a].of, p \in new[b].of PROVE FALSE
    BY <1>3 DEF Apart
  <2>1. PICK x \in 1..n : p \in ms[x].of /\ From(a, x)
    BY <1>7
  <2>2. PICK y \in 1..n : p \in ms[y].of /\ From(b, y)
    BY <1>7
  <2>3. x = y
    BY <2>1, <2>2 DEF Apart, n
  <2> HIDE DEF From
  <2> QED BY <1>8, <2>1, <2>2, <2>3
<1>13. Paired(new, ts)
  <2> SUFFICES ASSUME NEW a \in 1..m, NEW t \in ts, new[a] = Said(t, "assistant")
               PROVE  a > 1 /\ (new[a - 1] = Said(t, "user") \/ new[a - 1].role = "system")
    BY <1>3 DEF Paired
  <2>1. ~(a <= k + 1)
    BY <1>10 DEF Said
  <2>2. a \in (k + 2)..(n - j + 1) /\ a > 1 /\ a - 1 \in 1..m /\ a + j - 1 \in 1..n
    BY <1>4, <2>1
  <2>3. ms[a + j - 1] = Said(t, "assistant")
    BY <1>3, <2>2
  <2>4. CASE a = k + 2
    <3>1. a - 1 = k + 1
      BY <1>4, <2>4
    <3> QED BY <1>3, <2>2, <3>1
  <2>5. CASE a > k + 2
    <3>1. a - 1 \in (k + 2)..(n - j + 1) /\ a - 1 + j - 1 = a + j - 1 - 1
      BY <1>4, <2>2, <2>5
    <3>2. new[a - 1] = ms[a + j - 1 - 1]
      BY <1>3, <3>1
    <3>3. ms[a + j - 1 - 1] = Said(t, "user") \/ ms[a + j - 1 - 1].role = "system"
      BY <2>2, <2>3 DEF Paired, n
    <3> QED BY <2>2, <3>2, <3>3
  <2> QED BY <1>4, <2>2, <2>4, <2>5
<1>14. Parts(new) = Parts(ms)
  <2>1. \A p : p \in Parts(new) <=> \E a \in 1..m : p \in new[a].of
    BY <1>3, PartsSaid
  <2>2. \A p : p \in Parts(ms) <=> \E x \in 1..n : p \in ms[x].of
    BY PartsSaid DEF n
  <2> QED BY <1>7, <1>9, <2>1, <2>2
<1> QED BY <1>3, <1>11, <1>12, <1>13, <1>14 DEF new

(* A turn is appended as its question, then its answer.                    *)
LEMMA AppendLists ==
    ASSUME NEW ms \in Seq(Message), NEW t \in Turns, NEW role \in {"user", "assistant"},
           NEW ts, SystemFirst(ms), Apart(ms), Paired(ms, ts), <<t, role>> \notin Parts(ms),
           role = "assistant" /\ t \in ts => ms # <<>> /\ Last(ms) = Said(t, "user")
    PROVE  LET new == Append(ms, Said(t, role))
           IN  /\ new \in Seq(Message) /\ Len(new) = Len(ms) + 1 /\ Last(new) = Said(t, role)
               /\ new # <<>>
               /\ SystemFirst(new) /\ Apart(new) /\ Paired(new, ts)
               /\ Parts(new) = Parts(ms) \cup {<<t, role>>}
<1> DEFINE n == Len(ms)
           m == Said(t, role)
           new == Append(ms, m)
<1>1. m \in Message /\ m.role = role /\ m.of = {<<t, role>>}
  BY DEF Said, Message, Part
<1>2. n \in Nat
  BY LenProperties
<1> HIDE DEF m
<1>3. /\ new \in Seq(Message) /\ Len(new) = n + 1 /\ new # <<>>
      /\ \A i \in 1..n : new[i] = ms[i]
      /\ new[n + 1] = m
  BY <1>1, AppendProperties
<1>4. \A p : p \in Parts(ms) <=> \E i \in 1..n : p \in ms[i].of
  BY PartsSaid
<1>5. \A p : p \in Parts(new) <=> \E i \in 1..(n + 1) : p \in new[i].of
  <2> HIDE DEF new
  <2> QED BY <1>3, PartsSaid
<1>6. role = "assistant" /\ t \in ts => n >= 1 /\ ms[n] = Said(t, "user")
  <2> SUFFICES ASSUME role = "assistant", t \in ts PROVE n >= 1 /\ ms[n] = Said(t, "user")
    OBVIOUS
  <2>1. n # 0
    BY EmptySeq
  <2> QED BY <1>2, <2>1 DEF Last
<1> HIDE DEF new, n
<1>7. \A i \in 1..(n + 1) : i \in 1..n \/ i = n + 1
  BY <1>2
<1>8. SystemFirst(new)
  <2> SUFFICES ASSUME NEW a \in 1..(n + 1), NEW b \in 1..(n + 1), a < b, new[b].role = "system"
               PROVE  new[a].role = "system"
    BY <1>3 DEF SystemFirst
  <2>1. b # n + 1
    BY <1>1, <1>3
  <2>2. a \in 1..n /\ b \in 1..n
    BY <1>2, <2>1
  <2> QED BY <1>3, <2>2 DEF SystemFirst, n
<1>9. Apart(new)
  <2> SUFFICES ASSUME NEW a \in 1..(n + 1), NEW b \in 1..(n + 1), a # b PROVE new[a].of \cap new[b].of = {}
    BY <1>3 DEF Apart
  <2>1. CASE a \in 1..n /\ b \in 1..n
    BY <1>3, <2>1 DEF Apart, n
  <2>2. CASE a = n + 1 /\ b \in 1..n
    BY <1>1, <1>3, <1>4, <2>2
  <2>3. CASE a \in 1..n /\ b = n + 1
    BY <1>1, <1>3, <1>4, <2>3
  <2> QED BY <1>7, <2>1, <2>2, <2>3
<1>10. Paired(new, ts)
  <2> SUFFICES ASSUME NEW a \in 1..(n + 1), NEW u \in ts, new[a] = Said(u, "assistant")
               PROVE  a > 1 /\ (new[a - 1] = Said(u, "user") \/ new[a - 1].role = "system")
    BY <1>3 DEF Paired
  <2>1. CASE a \in 1..n
    <3>1. a > 1 /\ (ms[a - 1] = Said(u, "user") \/ ms[a - 1].role = "system")
      BY <1>3, <2>1 DEF Paired, n
    <3>2. a - 1 \in 1..n
      BY <1>2, <2>1, <3>1
    <3> QED BY <1>3, <3>1, <3>2
  <2>2. CASE a = n + 1
    <3>1. u = t /\ role = "assistant"
      BY <1>1, <1>3, <2>2 DEF Said
    <3>2. n >= 1 /\ ms[n] = Said(t, "user") /\ n \in 1..n /\ a - 1 = n /\ a > 1
      BY <1>2, <1>6, <2>2, <3>1
    <3> QED BY <1>3, <3>1, <3>2
  <2> QED BY <1>7, <2>1, <2>2
<1>11. Parts(new) = Parts(ms) \cup {<<t, role>>}
  <2>1. n + 1 \in 1..(n + 1) /\ \A i \in 1..n : i \in 1..(n + 1)
    BY <1>2
  <2>2. ASSUME NEW p \in Parts(new) PROVE p \in Parts(ms) \cup {<<t, role>>}
    BY <1>1, <1>3, <1>4, <1>5, <1>7, <2>2
  <2>3. ASSUME NEW p \in Parts(ms) \cup {<<t, role>>} PROVE p \in Parts(new)
    BY <1>1, <1>3, <1>4, <1>5, <2>1, <2>3
  <2> QED BY <2>2, <2>3
<1>12. Last(new) = m
  BY <1>3 DEF Last
<1> QED BY <1>3, <1>8, <1>9, <1>10, <1>11, <1>12 DEF m, new, n

(* The empty list.                                                         *)
LEMMA EmptyLists ==
    /\ <<>> \in Seq(Message) /\ Parts(<<>>) = {} /\ Len(<<>>) = 0
    /\ SystemFirst(<<>>) /\ Apart(<<>>) /\ \A ts : Paired(<<>>, ts)
<1>1. <<>> \in Seq(Message) /\ Len(<<>>) = 0 /\ 1..0 = {}
  BY EmptySeq
<1>2. SystemFirst(<<>>) /\ Apart(<<>>) /\ \A ts : Paired(<<>>, ts)
  BY <1>1 DEF SystemFirst, Apart, Paired
<1>3. Parts(<<>>) = {}
  BY <1>1, PartsSaid
<1> QED BY <1>1, <1>2, <1>3

(* The first messages of a list are such a list, and say no more.          *)
LEMMA PrefixLists ==
    ASSUME NEW ms \in Seq(Message), NEW k \in 0..Len(ms)
    PROVE  LET new == SubSeq(ms, 1, k)
           IN  /\ new \in Seq(Message) /\ Len(new) = k /\ \A i \in 1..k : new[i] = ms[i]
               /\ Parts(new) \subseteq Parts(ms)
               /\ \A C, ts : Listed(ms, C, ts) => Listed(new, C, ts)
<1> DEFINE new == SubSeq(ms, 1, k)
<1>1. Len(ms) \in Nat /\ k \in Nat /\ \A i \in 1..k : i \in 1..Len(ms)
  BY LenProperties
<1>2. new \in Seq(Message) /\ Len(new) = k /\ \A i \in 1..k : new[i] = ms[i]
  <2>1. 1 \in Int /\ k \in Int /\ (\A i \in 1..k : ms[i] \in Message) /\ k - 1 + 1 = k
    BY <1>1, ElementOfSeq
  <2>2. /\ new \in Seq(Message) /\ Len(new) = IF 1 <= k THEN k - 1 + 1 ELSE 0
        /\ \A i \in 1..(k - 1 + 1) : new[i] = ms[1 + i - 1]
    BY <2>1, SubSeqProperties
  <2> HIDE DEF new
  <2>3. Len(new) = k
    BY <1>1, <2>2
  <2>4. \A i \in 1..k : 1 + i - 1 = i
    BY <1>1
  <2> QED BY <2>1, <2>2, <2>3, <2>4
<1> HIDE DEF new
<1>3. Parts(new) \subseteq Parts(ms)
  <2>1. \A p : p \in Parts(new) <=> \E i \in 1..k : p \in new[i].of
    BY <1>2, PartsSaid
  <2>2. \A p : p \in Parts(ms) <=> \E i \in 1..Len(ms) : p \in ms[i].of
    BY PartsSaid
  <2> QED BY <1>1, <1>2, <2>1, <2>2
<1>4. ASSUME NEW C, NEW ts, Listed(ms, C, ts) PROVE Listed(new, C, ts)
  <2>1. SystemFirst(ms) /\ Apart(ms) /\ Paired(ms, ts) /\ \A p \in Parts(ms) : p[1] \in C
    BY <1>4 DEF Listed
  <2>2. SystemFirst(new)
    BY <1>1, <1>2, <2>1 DEF SystemFirst
  <2>3. Apart(new)
    BY <1>1, <1>2, <2>1 DEF Apart
  <2>4. Paired(new, ts)
    <3> SUFFICES ASSUME NEW i \in 1..k, NEW t \in ts, new[i] = Said(t, "assistant")
                 PROVE  i > 1 /\ (new[i - 1] = Said(t, "user") \/ new[i - 1].role = "system")
      BY <1>2 DEF Paired
    <3>1. ms[i] = Said(t, "assistant") /\ i \in 1..Len(ms)
      BY <1>1, <1>2
    <3>2. i > 1 /\ (ms[i - 1] = Said(t, "user") \/ ms[i - 1].role = "system")
      BY <2>1, <3>1 DEF Paired
    <3>3. i - 1 \in 1..k
      BY <1>1, <3>2
    <3> QED BY <1>2, <3>2, <3>3
  <2> QED BY <1>3, <2>1, <2>2, <2>3, <2>4 DEF Listed
<1> QED BY <1>2, <1>3, <1>4 DEF new

(* So are those that the next append leaves.                               *)
LEMMA LastingLists ==
    ASSUME NEW d \in Disk
    PROVE  /\ Lasting(d) \in Seq(Message) /\ Parts(Lasting(d)) \subseteq Parts(d.file)
           /\ \A C, ts : Listed(d.file, C, ts) => Listed(Lasting(d), C, ts)
           /\ d.cut # "line" => Lasting(d) = d.file
<1>1. d.file \in Seq(Message) /\ Len(d.file) \in Nat
  BY LenProperties DEF Disk
<1>2. CASE d.cut # "line"
  BY <1>1, <1>2 DEF Lasting
<1>3. CASE d.cut = "line" /\ Len(d.file) # 0
  <2>1. Len(d.file) - 1 \in 0..Len(d.file)
    BY <1>1, <1>3
  <2>2. Lasting(d) = SubSeq(d.file, 1, Len(d.file) - 1)
    BY <1>3 DEF Lasting
  <2> QED BY <1>1, <1>3, <2>1, <2>2, PrefixLists
<1>4. CASE d.cut = "line" /\ Len(d.file) = 0
  <2>1. d.file = <<>>
    BY <1>1, <1>4, EmptySeq
  <2>2. Lasting(d) = SubSeq(d.file, 1, -1)
    BY <1>4 DEF Lasting
  <2>3. SubSeq(d.file, 1, -1) \in Seq(Message) /\ Len(SubSeq(d.file, 1, -1)) = 0
    <3>1. 1 \in Int /\ -1 \in Int /\ (\A i \in 1..(-1) : d.file[i] \in Message) /\ ~(1 <= -1)
      OBVIOUS
    <3> QED BY <3>1, SubSeqProperties
  <2>4. Lasting(d) = <<>>
    BY <2>2, <2>3, EmptySeq
  <2> QED BY <1>1, <1>4, <2>1, <2>4
<1> QED BY <1>2, <1>3, <1>4

-----------------------------------------------------------------------------
(* The disks an operation goes through.  Of a disk, the invariant looks at *)
(* the messages of its file and at those that the next append leaves.      *)
View(d) == <<d.file, Lasting(d)>>

LEMMA OpenedMeta ==
    ASSUME NEW d \in Disk
    PROVE  /\ OpenMeta(d) \in Disk /\ OpenMeta(d).file = d.file /\ OpenMeta(d).row = d.row
           /\ View(OpenMeta(d)) = View(d)
<1> DEFINE meta == [d.meta EXCEPT !.state = "broken"]
<1>1. d.meta \in Meta /\ meta \in Meta
  BY DEF Disk, Meta
<1>2. OpenMeta(d) = [d EXCEPT !.meta = meta]
  BY DEF OpenMeta, Disk
<1> HIDE DEF meta
<1>3. /\ OpenMeta(d) \in Disk /\ OpenMeta(d).file = d.file /\ OpenMeta(d).row = d.row
      /\ OpenMeta(d).cut = d.cut
  BY <1>1, <1>2 DEF Disk
<1> QED BY <1>3 DEF View, Lasting

(* Writing the meta file changes nothing else.                             *)
LEMMA MetaPut ==
    ASSUME NEW d \in Disk, NEW n \in Nat, NEW c \in BOOLEAN
    PROVE  /\ PutMeta(d, n, c) \in Disk
           /\ PutMeta(d, n, c).file = d.file /\ PutMeta(d, n, c).row = d.row
           /\ PutMeta(d, n, c).cut = d.cut /\ View(PutMeta(d, n, c)) = View(d)
           /\ PutMeta(d, n, c).meta = [state |-> "whole", count |-> n, compacted |-> c]
<1> DEFINE meta == [state |-> "whole", count |-> n, compacted |-> c]
<1>1. meta \in Meta
  BY DEF Meta
<1>2. PutMeta(d, n, c) = [d EXCEPT !.meta = meta]
  BY DEF PutMeta
<1> HIDE DEF meta
<1>3. PutMeta(d, n, c).meta = meta
  BY <1>2 DEF Disk
<1>4. /\ PutMeta(d, n, c) \in Disk /\ PutMeta(d, n, c).file = d.file /\ PutMeta(d, n, c).row = d.row
      /\ PutMeta(d, n, c).cut = d.cut
  BY <1>1, <1>2 DEF Disk
<1> QED BY <1>3, <1>4 DEF meta, View, Lasting

(* Updating the row changes nothing else, and nothing if there is none.    *)
LEMMA RowPut ==
    ASSUME NEW d \in Disk, NEW n \in Nat
    PROVE  /\ PutRow(d, n) \in Disk
           /\ PutRow(d, n).file = d.file /\ PutRow(d, n).meta = d.meta
           /\ PutRow(d, n).row \in {NoRow, n}
           /\ PutRow(d, n).cut = d.cut /\ View(PutRow(d, n)) = View(d)
<1>1. /\ PutRow(d, n) \in Disk
      /\ PutRow(d, n).file = d.file /\ PutRow(d, n).meta = d.meta
      /\ PutRow(d, n).row \in {NoRow, n} /\ PutRow(d, n).cut = d.cut
  BY DEF PutRow, Disk
<1> QED BY <1>1 DEF View, Lasting

(* Writing the file changes nothing else.                                  *)
LEMMA FilePut ==
    ASSUME NEW d \in Disk, NEW ms \in Seq(Message)
    PROVE  /\ Lines(d, ms) \in Disk /\ Lines(d, ms).file = ms /\ Lines(d, ms).cut = "no"
           /\ Lines(d, ms).meta = d.meta /\ Lines(d, ms).row = d.row
           /\ View(Lines(d, ms)) = <<ms, ms>>
<1>1. /\ Lines(d, ms) \in Disk /\ Lines(d, ms).file = ms /\ Lines(d, ms).cut = "no"
      /\ Lines(d, ms).meta = d.meta /\ Lines(d, ms).row = d.row
  BY DEF Lines, Disk
<1> QED BY <1>1 DEF View, Lasting

(* Operations go through disks whose views are known.                      *)
Through(steps, views) ==
    /\ steps \in Seq(Disk) /\ steps # <<>>
    /\ \A i \in 1..Len(steps) : View(steps[i]) \in views

(* One operation after the other.                                          *)
LEMMA ThroughConcat ==
    ASSUME NEW s, NEW t, NEW F, NEW G, Through(s, F), Through(t, G)
    PROVE  Through(s \o t, F \cup G) /\ Last(s \o t) = Last(t)
<1>1. /\ s \in Seq(Disk) /\ t \in Seq(Disk) /\ t # <<>>
      /\ \A i \in 1..Len(s) : View(s[i]) \in F
      /\ \A i \in 1..Len(t) : View(t[i]) \in G
  BY DEF Through
<1>2. /\ Len(s) \in Nat /\ Len(t) \in Nat /\ Len(s \o t) = Len(s) + Len(t) /\ s \o t \in Seq(Disk)
      /\ \A i \in 1..(Len(s) + Len(t)) : (s \o t)[i] = IF i <= Len(s) THEN s[i] ELSE t[i - Len(s)]
  BY <1>1, ConcatProperties, LenProperties
<1>3. Len(t) # 0
  BY <1>1, EmptySeq
<1>4. s \o t # <<>>
  BY <1>2, <1>3, EmptySeq
<1>5. ASSUME NEW i \in 1..(Len(s) + Len(t)) PROVE View((s \o t)[i]) \in F \cup G
  <2>1. CASE i <= Len(s)
    BY <1>1, <1>2, <2>1
  <2>2. CASE i > Len(s)
    <3>1. i - Len(s) \in 1..Len(t) /\ ~(i <= Len(s))
      BY <1>2, <2>2
    <3> QED BY <1>1, <1>2, <3>1
  <2> QED BY <1>2, <2>1, <2>2
<1>6. Last(s \o t) = Last(t)
  <2>1. /\ Len(s) + Len(t) \in 1..(Len(s) + Len(t)) /\ ~(Len(s) + Len(t) <= Len(s))
        /\ Len(s) + Len(t) - Len(s) = Len(t)
    BY <1>2, <1>3
  <2> QED BY <1>2, <2>1 DEF Last
<1> QED BY <1>2, <1>4, <1>5, <1>6 DEF Through

(* Creating a session leaves the file alone and counts nothing.            *)
LEMMA CreateStepsThrough ==
    ASSUME NEW d \in Disk
    PROVE  /\ Through(CreateSteps(d), {View(d)}) /\ Last(CreateSteps(d)) \in Disk
           /\ Last(CreateSteps(d)).file = d.file /\ Last(CreateSteps(d)).cut = d.cut
           /\ Last(CreateSteps(d)).meta.count = 0 /\ Last(CreateSteps(d)).row = 0
<1> DEFINE meta == PutMeta(d, 0, FALSE)
           row == [meta EXCEPT !.row = 0]
<1>1. OpenMeta(d) \in Disk /\ View(OpenMeta(d)) = View(d)
  BY OpenedMeta
<1>2. /\ meta \in Disk /\ meta.file = d.file /\ meta.cut = d.cut /\ View(meta) = View(d)
      /\ meta.meta = [state |-> "whole", count |-> 0, compacted |-> FALSE]
  BY MetaPut
<1>3. /\ row \in Disk /\ row.file = d.file /\ row.cut = d.cut /\ row.meta = meta.meta /\ row.row = 0
      /\ View(row) = View(d)
  <2> HIDE DEF meta
  <2>1. row \in Disk /\ row.file = d.file /\ row.cut = d.cut /\ row.meta = meta.meta /\ row.row = 0
    BY <1>2 DEF Disk
  <2> HIDE DEF row
  <2> QED BY <2>1 DEF View, Lasting
<1>4. CreateSteps(d) = <<OpenMeta(d), meta, row>>
  BY DEF CreateSteps
<1> HIDE DEF meta, row
<1>5. Through(<<OpenMeta(d), meta, row>>, {View(d)})
  BY <1>1, <1>2, <1>3 DEF Through
<1>6. Last(<<OpenMeta(d), meta, row>>) = row
  BY DEF Last
<1> QED BY <1>2, <1>3, <1>4, <1>5, <1>6

(* Appending a message writes the file first, and counts one more.  On a   *)
(* cut line it leaves what lasts of the file, and no message more.         *)
After(d, m) == IF d.cut = "no" THEN Append(d.file, m) ELSE Lasting(d)

LEMMA LineStepsThrough ==
    ASSUME NEW d \in Disk, NEW m \in Message
    PROVE  LET steps == LineSteps(d, m)
               after == After(d, m)
           IN  /\ after \in Seq(Message) /\ Through(steps, {<<after, after>>})
               /\ Last(steps) = Lines(d, after)
<1> DEFINE after == After(d, m)
           glue == [d EXCEPT !.file = Lasting(d), !.cut = "part"]
           line == Lines(d, after)
<1>1. d.file \in Seq(Message)
  BY DEF Disk
<1>2. after \in Seq(Message)
  <2>1. Append(d.file, m) \in Seq(Message)
    BY <1>1, AppendProperties
  <2> QED BY <2>1, LastingLists DEF After
<1>3. CASE d.cut = "no"
  <2>1. after = Append(d.file, m) /\ LineSteps(d, m) = <<line>>
    BY <1>3 DEF LineSteps, After
  <2> HIDE DEF after
  <2>2. line \in Disk /\ View(line) = <<after, after>>
    BY <1>2, FilePut
  <2> HIDE DEF line
  <2>3. Through(<<line>>, {<<after, after>>}) /\ Last(<<line>>) = line
    BY <2>2 DEF Through, Last
  <2> QED BY <1>2, <2>1, <2>3 DEF after, line
<1>4. CASE d.cut # "no"
  <2>1. after = Lasting(d) /\ LineSteps(d, m) = <<glue, line>>
    BY <1>4 DEF LineSteps, After
  <2>2. glue \in Disk /\ View(glue) = <<after, after>>
    <3>1. glue \in Disk /\ glue.file = after /\ glue.cut = "part"
      <4>1. Lasting(d) \in Seq(Message)
        BY LastingLists
      <4> QED BY <2>1, <4>1 DEF Disk
    <3> HIDE DEF glue
    <3> QED BY <3>1 DEF View, Lasting
  <2> HIDE DEF after, glue
  <2>3. line \in Disk /\ View(line) = <<after, after>>
    BY <1>2, FilePut
  <2> HIDE DEF line
  <2>4. Through(<<glue, line>>, {<<after, after>>}) /\ Last(<<glue, line>>) = line
    BY <2>2, <2>3 DEF Through, Last
  <2> QED BY <1>2, <2>1, <2>4 DEF after, line
<1> QED BY <1>3, <1>4

LEMMA AppendStepsThrough ==
    ASSUME NEW d \in Disk, NEW m \in Message
    PROVE  LET steps == AppendSteps(d, m)
               after == After(d, m)
           IN  /\ after \in Seq(Message) /\ Through(steps, {<<after, after>>})
               /\ Last(steps) \in Disk /\ Last(steps).file = after /\ Last(steps).cut = "no"
               /\ Last(steps).meta.count = d.meta.count + 1
               /\ Last(steps).row \in {NoRow, d.meta.count + 1}
<1> DEFINE after == After(d, m)
           lines == LineSteps(d, m)
           line == Last(lines)
           meta == PutMeta(line, d.meta.count + 1, d.meta.compacted)
           row == PutRow(meta, meta.meta.count)
           rest == <<OpenMeta(line), meta, row>>
<1>1. d.meta.count + 1 \in Nat /\ d.meta.compacted \in BOOLEAN
  BY DEF Disk, Meta
<1>2. AppendSteps(d, m) = lines \o rest
  BY DEF AppendSteps
<1>3. after \in Seq(Message) /\ Through(lines, {<<after, after>>}) /\ line = Lines(d, after)
  BY LineStepsThrough
<1> HIDE DEF lines, after
<1>4. line \in Disk /\ line.file = after /\ line.cut = "no" /\ View(line) = <<after, after>>
  BY <1>3, FilePut
<1> HIDE DEF line
<1>5. OpenMeta(line) \in Disk /\ View(OpenMeta(line)) = <<after, after>>
  BY <1>4, OpenedMeta
<1>6. /\ meta \in Disk /\ meta.file = after /\ meta.cut = "no" /\ View(meta) = <<after, after>>
      /\ meta.meta = [state |-> "whole", count |-> d.meta.count + 1, compacted |-> d.meta.compacted]
  BY <1>1, <1>4, MetaPut
<1> HIDE DEF meta
<1>7. meta.meta.count = d.meta.count + 1
  BY <1>6
<1>8. /\ row \in Disk /\ row.file = after /\ row.cut = "no" /\ row.meta = meta.meta
      /\ row.row \in {NoRow, d.meta.count + 1} /\ View(row) = <<after, after>>
  BY <1>1, <1>6, <1>7, RowPut
<1> HIDE DEF row
<1>9. Through(rest, {<<after, after>>}) /\ Last(rest) = row
  BY <1>5, <1>6, <1>8 DEF Through, Last
<1> HIDE DEF rest
<1>10. Through(lines \o rest, {<<after, after>>} \cup {<<after, after>>}) /\ Last(lines \o rest) = row
  BY <1>3, <1>9, ThroughConcat
<1>11. {<<after, after>>} \cup {<<after, after>>} = {<<after, after>>}
  OBVIOUS
<1> QED BY <1>2, <1>3, <1>7, <1>8, <1>10, <1>11 DEF after

(* A save empties the file, fills it again and counts its lines.           *)
LEMMA SaveStepsThrough ==
    ASSUME NEW d \in Disk, NEW ms \in Seq(Message)
    PROVE  LET steps == SaveSteps(d, ms)
           IN  /\ Through(steps, {<< <<>>, <<>> >>, <<ms, ms>>})
               /\ Last(steps) \in Disk /\ Last(steps).file = ms /\ Last(steps).cut = "no"
               /\ Last(steps).meta.count = Len(ms) /\ Last(steps).row \in {NoRow, Len(ms)}
<1> DEFINE empty == Lines(d, <<>>)
           whole == Lines(d, ms)
           meta == PutMeta(whole, Len(ms), d.meta.compacted)
           row == PutRow(meta, Len(ms))
           steps == <<empty, whole, OpenMeta(whole), meta, row>>
<1>1. Len(ms) \in Nat /\ d.meta.compacted \in BOOLEAN /\ <<>> \in Seq(Message)
  BY LenProperties, EmptySeq DEF Disk, Meta
<1>2. SaveSteps(d, ms) = steps
  BY DEF SaveSteps
<1>3. /\ empty \in Disk /\ View(empty) = << <<>>, <<>> >>
      /\ whole \in Disk /\ whole.file = ms /\ whole.cut = "no" /\ View(whole) = <<ms, ms>>
  BY <1>1, FilePut
<1> HIDE DEF empty, whole
<1>4. OpenMeta(whole) \in Disk /\ View(OpenMeta(whole)) = <<ms, ms>>
  BY <1>3, OpenedMeta
<1>5. /\ meta \in Disk /\ meta.file = ms /\ meta.cut = "no" /\ View(meta) = <<ms, ms>>
      /\ meta.meta = [state |-> "whole", count |-> Len(ms), compacted |-> d.meta.compacted]
  BY <1>1, <1>3, MetaPut
<1> HIDE DEF meta
<1>6. /\ row \in Disk /\ row.file = ms /\ row.cut = "no" /\ row.meta = meta.meta
      /\ row.row \in {NoRow, Len(ms)} /\ View(row) = <<ms, ms>>
  BY <1>1, <1>5, RowPut
<1>7. row.meta.count = Len(ms)
  BY <1>5, <1>6
<1> HIDE DEF row
<1>8. Through(steps, {<< <<>>, <<>> >>, <<ms, ms>>})
  BY <1>3, <1>4, <1>5, <1>6 DEF Through
<1>9. Last(steps) = row
  BY DEF Last
<1> HIDE DEF steps
<1> QED BY <1>2, <1>6, <1>7, <1>8, <1>9

(* A delete leaves nothing.                                                *)
LEMMA DeleteStepsThrough ==
    ASSUME NEW d \in Disk
    PROVE  LET steps == DeleteSteps(d)
           IN  /\ Through(steps, {<< <<>>, <<>> >>}) /\ Len(steps) = 3
               /\ Last(steps) \in Disk /\ Last(steps).file = <<>>
               /\ Last(steps).meta = NoMeta /\ Last(steps).row = NoRow
<1> DEFINE line == Lines(d, <<>>)
           meta == [line EXCEPT !.meta = NoMeta]
           row == [meta EXCEPT !.row = NoRow]
           steps == <<line, meta, row>>
<1>1. <<>> \in Seq(Message) /\ NoMeta \in Meta
  BY EmptySeq DEF NoMeta, Meta
<1>2. DeleteSteps(d) = steps
  BY DEF DeleteSteps
<1>3. line \in Disk /\ line.file = <<>> /\ line.cut = "no"
  BY <1>1, FilePut
<1> HIDE DEF line
<1>4. meta \in Disk /\ meta.file = <<>> /\ meta.cut = "no" /\ meta.meta = NoMeta
  BY <1>1, <1>3 DEF Disk
<1> HIDE DEF meta
<1>5. row \in Disk /\ row.file = <<>> /\ row.cut = "no" /\ row.meta = NoMeta /\ row.row = NoRow
  BY <1>4 DEF Disk
<1> HIDE DEF row
<1>6. Through(steps, {<< <<>>, <<>> >>}) /\ Len(steps) = 3
  <2>1. View(line) = << <<>>, <<>> >> /\ View(meta) = << <<>>, <<>> >> /\ View(row) = << <<>>, <<>> >>
    BY <1>3, <1>4, <1>5 DEF View, Lasting
  <2> QED BY <1>3, <1>4, <1>5, <2>1 DEF Through
<1>7. Last(steps) = row
  BY DEF Last
<1> HIDE DEF steps
<1> QED BY <1>2, <1>5, <1>6, <1>7

(* A new title leaves the disk as it was.                                  *)
LEMMA RetitleStepsThrough ==
    ASSUME NEW d \in Disk
    PROVE  Through(<<OpenMeta(d), d>>, {View(d)}) /\ Last(<<OpenMeta(d), d>>) = d
<1>1. OpenMeta(d) \in Disk /\ View(OpenMeta(d)) = View(d)
  BY OpenedMeta
<1> QED BY <1>1 DEF Through, Last

-----------------------------------------------------------------------------
(* A session that can be read while no handler runs is live.               *)
LEMMA ReadableIsLive ==
    ASSUME IInv, Free, Readable
    PROVE  life = "live"
<1>1. NoMeta.state # "whole"
  BY DEF NoMeta
<1> QED BY <1>1 DEF IInv, TypeOK, LifeInv, Readable, Settled, NoDisk

(* Between the handlers there is one disk.                                 *)
LEMMA FreeDisk ==
    ASSUME TypeOK, Free
    PROVE  Settled = disk /\ Disks = {disk} /\ Len(todo) = 0
<1>1. Len(todo) = 0
  BY DEF Free
<1> QED BY <1>1 DEF Settled, Disks

(* All the files an operation goes through are lists of messages.          *)
LEMMA DiskTyped ==
    ASSUME TypeOK
    PROVE  /\ disk \in Disk /\ disk.file \in Seq(Message)
           /\ \A i \in 1..Len(todo) : todo[i] \in Disk /\ todo[i].file \in Seq(Message)
           /\ Disks \subseteq Disk
<1>1. \A d \in Disk : d.file \in Seq(Message)
  BY DEF Disk
<1>2. \A i \in 1..Len(todo) : todo[i] \in Disk
  BY ElementOfSeq DEF TypeOK
<1> QED BY <1>1, <1>2 DEF TypeOK, Disks

(* A list goes on to be one while no turn is uncommitted.                  *)
LEMMA ListedKept ==
    ASSUME NEW ms, NEW C, NEW D, NEW ts, NEW us, Listed(ms, C, ts), C \subseteq D, us \subseteq ts
    PROVE  Listed(ms, D, us)
BY DEF Listed, Paired

(* The empty list asks nothing of the turns.                               *)
LEMMA EmptyListed == \A C, ts : Listed(<<>>, C, ts)
BY EmptyLists DEF Listed

(* What a rewriter may come to hold.                                       *)
Rehold(r) ==
    \/ held'[r] = held[r] /\ (doing'[r] # "idle" => doing[r] # "idle")
    \/ held'[r] = <<>> /\ doing'[r] = "idle"
    \/ held'[r] = disk.file /\ Free /\ life = "live"

(* What a rewriter holds came from the disk, so it is such a list too.     *)
LEMMA HeldListed ==
    ASSUME IInv, NEW r \in Rewriters, Rehold(r), Committed \subseteq Committed', glued \subseteq glued'
    PROVE  Listed(held'[r], Committed', Turns \ glued')
<1>1. Listed(disk.file, Committed, Turns \ glued) /\ Listed(held[r], Committed, Turns \ glued)
  BY DEF IInv, FilesInv, Disks
<1>2. Listed(disk.file, Committed', Turns \ glued') /\ Listed(held[r], Committed', Turns \ glued')
  BY <1>1, ListedKept
<1> QED BY <1>2, EmptyListed DEF Rehold

(* Nothing acknowledged is missing in what a rewriter holds.               *)
LEMMA HeldKept ==
    ASSUME IInv, NEW r \in Rewriters, Rehold(r), NEW t \in Turns \ (excused \cup glued),
           pc[t] \in {"storing", "done"}, doing'[r] # "idle"
    PROVE  Both(t, held'[r])
<1>1. /\ life = "live" => Both(t, Lasting(Settled))
      /\ doing[r] # "idle" => Both(t, held[r])
  BY DEF IInv, KeptInv
<1>2. Free => Settled = disk
  BY DEF Settled
<1>3. Both(t, Lasting(disk)) => Both(t, disk.file)
  BY DiskTyped, LastingLists DEF Both, IInv
<1> QED BY <1>1, <1>2, <1>3 DEF Rehold

(* The requests and the rewriters move on, and no file does.               *)
LEMMA QuietIInv ==
    ASSUME IInv, UNCHANGED <<disk, todo, life, torn, excused, glued>>, TypeOK',
           \A t \in Turns : /\ pc[t] \in {"storing", "done", "torn"} => pc'[t] \in {"storing", "done", "torn"}
                            /\ pc'[t] \in {"storing", "done"} => pc[t] \in {"storing", "done"}
                            /\ pc'[t] = "done" => pc[t] = "done" \/ Free
                            /\ life = "unborn" => pc'[t] = "idle",
           \A r \in Rewriters : Rehold(r)
    PROVE  IInv'
<1>1. Committed \subseteq Committed' /\ Settled' = Settled /\ Disks' = Disks /\ Free' = Free
  BY DEF Committed, Settled, Disks, Free
<1>2. FilesInv'
  <2>1. \A d \in Disks : Listed(d.file, Committed', Turns \ glued')
    BY <1>1, ListedKept DEF IInv, FilesInv
  <2>2. \A r \in Rewriters : Listed(held'[r], Committed', Turns \ glued')
    BY <1>1, HeldListed
  <2> QED BY <1>1, <2>1, <2>2 DEF FilesInv
<1>3. KeptInv'
  <2> SUFFICES ASSUME NEW t \in Turns \ (excused \cup glued), pc'[t] \in {"storing", "done"}
               PROVE  /\ pc'[t] = "done" => \A d \in Disks : d.file = <<>> \/ Both(t, Lasting(d))
                      /\ life = "live" => Both(t, Lasting(Settled))
                      /\ \A r \in Rewriters : doing'[r] # "idle" => Both(t, held'[r])
    BY <1>1 DEF KeptInv
  <2>1. pc[t] \in {"storing", "done"}
    OBVIOUS
  <2>2. life = "live" => Both(t, Lasting(Settled))
    BY <2>1 DEF IInv, KeptInv
  <2>3. \A r \in Rewriters : doing'[r] # "idle" => Both(t, held'[r])
    BY <2>1, HeldKept
  <2>4. ASSUME pc'[t] = "done" PROVE \A d \in Disks : d.file = <<>> \/ Both(t, Lasting(d))
    <3>1. CASE pc[t] = "done"
      BY <3>1 DEF IInv, KeptInv
    <3>2. CASE Free
      <4>1. Settled = disk /\ Disks = {disk} /\ Len(todo) = 0
        BY <3>2, FreeDisk DEF IInv
      <4>2. life # "unborn"
        BY <2>4
      <4>3. life = "deleted" => disk.file = <<>>
        BY <4>1 DEF IInv, LifeInv
      <4>4. life \in {"live", "deleted"}
        BY <4>2 DEF IInv, TypeOK
      <4> QED BY <2>2, <4>1, <4>3, <4>4
    <3> QED BY <2>4, <3>1, <3>2
  <2> QED BY <2>2, <2>3, <2>4
<1>4. LifeInv'
  BY <1>1 DEF IInv, LifeInv
<1> QED BY <1>2, <1>3, <1>4 DEF IInv

(* A handler begins that goes through disks with these files.              *)
LEMMA HandlerIInv ==
    ASSUME IInv, Free, UNCHANGED disk, TypeOK', NEW F, Through(todo', F),
           Committed \subseteq Committed', excused \subseteq excused', glued \subseteq glued',
           \A r \in Rewriters : Rehold(r),
           \A v \in F : Listed(v[1], Committed', Turns \ glued'),
           \A t \in Turns \ (excused' \cup glued') :
               /\ pc'[t] = "done" => pc[t] = "done" /\ \A v \in F : v[1] = <<>> \/ Both(t, v[2])
               /\ pc'[t] \in {"storing", "done"} =>
                      /\ life' = "live" => Both(t, Lasting(Last(todo')))
                      /\ \A r \in Rewriters : doing'[r] # "idle" => Both(t, held'[r]),
           LifeInv'
    PROVE  IInv'
<1>1. Settled' = Last(todo') /\ \A d \in Disks' : d = disk \/ View(d) \in F
  BY DEF Through, Settled, Free, Disks
<1>2. disk \in Disks /\ \A d \in Disks' : View(d)[1] = d.file /\ View(d)[2] = Lasting(d)
  BY DEF Disks, View
<1>3. FilesInv'
  <2>1. Listed(disk.file, Committed', Turns \ glued')
    BY <1>2, ListedKept DEF IInv, FilesInv
  <2>2. \A d \in Disks' : Listed(d.file, Committed', Turns \ glued')
    BY <1>1, <1>2, <2>1
  <2>3. \A r \in Rewriters : Listed(held'[r], Committed', Turns \ glued')
    BY HeldListed
  <2> QED BY <2>2, <2>3 DEF FilesInv
<1>4. KeptInv'
  <2> SUFFICES ASSUME NEW t \in Turns \ (excused' \cup glued'), pc'[t] \in {"storing", "done"}
               PROVE  /\ pc'[t] = "done" => \A d \in Disks' : d.file = <<>> \/ Both(t, Lasting(d))
                      /\ life' = "live" => Both(t, Lasting(Settled'))
                      /\ \A r \in Rewriters : doing'[r] # "idle" => Both(t, held'[r])
    BY DEF KeptInv
  <2>1. ASSUME pc'[t] = "done" PROVE \A d \in Disks' : d.file = <<>> \/ Both(t, Lasting(d))
    <3>1. pc[t] = "done" /\ t \in Turns \ (excused \cup glued) /\ \A v \in F : v[1] = <<>> \/ Both(t, v[2])
      BY <2>1
    <3>2. disk.file = <<>> \/ Both(t, Lasting(disk))
      BY <1>2, <3>1 DEF IInv, KeptInv
    <3> QED BY <1>1, <1>2, <3>1, <3>2
  <2> QED BY <1>1, <2>1
<1> QED BY <1>3, <1>4 DEF IInv

-----------------------------------------------------------------------------
(* Each action preserves the invariant.                                    *)
LEMMA WriteIInv ==
    ASSUME IInv, Write
    PROVE  IInv'
<1>1. /\ todo \in Seq(Disk) /\ todo # <<>> /\ disk' = Head(todo) /\ todo' = Tail(todo)
      /\ UNCHANGED <<life, pc, doing, held, torn, excused, glued, crashes>> /\ TypeOK
  BY DEF IInv, TypeOK, Write, rewriteVars
<1> DEFINE n == Len(todo)
<1>2. /\ n \in Nat /\ n > 0 /\ Head(todo) = todo[1] /\ Head(todo) \in Disk
      /\ todo' \in Seq(Disk) /\ Len(todo') = n - 1 /\ \A i \in 1..(n - 1) : todo'[i] = todo[i + 1]
  <2>1. n \in Nat /\ n # 0
    BY <1>1, LenProperties, EmptySeq
  <2> QED BY <1>1, <2>1, HeadTailProperties
<1> HIDE DEF n
<1>3. TypeOK'
  BY <1>1, <1>2 DEF TypeOK
<1>4. Settled' = Settled
  <2>1. CASE n = 1
    <3>1. Len(todo') = 0
      BY <1>2, <2>1
    <3>2. todo' = <<>>
      BY <1>2, <3>1, EmptySeq
    <3> QED BY <1>1, <1>2, <2>1, <3>2 DEF Settled, Free, Last, n
  <2>2. CASE n > 1
    <3>1. n - 1 \in 1..(n - 1) /\ n - 1 + 1 = n /\ Len(todo') # 0
      BY <1>2, <2>2
    <3>2. todo' # <<>>
      BY <3>1, EmptySeq
    <3>3. todo'[Len(todo')] = todo[n]
      BY <1>2, <3>1
    <3> QED BY <1>1, <3>2, <3>3 DEF Settled, Free, Last, n
  <2> QED BY <1>2, <2>1, <2>2
<1>5. \A i \in 1..(n - 1) : i + 1 \in 1..n
  BY <1>2
<1>6. 1 \in 1..n
  BY <1>2
<1>7. Disks' \subseteq Disks
  BY <1>1, <1>2, <1>5, <1>6 DEF Disks, n
<1>8. FilesInv'
  BY <1>1, <1>7 DEF IInv, FilesInv, Committed
<1>9. KeptInv'
  BY <1>1, <1>4, <1>7 DEF IInv, KeptInv
<1>10. LifeInv'
  <2>1. life # "unborn"
    BY <1>1 DEF IInv, LifeInv, Free
  <2>2. ASSUME life = "deleted"
        PROVE  /\ \A i \in 1..Len(todo') : todo'[i].file = <<>>
               /\ Len(todo') <= 3 /\ disk'.file = <<>>
    <3>1. (\A i \in 1..n : todo[i].file = <<>>) /\ n <= 3
      BY <2>2 DEF IInv, LifeInv, n
    <3>2. n - 1 <= 3
      BY <1>2, <3>1
    <3> QED BY <1>1, <1>2, <1>5, <1>6, <3>1, <3>2
  <2> QED BY <1>1, <1>4, <2>1, <2>2 DEF IInv, LifeInv
<1> QED BY <1>3, <1>8, <1>9, <1>10 DEF IInv

(* A session begins, empty.                                                *)
LEMMA BeginIInv ==
    ASSUME IInv, life = "unborn", life' = "live", todo' = CreateSteps(disk),
           UNCHANGED <<disk, rewriteVars, torn, excused, glued, crashes>>,
           pc' \in [Turns -> {"idle", "answering"}]
    PROVE  IInv'
<1>1. /\ Free /\ disk.file = <<>> /\ disk.cut = "no" /\ disk \in Disk /\ TypeOK
      /\ \A t \in Turns : pc[t] = "idle" /\ pc'[t] \in {"idle", "answering"}
      /\ UNCHANGED <<doing, held>>
  BY DiskTyped DEF IInv, LifeInv, rewriteVars, NoDisk
<1>2. /\ Through(todo', {<< <<>>, <<>> >>}) /\ Last(todo').file = <<>> /\ Last(todo').cut = "no"
      /\ Last(todo').meta.count = 0 /\ Last(todo').row = 0
  <2>1. View(disk) = << <<>>, <<>> >>
    BY <1>1 DEF View, Lasting
  <2> QED BY <1>1, <2>1, CreateStepsThrough
<1>3. TypeOK'
  <2>1. todo' \in Seq(Disk)
    BY <1>2 DEF Through
  <2>2. pc' \in [Turns -> Open \cup {"idle", "storing", "done", "failed", "dropped", "lost", "torn"}]
    BY DEF Open
  <2> QED BY <1>1, <2>1, <2>2 DEF TypeOK
<1>4. Committed \subseteq Committed'
  BY <1>1 DEF Committed
<1>5. LifeInv'
  <2>1. Settled' = Last(todo')
    BY <1>2 DEF Through, Settled, Free
  <2> QED BY <1>2, <2>1, EmptyLists DEF LifeInv, Counted
<1>6. \A r \in Rewriters : Rehold(r)
  BY <1>1 DEF Rehold
<1>7. \A v \in {<< <<>>, <<>> >>} : Listed(v[1], Committed', Turns \ glued')
  BY EmptyListed
<1>8. \A t \in Turns : pc'[t] # "done" /\ pc'[t] # "storing"
  BY <1>1
<1> DEFINE F == {<< <<>>, <<>> >>}
<1>9. Through(todo', F) /\ \A v \in F : Listed(v[1], Committed', Turns \ glued')
  BY <1>2, <1>7
<1>10. excused \subseteq excused' /\ glued \subseteq glued'
  OBVIOUS
<1> HIDE DEF F
<1> QED BY <1>1, <1>3, <1>4, <1>5, <1>6, <1>8, <1>9, <1>10, HandlerIInv

(* A session is created by its route.                                      *)
LEMMA CreateIInv ==
    ASSUME IInv, Create
    PROVE  IInv'
<1>1. life = "unborn" /\ pc' = pc /\ \A t \in Turns : pc[t] = "idle"
  BY DEF Create, IInv, LifeInv
<1>2. pc' \in [Turns -> {"idle", "answering"}]
  BY <1>1 DEF IInv, TypeOK
<1> QED BY <1>1, <1>2, BeginIInv DEF Create

(* A request moves on without writing.                                     *)
LEMMA RequestIInv ==
    ASSUME IInv, NEW t \in Turns, NEW to \in Open \cup {"failed", "dropped", "done"},
           UNCHANGED <<disk, todo, life, rewriteVars, torn, excused, glued, crashes>>,
           pc' = [pc EXCEPT ![t] = to], life # "unborn",
           (pc[t] \in {"idle"} \cup Open /\ to # "done") \/ (pc[t] = "storing" /\ to = "done" /\ Free)
    PROVE  IInv'
<1>1. TypeOK /\ UNCHANGED <<doing, held>>
  BY DEF IInv, rewriteVars
<1>2. TypeOK'
  BY <1>1 DEF TypeOK
<1>3. pc'[t] = to /\ \A u \in Turns \ {t} : pc'[u] = pc[u]
  BY <1>1 DEF TypeOK
<1>4. \A u \in Turns : /\ pc[u] \in {"storing", "done", "torn"} => pc'[u] \in {"storing", "done", "torn"}
                       /\ pc'[u] \in {"storing", "done"} => pc[u] \in {"storing", "done"}
                       /\ pc'[u] = "done" => pc[u] = "done" \/ Free
                       /\ life = "unborn" => pc'[u] = "idle"
  BY <1>3 DEF Open
<1>5. \A r \in Rewriters : Rehold(r)
  BY <1>1 DEF Rehold
<1> QED BY <1>2, <1>4, <1>5, QuietIInv

(* A question arrives, and creates the session if there is none.           *)
LEMMA AskIInv ==
    ASSUME IInv, NEW t \in Turns, Ask(t)
    PROVE  IInv'
<1>1. CASE life = "unborn"
  <2>1. pc' = [pc EXCEPT ![t] = "answering"] /\ \A u \in Turns : pc[u] = "idle"
    BY <1>1 DEF Ask, IInv, LifeInv
  <2>2. pc' \in [Turns -> {"idle", "answering"}]
    BY <2>1 DEF IInv, TypeOK
  <2> QED BY <1>1, <2>2, BeginIInv DEF Ask
<1>2. CASE life # "unborn"
  <2>1. PICK to \in {"answering", "failed"} : pc' = [pc EXCEPT ![t] = to]
    BY DEF Ask
  <2>2. UNCHANGED <<disk, todo, life, rewriteVars, torn, excused, glued, crashes>> /\ pc[t] = "idle"
    BY <1>2 DEF Ask
  <2>3. to \in Open \cup {"failed", "dropped", "done"} /\ to # "done"
    BY DEF Open
  <2>4. (pc[t] \in {"idle"} \cup Open /\ to # "done") \/ (pc[t] = "storing" /\ to = "done" /\ Free)
    BY <2>2, <2>3
  <2> QED BY <1>2, <2>1, <2>2, <2>3, <2>4, RequestIInv
<1> QED BY <1>1, <1>2

(* A turn is stored: question and answer behind all that is there.         *)
LEMMA PersistIInv ==
    ASSUME IInv, Free, NEW t \in Turns, pc[t] \in Open, Persist(t),
           UNCHANGED <<disk, life, rewriteVars, torn, crashes>>
    PROVE  IInv'
<1>1. /\ TypeOK /\ UNCHANGED <<doing, held>> /\ disk \in Disk /\ disk.file \in Seq(Message)
      /\ Settled = disk
  BY DiskTyped, FreeDisk DEF IInv, rewriteVars
<1>2. life # "unborn"
  BY DEF IInv, LifeInv, Open
<1>3. CASE ~Readable
  <2>1. pc' = [pc EXCEPT ![t] = "failed"] /\ UNCHANGED <<todo, excused, glued>>
    BY <1>3 DEF Persist
  <2> DEFINE to == "failed"
  <2>2. /\ to \in Open \cup {"failed", "dropped", "done"} /\ to # "done" /\ pc[t] \in {"idle"} \cup Open
        /\ pc' = [pc EXCEPT ![t] = to]
    BY <2>1
  <2> HIDE DEF to
  <2>3. (pc[t] \in {"idle"} \cup Open /\ to # "done") \/ (pc[t] = "storing" /\ to = "done" /\ Free)
    BY <2>2
  <2> QED BY <1>2, <2>1, <2>2, <2>3, RequestIInv
<1>4. CASE Readable
  <2> DEFINE q == Said(t, "user")
             a == Said(t, "assistant")
             one == After(disk, q)
             two == Append(one, a)
             question == AppendSteps(disk, q)
             answer == AppendSteps(Last(question), a)
  <2>1. /\ todo' = question \o answer /\ pc' = [pc EXCEPT ![t] = "storing"]
        /\ excused \subseteq excused' /\ excused' \subseteq excused \cup {t}
        /\ (\E r \in Rewriters : doing[r] # "idle") => t \in excused'
        /\ glued \subseteq glued' /\ glued' \subseteq glued \cup {t} /\ (disk.cut # "no" => t \in glued')
    BY <1>4 DEF Persist, Noted
  <2>2. life = "live"
    BY <1>4, ReadableIsLive
  <2>3. q \in Message /\ a \in Message
    BY DEF Said, Message, Part
  <2>4. /\ Through(question, {<<one, one>>}) /\ Last(question) \in Disk /\ Last(question).file = one
        /\ Last(question).cut = "no" /\ Last(question).meta.count = disk.meta.count + 1
    BY <1>1, <2>3, AppendStepsThrough
  <2>5. /\ Through(answer, {<<two, two>>}) /\ Last(answer).file = two /\ Last(answer).cut = "no"
        /\ Last(answer).meta.count = disk.meta.count + 1 + 1
        /\ Last(answer).row \in {NoRow, disk.meta.count + 1 + 1}
    <3> HIDE DEF question, one
    <3>1. After(Last(question), a) = two
      BY <2>4 DEF After
    <3> QED BY <2>3, <2>4, <3>1, AppendStepsThrough
  <2>6. Listed(disk.file, Committed, Turns \ glued)
    BY DEF IInv, FilesInv, Disks
  <2>7. t \notin Committed /\ Committed \subseteq Committed' /\ t \in Committed'
    BY <1>1, <2>1 DEF Committed, Open, TypeOK
  <2>8. <<t, "user">> \notin Parts(disk.file) /\ <<t, "assistant">> \notin Parts(disk.file)
    BY <2>6, <2>7 DEF Listed
  <2> DEFINE ts == Turns \ glued'
             keep == Lasting(disk)
  <2>9. /\ one \in Seq(Message) /\ SystemFirst(one) /\ Apart(one) /\ Paired(one, ts)
        /\ Parts(keep) \subseteq Parts(one) /\ Parts(one) \subseteq Parts(disk.file) \cup {<<t, "user">>}
        /\ disk.cut = "no" => /\ Len(one) = Len(disk.file) + 1 /\ Last(one) = q /\ one # <<>>
                              /\ <<t, "user">> \in Parts(one)
    <3>1. SystemFirst(disk.file) /\ Apart(disk.file) /\ Paired(disk.file, ts) /\ Listed(disk.file, Committed, ts)
      <4>1. ts \subseteq Turns \ glued
        BY <2>1
      <4> HIDE DEF ts
      <4>2. Listed(disk.file, Committed, ts)
        BY <2>6, <4>1, ListedKept
      <4> QED BY <4>2 DEF Listed
    <3> HIDE DEF ts
    <3>2. keep \in Seq(Message) /\ Parts(keep) \subseteq Parts(disk.file) /\ Listed(keep, Committed, ts)
      BY <1>1, <3>1, LastingLists
    <3>3. CASE disk.cut = "no"
      <4>1. one = Append(disk.file, q) /\ keep = disk.file
        BY <3>3 DEF After, Lasting
      <4> HIDE DEF keep, one
      <4> QED BY <1>1, <2>8, <3>1, <4>1, AppendLists
    <3>4. CASE disk.cut # "no"
      <4>1. one = keep
        BY <3>4 DEF After
      <4> HIDE DEF keep, one
      <4> QED BY <3>2, <3>4, <4>1 DEF Listed
    <3> QED BY <3>3, <3>4
  <2> HIDE DEF one
  <2>10. /\ two \in Seq(Message) /\ Len(two) = Len(one) + 1
         /\ SystemFirst(two) /\ Apart(two) /\ Paired(two, ts)
         /\ Parts(two) = Parts(one) \cup {<<t, "assistant">>}
    <3>1. <<t, "assistant">> \notin Parts(one)
      BY <2>8, <2>9
    <3>2. t \in ts => one # <<>> /\ Last(one) = q
      BY <2>1, <2>9
    <3> HIDE DEF ts
    <3> QED BY <2>9, <3>1, <3>2, AppendLists
  <2> HIDE DEF two, question, answer, q, a
  <2>11. Listed(one, Committed', Turns \ glued') /\ Listed(two, Committed', Turns \ glued')
    BY <2>6, <2>7, <2>9, <2>10 DEF Listed
  <2>12. Through(todo', {<<one, one>>} \cup {<<two, two>>}) /\ Last(todo') = Last(answer)
    BY <2>1, <2>4, <2>5, ThroughConcat
  <2>13. TypeOK'
    <3>1. todo' \in Seq(Disk)
      BY <2>12 DEF Through
    <3> QED BY <1>1, <2>1, <3>1 DEF TypeOK
  <2>14. LifeInv'
    <3>1. Settled' = Last(todo')
      BY <2>12 DEF Through, Settled, Free
    <3>2. disk.cut = "no" /\ disk.meta.count = Len(disk.file) => Counted(Last(answer))
      BY <2>5, <2>9, <2>10 DEF Counted
    <3>3. ~torn => disk.cut = "no" /\ disk.meta.count = Len(disk.file)
      BY <1>1, <2>2 DEF IInv, LifeInv, Counted
    <3> QED BY <2>2, <2>5, <2>12, <3>1, <3>2, <3>3 DEF LifeInv
  <2>15. \A r \in Rewriters : Rehold(r)
    BY <1>1 DEF Rehold
  <2>16. pc'[t] = "storing" /\ \A u \in Turns \ {t} : pc'[u] = pc[u]
    BY <1>1, <2>1 DEF TypeOK
  <2>17. ASSUME NEW u \in Turns \ (excused' \cup glued'), pc'[u] \in {"storing", "done"}
         PROVE  /\ Both(u, two) /\ (u # t => Both(u, one))
                /\ \A r \in Rewriters : doing'[r] # "idle" => Both(u, held'[r])
    <3>1. CASE u = t
      <4>1. Both(u, two)
        BY <2>1, <2>9, <2>10, <2>17, <3>1 DEF Both
      <4>2. \A r \in Rewriters : doing'[r] = "idle"
        BY <1>1, <2>1, <2>17, <3>1
      <4> QED BY <3>1, <4>1, <4>2
    <3>2. CASE u # t
      <4>1. u \in Turns \ (excused \cup glued) /\ pc[u] \in {"storing", "done"}
        BY <2>1, <2>16, <2>17, <3>2
      <4>2. Both(u, keep)
        BY <1>1, <2>2, <4>1 DEF IInv, KeptInv
      <4>3. Both(u, one) /\ Both(u, two)
        <5> HIDE DEF keep
        <5> QED BY <2>9, <2>10, <4>2 DEF Both
      <4>4. \A r \in Rewriters : doing'[r] # "idle" => Both(u, held'[r])
        BY <2>15, <4>1, HeldKept
      <4> QED BY <4>3, <4>4
    <3> QED BY <3>1, <3>2
  <2>18. \A u \in Turns : pc'[u] = "done" => pc[u] = "done" /\ u # t
    BY <2>16
  <2>19. \A u \in Turns \ (excused' \cup glued') :
             /\ pc'[u] = "done" => pc[u] = "done" /\ \A v \in {<<one, one>>} \cup {<<two, two>>} : v[1] = <<>> \/ Both(u, v[2])
             /\ pc'[u] \in {"storing", "done"} =>
                    /\ life' = "live" => Both(u, Lasting(Last(todo')))
                    /\ \A r \in Rewriters : doing'[r] # "idle" => Both(u, held'[r])
    <3>1. Lasting(Last(todo')) = two
      BY <2>5, <2>12 DEF Lasting
    <3> QED BY <2>17, <2>18, <3>1
  <2>20. \A v \in {<<one, one>>} \cup {<<two, two>>} : Listed(v[1], Committed', Turns \ glued')
    BY <2>11
  <2> QED BY <2>1, <2>7, <2>12, <2>13, <2>14, <2>15, <2>19, <2>20, HandlerIInv
<1> QED BY <1>3, <1>4

(* The actions of a request.                                               *)
LEMMA NotUnborn ==
    ASSUME IInv, NEW t \in Turns, pc[t] # "idle"
    PROVE  life # "unborn"
BY DEF IInv, LifeInv

(* So every step of a request preserves IInv.                              *)
LEMMA StepIInv ==
    ASSUME IInv, NEW t \in Turns, Request(t)
    PROVE  IInv'
<1>1. CASE Ask(t)
  BY <1>1, AskIInv
<1>2. CASE Answered(t) \/ Cited(t)
  <2>1. Free /\ pc[t] \in Open /\ Persist(t) /\ UNCHANGED <<disk, life, rewriteVars, torn, crashes>>
    BY <1>2 DEF Answered, Cited, Open
  <2> QED BY <2>1, PersistIInv
<1>3. CASE Streams(t) \/ Raise(t) \/ Close(t)
  <2>1. PICK to \in {"citing", "failed", "dropped"} : pc' = [pc EXCEPT ![t] = to]
    BY <1>3 DEF Streams, Raise, Close
  <2>2. pc[t] \in {"idle"} \cup Open /\ pc[t] # "idle"
    BY <1>3 DEF Streams, Raise, Close, Open
  <2>3. to \in Open \cup {"failed", "dropped", "done"} /\ to # "done"
    BY DEF Open
  <2>4. UNCHANGED <<disk, todo, life, rewriteVars, torn, excused, glued, crashes>>
    BY <1>3 DEF Streams, Raise, Close
  <2> QED BY <2>1, <2>2, <2>3, <2>4, NotUnborn, RequestIInv
<1>4. CASE Reply(t)
  <2> DEFINE to == "done"
  <2>1. /\ pc' = [pc EXCEPT ![t] = to] /\ pc[t] = "storing" /\ pc[t] # "idle" /\ Free
        /\ UNCHANGED <<disk, todo, life, rewriteVars, torn, excused, glued, crashes>>
    BY <1>4 DEF Reply
  <2>2. to \in Open \cup {"failed", "dropped", "done"} /\ to = "done"
    OBVIOUS
  <2> HIDE DEF to
  <2> QED BY <2>1, <2>2, NotUnborn, RequestIInv
<1> QED BY <1>1, <1>2, <1>3, <1>4 DEF Request

(* A rewriter takes up the messages, or gives them up.                     *)
LEMMA RewriterIInv ==
    ASSUME IInv, NEW r \in Rewriters, UNCHANGED <<disk, todo, life, pc, torn, excused, glued, crashes>>,
           NEW to \in {"idle", "compacting", "editing"}, NEW ms \in Seq(Message),
           doing' = [doing EXCEPT ![r] = to], held' = [held EXCEPT ![r] = ms],
           (to = "idle" /\ ms = <<>>) \/ (Free /\ Readable /\ ms = disk.file)
    PROVE  IInv'
<1>1. TypeOK
  BY DEF IInv
<1>2. TypeOK'
  BY <1>1 DEF TypeOK
<1>3. Rehold(r)
  <2>1. doing'[r] = to /\ held'[r] = ms
    BY <1>1 DEF TypeOK
  <2> QED BY <2>1, ReadableIsLive DEF Rehold
<1>4. \A x \in Rewriters \ {r} : Rehold(x)
  BY <1>1 DEF TypeOK, Rehold
<1>5. \A x \in Rewriters : Rehold(x)
  BY <1>3, <1>4
<1>6. \A t \in Turns : life = "unborn" => pc'[t] = "idle"
  BY DEF IInv, LifeInv
<1> QED BY <1>2, <1>5, <1>6, QuietIInv

(* A compaction or a client loads the messages, or the summary fails.      *)
LEMMA TakeIInv ==
    ASSUME IInv, NEW r \in Rewriters, Compact(r) \/ Fetch(r) \/ SummaryFails(r)
    PROVE  IInv'
<1>1. CASE Compact(r) \/ Fetch(r)
  <2>1. /\ Free /\ Readable /\ held' = [held EXCEPT ![r] = disk.file]
        /\ UNCHANGED <<disk, todo, life, pc, torn, excused, glued, crashes>>
    BY <1>1 DEF Compact, Fetch
  <2>2. PICK to \in {"compacting", "editing"} : doing' = [doing EXCEPT ![r] = to]
    BY <1>1 DEF Compact, Fetch
  <2>3. disk.file \in Seq(Message) /\ to \in {"idle", "compacting", "editing"}
    BY DiskTyped DEF IInv
  <2> QED BY <2>1, <2>2, <2>3, RewriterIInv
<1>2. CASE SummaryFails(r)
  <2>1. /\ doing' = [doing EXCEPT ![r] = "idle"] /\ held' = [held EXCEPT ![r] = <<>>]
        /\ UNCHANGED <<disk, todo, life, pc, torn, excused, glued, crashes>>
    BY <1>2 DEF SummaryFails, Forget
  <2>2. <<>> \in Seq(Message)
    BY EmptySeq
  <2> QED BY <2>1, <2>2, RewriterIInv
<1> QED BY <1>1, <1>2

(* A rewrite of the file with a list that has every acknowledged turn.     *)
LEMMA SaveIInv ==
    ASSUME IInv, Free, Readable, NEW r \in Rewriters, Forget(r), torn' = FALSE,
           UNCHANGED <<disk, life, pc, excused, glued, crashes>>,
           NEW ms \in Seq(Message), Listed(ms, Committed, Turns \ glued),
           \A t \in Turns \ (excused \cup glued) : pc[t] \in {"storing", "done"} => Both(t, ms),
           Through(todo', {<< <<>>, <<>> >>, <<ms, ms>>}), Last(todo').file = ms, Last(todo').cut = "no",
           Last(todo').meta.count = Len(ms), Last(todo').row \in {NoRow, Len(ms)}
    PROVE  IInv'
<1>1. TypeOK /\ life = "live" /\ Committed' = Committed
  BY ReadableIsLive DEF IInv, Committed
<1>2. doing' = [doing EXCEPT ![r] = "idle"] /\ held' = [held EXCEPT ![r] = <<>>] /\ <<>> \in Seq(Message)
  BY EmptySeq DEF Forget
<1>3. TypeOK'
  <2>1. todo' \in Seq(Disk)
    BY DEF Through
  <2> QED BY <1>1, <1>2, <2>1 DEF TypeOK
<1>4. \A x \in Rewriters : Rehold(x)
  <2>1. doing'[r] = "idle" /\ held'[r] = <<>>
    BY <1>1, <1>2 DEF TypeOK
  <2>2. \A x \in Rewriters \ {r} : doing'[x] = doing[x] /\ held'[x] = held[x]
    BY <1>1, <1>2 DEF TypeOK
  <2> QED BY <2>1, <2>2 DEF Rehold
<1>5. LifeInv'
  <2>1. Settled' = Last(todo')
    BY DEF Through, Settled, Free
  <2> QED BY <1>1, <2>1 DEF LifeInv, Counted
<1>6. \A v \in {<< <<>>, <<>> >>, <<ms, ms>>} : Listed(v[1], Committed', Turns \ glued')
  BY <1>1, EmptyListed
<1>7. ASSUME NEW t \in Turns \ (excused' \cup glued'), pc'[t] \in {"storing", "done"}
      PROVE  Both(t, ms) /\ \A x \in Rewriters : doing'[x] # "idle" => Both(t, held'[x])
  BY <1>4, <1>7, HeldKept
<1>8. \A t \in Turns \ (excused' \cup glued') :
          /\ pc'[t] = "done" => pc[t] = "done" /\ \A v \in {<< <<>>, <<>> >>, <<ms, ms>>} : v[1] = <<>> \/ Both(t, v[2])
          /\ pc'[t] \in {"storing", "done"} =>
                 /\ life' = "live" => Both(t, Lasting(Last(todo')))
                 /\ \A x \in Rewriters : doing'[x] # "idle" => Both(t, held'[x])
  <2>1. Lasting(Last(todo')) = ms
    BY DEF Lasting
  <2> QED BY <1>7, <2>1
<1> DEFINE F == {<< <<>>, <<>> >>, <<ms, ms>>}
<1>9. /\ Through(todo', F) /\ \A v \in F : Listed(v[1], Committed', Turns \ glued')
      /\ \A t \in Turns \ (excused' \cup glued') :
             pc'[t] = "done" => pc[t] = "done" /\ \A v \in F : v[1] = <<>> \/ Both(t, v[2])
  BY <1>6, <1>8
<1>10. excused \subseteq excused' /\ glued \subseteq glued' /\ Committed \subseteq Committed'
  BY <1>1
<1> HIDE DEF F
<1> QED BY <1>3, <1>4, <1>5, <1>8, <1>9, <1>10, HandlerIInv

(* A save that is refused.                                                 *)
LEMMA RefusedIInv ==
    ASSUME IInv, NEW r \in Rewriters, Forget(r),
           UNCHANGED <<disk, todo, life, pc, torn, excused, glued, crashes>>
    PROVE  IInv'
<1>1. doing' = [doing EXCEPT ![r] = "idle"] /\ held' = [held EXCEPT ![r] = <<>>] /\ <<>> \in Seq(Message)
  BY EmptySeq DEF Forget
<1> QED BY <1>1, RewriterIInv

(* What a rewriter holds has every turn that was acknowledged before.      *)
LEMMA HeldLists ==
    ASSUME IInv, NEW r \in Rewriters, doing[r] # "idle"
    PROVE  /\ held[r] \in Seq(Message) /\ Listed(held[r], Committed, Turns \ glued)
           /\ \A t \in Turns \ (excused \cup glued) : pc[t] \in {"storing", "done"} => Both(t, held[r])
BY DEF IInv, TypeOK, FilesInv, KeptInv

(* A client saves what it loaded.                                          *)
LEMMA PutBackIInv ==
    ASSUME IInv, NEW r \in Rewriters, PutBack(r)
    PROVE  IInv'
<1>1. Free /\ doing[r] # "idle" /\ Save(held[r], <<>>) /\ Forget(r) /\ UNCHANGED <<disk, life, pc, excused, glued, crashes>>
  BY DEF PutBack
<1>2. /\ held[r] \in Seq(Message) /\ Listed(held[r], Committed, Turns \ glued) /\ disk \in Disk
      /\ \A t \in Turns \ (excused \cup glued) : pc[t] \in {"storing", "done"} => Both(t, held[r])
  BY <1>1, HeldLists, DiskTyped DEF IInv
<1>3. CASE Readable /\ Len(held[r]) <= MaxMessages
  <2> DEFINE steps == SaveSteps(disk, held[r])
  <2>1. /\ Through(steps, {<< <<>>, <<>> >>, <<held[r], held[r]>>})
        /\ Last(steps).file = held[r] /\ Last(steps).cut = "no"
        /\ Last(steps).meta.count = Len(held[r]) /\ Last(steps).row \in {NoRow, Len(held[r])}
    BY <1>2, SaveStepsThrough
  <2>2. todo' = steps \o <<>> /\ torn' = FALSE
    BY <1>1, <1>3 DEF Save
  <2> HIDE DEF steps
  <2>3. steps \o <<>> = steps
    BY <2>1, ConcatEmptySeq DEF Through
  <2> QED BY <1>1, <1>2, <1>3, <2>1, <2>2, <2>3, SaveIInv
<1>4. CASE ~(Readable /\ Len(held[r]) <= MaxMessages)
  BY <1>1, <1>4, RefusedIInv DEF Save
<1> QED BY <1>3, <1>4

(* A compaction says what the messages it summed up said.                  *)
LEMMA SummarisedIInv ==
    ASSUME IInv, NEW r \in Rewriters, Summarised(r)
    PROVE  IInv'
<1> DEFINE new == Compacted(held[r])
           noted == PutMeta(Lines(disk, new), Len(new), TRUE)
           after == <<PutRow(noted, Len(new))>>
<1>1. Free /\ doing[r] # "idle" /\ Save(new, after) /\ Forget(r) /\ UNCHANGED <<disk, life, pc, excused, glued, crashes>>
  BY DEF Summarised
<1>2. /\ held[r] \in Seq(Message) /\ Listed(held[r], Committed, Turns \ glued) /\ disk \in Disk
      /\ \A t \in Turns \ (excused \cup glued) : pc[t] \in {"storing", "done"} => Both(t, held[r])
  BY <1>1, HeldLists, DiskTyped DEF IInv
<1>3. /\ new \in Seq(Message) /\ SystemFirst(new) /\ Apart(new) /\ Paired(new, Turns \ glued)
      /\ Parts(new) = Parts(held[r])
  BY <1>2, CompactedLists DEF Listed
<1> HIDE DEF new
<1>4. Listed(new, Committed, Turns \ glued) /\ \A t \in Turns \ (excused \cup glued) : pc[t] \in {"storing", "done"} => Both(t, new)
  BY <1>2, <1>3 DEF Listed, Both
<1>5. CASE Readable /\ Len(new) <= MaxMessages
  <2> DEFINE steps == SaveSteps(disk, new)
             row == PutRow(noted, Len(new))
             whole == Lines(disk, new)
             views == {<< <<>>, <<>> >>, <<new, new>>}
  <2>1. Through(steps, views)
    BY <1>2, <1>3, SaveStepsThrough
  <2>2. todo' = steps \o after /\ torn' = FALSE
    BY <1>1, <1>5 DEF Save
  <2>3. Len(new) \in Nat /\ whole \in Disk /\ whole.file = new /\ whole.cut = "no" /\ View(whole) = <<new, new>>
    BY <1>2, <1>3, LenProperties, FilePut
  <2> HIDE DEF steps, whole
  <2>4. /\ noted \in Disk /\ noted.file = new /\ noted.cut = "no" /\ View(noted) = <<new, new>>
        /\ noted.meta = [state |-> "whole", count |-> Len(new), compacted |-> TRUE]
    BY <2>3, MetaPut DEF whole
  <2> HIDE DEF noted
  <2>5. /\ row \in Disk /\ row.file = new /\ row.cut = "no" /\ row.meta = noted.meta
        /\ row.row \in {NoRow, Len(new)} /\ View(row) = <<new, new>>
    BY <2>3, <2>4, RowPut
  <2>6. row.meta.count = Len(new)
    BY <2>4, <2>5
  <2>7. after = <<row>>
    OBVIOUS
  <2> HIDE DEF row, after
  <2>8. Through(after, views) /\ Last(after) = row
    BY <2>5, <2>7 DEF Through, Last
  <2>9. Through(todo', views \cup views) /\ Last(todo') = row
    <3> HIDE DEF views
    <3> QED BY <2>1, <2>2, <2>8, ThroughConcat
  <2>10. views \cup views = views
    OBVIOUS
  <2> QED BY <1>1, <1>3, <1>4, <1>5, <2>2, <2>5, <2>6, <2>9, <2>10, SaveIInv
<1>6. CASE ~(Readable /\ Len(new) <= MaxMessages)
  BY <1>1, <1>6, RefusedIInv DEF Save
<1> QED BY <1>5, <1>6

(* A new title.                                                            *)
LEMMA RetitleIInv ==
    ASSUME IInv, Retitle
    PROVE  IInv'
<1>1. /\ Free /\ Readable /\ todo' = <<OpenMeta(disk), disk>> /\ TypeOK /\ disk \in Disk
      /\ UNCHANGED <<disk, life, pc, doing, held, torn, excused, glued, crashes>>
  BY DiskTyped DEF Retitle, IInv, rewriteVars
<1>2. Through(todo', {View(disk)}) /\ Last(todo') = disk
  BY <1>1, RetitleStepsThrough
<1>3. life = "live" /\ Settled = disk /\ Committed' = Committed
  BY <1>1, ReadableIsLive, FreeDisk DEF Committed
<1>4. TypeOK'
  <2>1. todo' \in Seq(Disk)
    BY <1>2 DEF Through
  <2> QED BY <1>1, <2>1 DEF TypeOK
<1>5. LifeInv'
  <2>1. Settled' = disk
    BY <1>2 DEF Through, Settled, Free
  <2>2. Counted(disk)' <=> Counted(disk)
    BY <1>1 DEF Counted
  <2>3. ~torn => Counted(disk) /\ disk.cut = "no"
    BY <1>3 DEF IInv, LifeInv
  <2> QED BY <1>1, <1>3, <2>1, <2>2, <2>3 DEF LifeInv
<1>6. \A r \in Rewriters : Rehold(r)
  BY <1>1 DEF Rehold
<1>7. \A v \in {View(disk)} : Listed(v[1], Committed', Turns \ glued')
  <2>1. Listed(disk.file, Committed', Turns \ glued')
    BY <1>1, <1>3 DEF IInv, FilesInv, Disks
  <2>2. View(disk)[1] = disk.file
    BY DEF View
  <2> QED BY <2>1, <2>2
<1>8. \A t \in Turns \ (excused' \cup glued') :
          /\ pc'[t] = "done" => pc[t] = "done" /\ \A v \in {View(disk)} : v[1] = <<>> \/ Both(t, v[2])
          /\ pc'[t] \in {"storing", "done"} =>
                 /\ life' = "live" => Both(t, Lasting(Last(todo')))
                 /\ \A r \in Rewriters : doing'[r] # "idle" => Both(t, held'[r])
  BY <1>1, <1>2, <1>3 DEF IInv, KeptInv, View, Disks
<1>9. excused \subseteq excused' /\ glued \subseteq glued' /\ Committed \subseteq Committed'
  BY <1>1, <1>3
<1> DEFINE F == {View(disk)}
<1>10. /\ Through(todo', F) /\ \A v \in F : Listed(v[1], Committed', Turns \ glued')
       /\ \A t \in Turns \ (excused' \cup glued') :
              pc'[t] = "done" => pc[t] = "done" /\ \A v \in F : v[1] = <<>> \/ Both(t, v[2])
  BY <1>2, <1>7, <1>8
<1> HIDE DEF F
<1> QED BY <1>1, <1>4, <1>5, <1>6, <1>8, <1>9, <1>10, HandlerIInv

(* A delete: the turns are no longer owed to anyone.                       *)
LEMMA DeleteIInv ==
    ASSUME IInv, Delete
    PROVE  IInv'
<1>1. /\ Free /\ life' = "deleted" /\ todo' = DeleteSteps(disk) /\ TypeOK /\ disk \in Disk
      /\ UNCHANGED <<disk, pc, doing, held, torn, excused, glued, crashes>>
  BY DiskTyped DEF Delete, IInv, rewriteVars
<1>2. /\ Through(todo', {<< <<>>, <<>> >>}) /\ Len(todo') = 3
      /\ Last(todo').meta = NoMeta /\ Last(todo').row = NoRow
  BY <1>1, DeleteStepsThrough
<1>3. Committed' = Committed
  BY <1>1 DEF Committed
<1>4. TypeOK'
  <2>1. todo' \in Seq(Disk)
    BY <1>2 DEF Through
  <2> QED BY <1>1, <2>1 DEF TypeOK
<1>5. LifeInv'
  <2>1. Settled' = Last(todo')
    BY <1>2 DEF Through, Settled, Free
  <2>2. \A i \in 1..Len(todo') : todo'[i].file = <<>>
    BY <1>2 DEF Through, View
  <2> QED BY <1>1, <1>2, <2>1, <2>2 DEF LifeInv
<1>6. \A r \in Rewriters : Rehold(r)
  BY <1>1 DEF Rehold
<1>7. \A v \in {<< <<>>, <<>> >>} : Listed(v[1], Committed', Turns \ glued')
  BY EmptyListed
<1>8. \A t \in Turns \ (excused' \cup glued') :
          /\ pc'[t] = "done" => pc[t] = "done" /\ \A v \in {<< <<>>, <<>> >>} : v[1] = <<>> \/ Both(t, v[2])
          /\ pc'[t] \in {"storing", "done"} =>
                 /\ life' = "live" => Both(t, Lasting(Last(todo')))
                 /\ \A r \in Rewriters : doing'[r] # "idle" => Both(t, held'[r])
  BY <1>1 DEF IInv, KeptInv
<1> QED BY <1>1, <1>2, <1>3, <1>4, <1>5, <1>6, <1>7, <1>8, HandlerIInv

(* A cut takes nothing of what the file already lasted to say.             *)
LEMMA CutKeeps ==
    ASSUME IInv, CutShort
    PROVE  /\ disk' \in Disk /\ todo # <<>>
           /\ \A C, ts : (\A d \in Disks : Listed(d.file, C, ts)) => Listed(disk'.file, C, ts)
           /\ Parts(disk.file) \subseteq Parts(Lasting(disk'))
<1> DEFINE new == Head(todo).file
           old == disk.file
<1>1. /\ todo # <<>> /\ disk \in Disk /\ old \in Seq(Message) /\ todo \in Seq(Disk)
      /\ IsPrefix(old, new)
  BY DiskTyped DEF IInv, TypeOK, CutShort
<1>2. PICK k \in Len(old)..Len(new), c \in {"no", "line", "part"} :
          /\ IF c = "part" THEN k < Len(new) ELSE k > Len(old)
          /\ disk' = [disk EXCEPT !.file = SubSeq(new, 1, k), !.cut = c]
  BY DEF CutShort
<1>3. Head(todo) \in Disks /\ new \in Seq(Message) /\ Len(new) \in Nat /\ Len(old) \in Nat
  <2>1. Len(todo) \in Nat /\ Len(todo) # 0 /\ Head(todo) = todo[1]
    BY <1>1, LenProperties, EmptySeq
  <2>2. 1 \in 1..Len(todo)
    BY <2>1
  <2>3. Head(todo) \in Disks /\ Head(todo) \in Disk
    BY <2>1, <2>2, DiskTyped DEF Disks, IInv
  <2> QED BY <1>1, <2>3, LenProperties DEF Disk
<1> DEFINE put == SubSeq(new, 1, k)
<1>4. k \in Nat /\ k \in 0..Len(new) /\ Len(old) <= k
  BY <1>2, <1>3
<1> HIDE DEF new
<1>5. /\ put \in Seq(Message) /\ Len(put) = k /\ \A i \in 1..k : put[i] = new[i]
      /\ \A C, ts : Listed(new, C, ts) => Listed(put, C, ts)
  BY <1>3, <1>4, PrefixLists
<1>6. Len(old) <= Len(new) /\ \A i \in 1..Len(old) : old[i] = new[i]
  <2>1. Len(old) <= Len(new) /\ SubSeq(old, 1, Len(old)) = SubSeq(new, 1, Len(old))
    BY <1>1 DEF IsPrefix
  <2>2. Len(old) \in 0..Len(old) /\ Len(old) \in 0..Len(new)
    BY <1>3, <2>1
  <2>3. \A i \in 1..Len(old) : SubSeq(old, 1, Len(old))[i] = old[i]
    BY <1>1, <2>2, PrefixLists
  <2>4. \A i \in 1..Len(old) : SubSeq(new, 1, Len(old))[i] = new[i]
    BY <1>3, <2>2, PrefixLists
  <2> QED BY <2>1, <2>3, <2>4
<1> HIDE DEF put
<1>7. disk' = [disk EXCEPT !.file = put, !.cut = c]
  BY <1>2 DEF put
<1>8. disk' \in Disk /\ disk'.file = put /\ disk'.cut = c
  BY <1>1, <1>2, <1>5, <1>7 DEF Disk
<1>9. PICK n \in Nat : Len(old) <= n /\ n <= k /\ Lasting(disk') = SubSeq(put, 1, n)
  <2>1. CASE c = "line"
    <3>1. k - 1 \in Nat /\ Len(old) <= k - 1 /\ k - 1 <= k /\ Lasting(disk') = SubSeq(put, 1, k - 1)
      BY <1>2, <1>3, <1>4, <1>5, <1>8, <2>1 DEF Lasting, new
    <3> QED BY <3>1
  <2>2. CASE c # "line"
    <3>1. Lasting(disk') = put
      BY <1>8, <2>2 DEF Lasting
    <3>2. k \in 0..Len(put)
      BY <1>4, <1>5
    <3>3. /\ SubSeq(put, 1, k) \in Seq(Message) /\ Len(SubSeq(put, 1, k)) = k
          /\ \A i \in 1..k : SubSeq(put, 1, k)[i] = put[i]
      BY <1>5, <3>2, PrefixLists
    <3>4. SubSeq(put, 1, k) = put
      BY <1>5, <3>3, SeqEqual
    <3> QED BY <1>4, <3>1, <3>4
  <2> QED BY <2>1, <2>2
<1>10. Parts(old) \subseteq Parts(Lasting(disk'))
  <2> DEFINE lasting == SubSeq(put, 1, n)
  <2>1. n \in 0..Len(put) /\ \A i \in 1..Len(old) : i \in 1..n /\ i \in 1..k
    BY <1>3, <1>4, <1>5, <1>9
  <2>2. lasting \in Seq(Message) /\ Len(lasting) = n /\ \A i \in 1..n : lasting[i] = put[i]
    BY <1>5, <2>1, PrefixLists
  <2> HIDE DEF lasting
  <2>3. \A i \in 1..Len(old) : lasting[i] = old[i]
    BY <1>5, <1>6, <2>1, <2>2
  <2>4. \A p : p \in Parts(lasting) <=> \E i \in 1..n : p \in lasting[i].of
    BY <2>2, PartsSaid
  <2>5. \A p : p \in Parts(old) <=> \E i \in 1..Len(old) : p \in old[i].of
    BY <1>1, PartsSaid
  <2>6. Parts(old) \subseteq Parts(lasting)
    BY <2>1, <2>3, <2>4, <2>5
  <2> QED BY <1>9, <2>6 DEF lasting
<1>11. ASSUME NEW C, NEW ts, \A d \in Disks : Listed(d.file, C, ts) PROVE Listed(disk'.file, C, ts)
  BY <1>3, <1>5, <1>8, <1>11 DEF new
<1> QED BY <1>1, <1>8, <1>10, <1>11 DEF old

(* The process dies.                                                       *)
LEMMA CrashIInv ==
    ASSUME IInv, Crash
    PROVE  IInv'
<1>1. /\ TypeOK /\ crashes < MaxCrashes /\ crashes' = crashes + 1 /\ todo' = <<>>
      /\ life' = (IF todo # <<>> /\ life = "deleted" THEN "live" ELSE life)
      /\ doing' = [r \in Rewriters |-> "idle"] /\ held' = [r \in Rewriters |-> <<>>]
      /\ torn' = (torn \/ todo # <<>>)
      /\ excused' = excused \cup {t \in Turns : todo # <<>> /\ disk.file = <<>> /\ pc[t] = "done"}
      /\ UNCHANGED glued /\ (CutShort \/ UNCHANGED disk)
  BY DEF Crash, IInv
<1>2. pc' = [t \in Turns |-> IF pc[t] \in Open THEN "lost" ELSE IF pc[t] = "storing" THEN "torn" ELSE pc[t]]
  BY DEF Crash
<1>3. \A t \in Turns : /\ pc'[t] \in {"storing", "done"} => pc[t] = "done" /\ pc'[t] = "done"
                       /\ pc[t] \in {"storing", "done", "torn"} <=> pc'[t] \in {"storing", "done", "torn"}
                       /\ pc[t] = "idle" => pc'[t] = "idle"
  BY <1>2 DEF Open
<1>4. Committed' = Committed
  BY <1>3 DEF Committed
<1>5. Len(todo') = 0 /\ Settled' = disk' /\ Disks' = {disk'} /\ disk \in Disks /\ disk \in Disk
  BY <1>1 DEF Settled, Free, Disks, TypeOK
<1>6. disk' \in Disk /\ (todo = <<>> => disk' = disk)
  BY <1>1, <1>5, CutKeeps
<1>7. TypeOK'
  <2>1. pc' \in [Turns -> Open \cup {"idle", "storing", "done", "failed", "dropped", "lost", "torn"}]
    BY <1>1, <1>2 DEF TypeOK
  <2>2. crashes' \in 0..MaxCrashes
    BY <1>1, SessionAssumption DEF TypeOK
  <2>3. todo' \in Seq(Disk) /\ held' \in [Rewriters -> Seq(Message)]
    BY <1>1, EmptySeq
  <2>4. torn' \in BOOLEAN /\ excused' \in SUBSET Turns /\ glued' \in SUBSET Turns
    BY <1>1 DEF TypeOK
  <2>5. life' \in {"unborn", "live", "deleted"} /\ doing' \in [Rewriters -> {"idle", "compacting", "editing"}]
    BY <1>1 DEF TypeOK
  <2> QED BY <1>6, <2>1, <2>2, <2>3, <2>4, <2>5 DEF TypeOK
<1>8. FilesInv'
  <2>1. \A d \in Disks : Listed(d.file, Committed', Turns \ glued')
    BY <1>1, <1>4 DEF IInv, FilesInv
  <2>2. Listed(disk'.file, Committed', Turns \ glued')
    BY <1>1, <1>5, <2>1, CutKeeps
  <2>3. \A r \in Rewriters : Listed(held'[r], Committed', Turns \ glued')
    BY <1>1, EmptyListed
  <2> QED BY <1>5, <2>2, <2>3 DEF FilesInv
<1>9. KeptInv'
  <2> SUFFICES ASSUME NEW t \in Turns \ (excused' \cup glued'), pc'[t] \in {"storing", "done"}
               PROVE  /\ disk'.file = <<>> \/ Both(t, Lasting(disk'))
                      /\ life' = "live" => Both(t, Lasting(disk'))
                      /\ \A r \in Rewriters : doing'[r] = "idle"
    BY <1>5 DEF KeptInv
  <2>1. pc[t] = "done" /\ ~(todo # <<>> /\ disk.file = <<>>) /\ t \in Turns \ (excused \cup glued)
    BY <1>1, <1>3
  <2>2. disk.file = <<>> \/ Both(t, Lasting(disk))
    BY <1>5, <2>1 DEF IInv, KeptInv
  <2>3. CASE todo = <<>>
    <3>1. disk' = disk /\ Settled = disk /\ life' = life
      BY <1>1, <1>6, <2>3 DEF Settled, Free
    <3>2. life = "live" => Both(t, Lasting(disk))
      BY <2>1, <3>1 DEF IInv, KeptInv
    <3> QED BY <1>1, <2>2, <3>1, <3>2
  <2>4. CASE todo # <<>>
    <3>1. Both(t, Lasting(disk))
      BY <2>1, <2>2, <2>4
    <3>2. Both(t, Lasting(disk'))
      <4>1. CASE CutShort
        <5>1. Parts(Lasting(disk)) \subseteq Parts(disk.file)
          BY <1>5, LastingLists
        <5>2. Parts(disk.file) \subseteq Parts(Lasting(disk'))
          BY <4>1, CutKeeps
        <5> QED BY <3>1, <5>1, <5>2 DEF Both
      <4>2. CASE UNCHANGED disk
        BY <3>1, <4>2
      <4> QED BY <1>1, <4>1, <4>2
    <3> QED BY <1>1, <3>2
  <2> QED BY <2>3, <2>4
<1>10. LifeInv'
  <2>1. ASSUME life' = "unborn"
        PROVE  /\ disk' = NoDisk
               /\ Free' /\ \A t \in Turns : pc'[t] = "idle"
    <3>1. life = "unborn"
      BY <1>1, <2>1
    <3> QED BY <1>1, <1>3, <1>6, <3>1 DEF IInv, LifeInv, Free
  <2>2. ASSUME life' = "live" /\ ~torn' PROVE Counted(Settled)' /\ Settled'.cut = "no"
    <3>1. life = "live" /\ ~torn /\ todo = <<>>
      BY <1>1, <2>2
    <3>2. Counted(disk) /\ disk.cut = "no"
      BY <3>1 DEF IInv, LifeInv, Settled, Free
    <3> QED BY <1>5, <1>6, <3>1, <3>2 DEF Counted
  <2>3. ASSUME life' = "deleted"
        PROVE  Settled'.meta = NoMeta /\ Settled'.row = NoRow /\ disk'.file = <<>>
    <3>1. life = "deleted" /\ todo = <<>>
      BY <1>1, <2>3
    <3>2. Len(todo) < 3 /\ Settled = disk
      BY <3>1 DEF Settled, Free
    <3> QED BY <1>1, <1>5, <1>6, <3>1, <3>2 DEF IInv, LifeInv
  <2> QED BY <1>5, <2>1, <2>2, <2>3 DEF LifeInv
<1> QED BY <1>7, <1>8, <1>9, <1>10 DEF IInv

(* Nothing is said yet.                                                    *)
LEMMA InitIInv ==
    ASSUME Init
    PROVE  IInv
<1>1. /\ disk = NoDisk /\ todo = <<>> /\ life = "unborn"
      /\ pc = [t \in Turns |-> "idle"] /\ held = [r \in Rewriters |-> <<>>]
  BY DEF Init
<1>2. <<>> \in Seq(Message) /\ <<>> \in Seq(Disk) /\ Len(todo) = 0
  BY <1>1, EmptySeq
<1>3. NoMeta \in Meta
  BY DEF NoMeta, Meta
<1>4. disk \in Disk
  BY <1>1, <1>2, <1>3 DEF Disk, NoDisk
<1>5. TypeOK
  <2>1. todo \in Seq(Disk) /\ life \in {"unborn", "live", "deleted"} /\ held \in [Rewriters -> Seq(Message)]
    BY <1>1, <1>2
  <2>2. pc \in [Turns -> Open \cup {"idle", "storing", "done", "failed", "dropped", "lost", "torn"}]
    BY <1>1
  <2>3. doing \in [Rewriters -> {"idle", "compacting", "editing"}]
    BY DEF Init
  <2>4. torn = FALSE /\ excused = {} /\ glued = {} /\ crashes = 0
    BY DEF Init
  <2>5. torn \in BOOLEAN
    BY <2>4
  <2>6. excused \in SUBSET Turns /\ glued \in SUBSET Turns /\ crashes \in 0..MaxCrashes
    BY <2>4, SessionAssumption
  <2> QED BY <1>4, <2>1, <2>2, <2>3, <2>5, <2>6 DEF TypeOK
<1>6. FilesInv
  <2>1. Disks = {disk} /\ disk.file = <<>>
    BY <1>1, <1>2 DEF Disks, NoDisk
  <2> QED BY <1>1, <2>1, EmptyListed DEF FilesInv
<1>7. KeptInv
  BY <1>1 DEF KeptInv
<1>8. LifeInv
  BY <1>1 DEF LifeInv, Free
<1> QED BY <1>5, <1>6, <1>7, <1>8 DEF IInv

(* So every step preserves IInv.                                           *)
LEMMA NextIInv ==
    ASSUME IInv, [Next]_vars
    PROVE  IInv'
<1>1. CASE Create \/ Write \/ Retitle \/ Delete \/ Crash
  BY <1>1, CreateIInv, WriteIInv, RetitleIInv, DeleteIInv, CrashIInv
<1>2. ASSUME NEW t \in Turns, Request(t) PROVE IInv'
  BY <1>2, StepIInv
<1>3. ASSUME NEW r \in Rewriters, Compact(r) \/ Fetch(r) \/ Rewrite(r) PROVE IInv'
  BY <1>3, TakeIInv, SummarisedIInv, PutBackIInv DEF Rewrite
<1>4. CASE UNCHANGED vars
  <2>1. UNCHANGED <<disk, todo, life, pc, doing, held, torn, excused, glued, crashes>>
    BY <1>4 DEF vars, rewriteVars
  <2>2. TypeOK' /\ \A r \in Rewriters : Rehold(r)
    BY <2>1 DEF IInv, TypeOK, Rehold
  <2>3. \A t \in Turns : life = "unborn" => pc'[t] = "idle"
    BY <2>1 DEF IInv, LifeInv
  <2> QED BY <2>1, <2>2, <2>3, QuietIInv
<1> QED BY <1>1, <1>2, <1>3, <1>4 DEF Next

-----------------------------------------------------------------------------
(* However requests, compactions, edits, deletes and crashes interleave,   *)
(* IInv holds: every file is a list of committed turns, each said once,    *)
(* and an acknowledged turn is in all of them.                             *)
THEOREM SessionInvariant == Spec => []IInv
<1>1. Init => IInv
  BY InitIInv
<1>2. IInv /\ [Next]_vars => IInv'
  BY NextIInv
<1> QED BY <1>1, <1>2, PTL DEF Spec

(* The meta file and the row count the lines of the file, unless a crash   *)
(* fell into a handler and no save came after it (manager.py:82-152).      *)
THEOREM SessionCountsAgree == Spec => []CountsAgree
<1>1. IInv => CountsAgree
  BY DEF IInv, LifeInv, CountsAgree, Counted, Settled
<1> QED BY <1>1, SessionInvariant, PTL

(* No answer without its question in front of it, or a summary, unless the *)
(* question went on in a line that a crash had cut (query.py:171-181).     *)
THEOREM SessionAnswerFollowsQuestion == Spec => []AnswerFollowsQuestion
<1>1. IInv => AnswerFollowsQuestion
  BY DEF IInv, FilesInv, Disks, Listed, AnswerFollowsQuestion
<1> QED BY <1>1, SessionInvariant, PTL

(* Nothing is said twice, not in a summary either (compaction.py:58-88).   *)
THEOREM SessionSaidOnce == Spec => []SaidOnce
<1>1. IInv => SaidOnce
  BY DEF IInv, FilesInv, Disks, Listed, SaidOnce
<1> QED BY <1>1, SessionInvariant, PTL

(* An acknowledged turn is lost only to a rewrite that was under way when  *)
(* it was stored, to a crash inside one, or to the line that a crash left  *)
(* cut (sessions.py:84-103).                                               *)
THEOREM SessionLostOnlyByRewrite == Spec => []LostOnlyByRewrite
<1>1. IInv => LostOnlyByRewrite
  <2> SUFFICES ASSUME IInv, Free, life = "live", NEW t \in Turns \ (excused \cup glued), pc[t] = "done"
               PROVE  Both(t, disk.file)
    BY DEF LostOnlyByRewrite, Stored
  <2>1. Both(t, Lasting(disk))
    BY DEF IInv, KeptInv, Settled
  <2> QED BY <2>1, DiskTyped, LastingLists DEF Both, IInv
<1> QED BY <1>1, SessionInvariant, PTL

(* A session whose delete was answered stays deleted (manager.py:98, 132). *)
THEOREM SessionDeletedStaysDeleted == Spec => []DeletedStaysDeleted
<1>1. IInv => DeletedStaysDeleted
  BY FreeDisk DEF IInv, LifeInv, DeletedStaysDeleted, NoMeta
<1> QED BY <1>1, SessionInvariant, PTL

-----------------------------------------------------------------------------
(* The session implements Conversation.                                    *)
SessionState == IF Free \/ life # "deleted" THEN life ELSE "live"
Phases == [t \in Turns |-> Phase(t)]
Heard == {t \in Turns : Stored(t)}

AbstractStep == Abstract!Next \/ UNCHANGED <<SessionState, Phases, Heard>>

PhaseNames == {"idle", "open", "written", "over"}

(* The phases are those of the abstract conversation; committed turns are  *)
(* the written ones.                                                       *)
LEMMA PhasesTyped ==
    ASSUME TypeOK
    PROVE  /\ Phases \in [Turns -> PhaseNames]
           /\ \A t \in Turns : Phases[t] = "written" <=> t \in Committed
BY DEF TypeOK, Phases, Phase, PhaseNames, Open, Committed

(* What is on the disk was said by committed turns.                        *)
LEMMA HeardStaysWritten ==
    ASSUME IInv, IInv', Committed' = Committed
    PROVE  Heard' \subseteq Abstract!Written
<1>1. ASSUME NEW t \in Turns, Stored(t)' PROVE t \in Committed'
  <2>1. <<t, "user">> \in Parts(disk'.file) /\ Listed(disk'.file, Committed', Turns \ glued')
    BY <1>1 DEF Stored, Both, IInv, FilesInv, Disks
  <2> QED BY <2>1 DEF Listed
<1>2. \A t \in Committed : Phases[t] = "written"
  BY PhasesTyped DEF IInv, Committed
<1>3. Abstract!Written = {t \in Turns : Phases[t] = "written"}
  BY DEF Abstract!Written, Phases
<1> QED BY <1>1, <1>2, <1>3 DEF Heard

(* An empty file says nothing.                                             *)
LEMMA NothingHeard ==
    ASSUME disk.file = <<>>
    PROVE  Heard = {}
BY EmptyLists DEF Heard, Stored, Both

(* A write changes what is heard, and the last one of a delete ends the    *)
(* session.                                                                *)
LEMMA WriteImplements ==
    ASSUME IInv, IInv', Write
    PROVE  AbstractStep
<1>1. /\ todo \in Seq(Disk) /\ todo # <<>> /\ disk' = Head(todo) /\ todo' = Tail(todo)
      /\ UNCHANGED <<life, pc>> /\ ~Free
  BY DEF IInv, TypeOK, Write, Free
<1>2. Phases' = Phases
  BY <1>1 DEF Phases, Phase
<1>3. life \in {"live", "deleted"} /\ SessionState = "live"
  BY <1>1 DEF IInv, TypeOK, LifeInv, SessionState
<1>4. CASE life = "deleted" /\ todo' = <<>>
  <2>1. Len(todo) = 1
    <3>1. Len(todo) \in Nat /\ Len(todo) # 0 /\ Len(todo') = Len(todo) - 1
      BY <1>1, LenProperties, EmptySeq, HeadTailProperties
    <3>2. Len(todo') = 0
      BY <1>4 DEF Free
    <3> QED BY <3>1, <3>2
  <2>2. disk.file = <<>> /\ disk'.file = <<>>
    BY <1>1, <1>4, <2>1 DEF IInv, LifeInv
  <2>3. Heard = {} /\ Heard' = {}
    <3>1. Heard' = {}
      BY <2>2, EmptyLists DEF Heard, Stored, Both
    <3> QED BY <2>2, <3>1, NothingHeard
  <2>4. SessionState' = "deleted"
    BY <1>1, <1>4 DEF SessionState, Free
  <2>5. Abstract!Delete
    BY <1>2, <1>3, <2>3, <2>4 DEF Abstract!Delete, SessionState, Phases, Heard
  <2> QED BY <2>5 DEF AbstractStep, Abstract!Next
<1>5. CASE life # "deleted" \/ todo' # <<>>
  <2>1. SessionState' = "live"
    BY <1>1, <1>3, <1>5 DEF SessionState, Free
  <2>2. Heard' \in SUBSET Abstract!Written
    <3>1. Committed' = Committed
      BY <1>1 DEF Committed
    <3> QED BY <3>1, HeardStaysWritten
  <2>3. Abstract!Rewrite
    BY <1>2, <1>3, <2>1, <2>2 DEF Abstract!Rewrite, SessionState, Phases, Heard
  <2> QED BY <2>3 DEF AbstractStep, Abstract!Next
<1> QED BY <1>4, <1>5

(* A request is accepted, comes to store its turn, or ends.                *)
LEMMA PhaseMoves ==
    ASSUME TypeOK, NEW t \in Turns, \A u \in Turns \ {t} : pc'[u] = pc[u]
    PROVE  Phases' = [Phases EXCEPT ![t] = Phase(t)']
<1>1. \A u \in Turns \ {t} : Phase(u)' = Phase(u)
  BY DEF Phase
<1>2. Phases' = [u \in Turns |-> Phase(u)'] /\ Phases = [u \in Turns |-> Phase(u)]
  BY DEF Phases
<1> QED BY <1>1, <1>2

(* Requests that end without a commit.                                     *)
LEMMA CrashedImplements ==
    ASSUME TypeOK, SessionState = "live", UNCHANGED SessionState, Heard' \subseteq Abstract!Written,
           Phases' \in [Turns -> PhaseNames],
           \A t \in Turns : Phases'[t] # Phases[t] => Phases[t] \in {"idle", "open"} /\ Phases'[t] = "over"
    PROVE  AbstractStep
<1>1. Abstract!Crash
  BY DEF Abstract!Crash, Abstract!Ended, SessionState, Heard, Phases, PhaseNames
<1> QED BY <1>1 DEF AbstractStep, Abstract!Next

LEMMA CloseImplements ==
    ASSUME TypeOK, UNCHANGED <<SessionState, Heard>>, Phases' \in [Turns -> PhaseNames],
           \A t \in Turns : Phases'[t] # Phases[t] => Phases[t] \in {"idle", "open"} /\ Phases'[t] = "over"
    PROVE  AbstractStep
<1>1. Abstract!Close
  BY DEF Abstract!Close, Abstract!Ended, SessionState, Heard, Phases, PhaseNames
<1> QED BY <1>1 DEF AbstractStep, Abstract!Next

(* One request ends without a commit.                                      *)
LEMMA EndImplements ==
    ASSUME TypeOK, NEW t \in Turns, UNCHANGED <<SessionState, Heard>>,
           pc[t] \in {"idle"} \cup Open, NEW to \in {"failed", "dropped"}, pc' = [pc EXCEPT ![t] = to]
    PROVE  AbstractStep
<1>1. pc'[t] = to /\ \A u \in Turns \ {t} : pc'[u] = pc[u]
  BY DEF TypeOK
<1>2. Phases' = [Phases EXCEPT ![t] = "over"]
  <2>1. Phase(t)' = "over"
    BY <1>1 DEF Phase, Open
  <2> QED BY <1>1, <2>1, PhaseMoves
<1>3. Phases[t] \in {"idle", "open"}
  BY DEF Phases, Phase, Open
<1>4. Phases \in [Turns -> PhaseNames] /\ "over" \in PhaseNames
  BY PhasesTyped DEF PhaseNames
<1> QED BY <1>2, <1>3, <1>4, CloseImplements

(* A turn is committed.                                                    *)
LEMMA PersistImplements ==
    ASSUME IInv, Free, NEW t \in Turns, pc[t] \in Open, Persist(t), UNCHANGED <<disk, life>>
    PROVE  AbstractStep
<1>1. TypeOK /\ Heard' = Heard
  BY DEF IInv, Heard, Stored
<1>2. CASE ~Readable
  <2>1. pc' = [pc EXCEPT ![t] = "failed"] /\ todo' = todo
    BY <1>2 DEF Persist
  <2>2. UNCHANGED SessionState
    BY <2>1 DEF SessionState, Free
  <2> QED BY <1>1, <2>1, <2>2, EndImplements
<1>3. CASE Readable
  <2>1. pc' = [pc EXCEPT ![t] = "storing"] /\ life = "live"
    BY <1>3, ReadableIsLive DEF Persist
  <2>2. pc'[t] = "storing" /\ \A u \in Turns \ {t} : pc'[u] = pc[u]
    BY <1>1, <2>1 DEF TypeOK
  <2>3. Phases' = [Phases EXCEPT ![t] = "written"]
    <3>1. Phase(t)' = "written"
      BY <2>2 DEF Phase, Open
    <3> QED BY <1>1, <2>2, <3>1, PhaseMoves
  <2>4. Phases[t] = "open" /\ SessionState = "live" /\ SessionState' = "live"
    BY <2>1 DEF Phases, Phase, Open, SessionState
  <2>5. Abstract!Commit(t)
    BY <1>1, <2>3, <2>4 DEF Abstract!Commit, SessionState, Phases, Heard
  <2> QED BY <2>5 DEF AbstractStep, Abstract!Next
<1> QED BY <1>2, <1>3

(* A question arrives: its session is created, or it is open, or it ends   *)
(* at once.                                                                *)
LEMMA AskImplements ==
    ASSUME IInv, NEW t \in Turns, Ask(t)
    PROVE  AbstractStep
<1>1. TypeOK /\ Heard' = Heard /\ Free /\ pc[t] = "idle" /\ UNCHANGED disk
  BY DEF IInv, Heard, Stored, Ask
<1>2. SessionState = life
  BY <1>1 DEF SessionState
<1>3. CASE life = "unborn" \/ Readable
  <2>1. pc' = [pc EXCEPT ![t] = "answering"]
    BY <1>3 DEF Ask
  <2>2. pc'[t] = "answering" /\ \A u \in Turns \ {t} : pc'[u] = pc[u]
    BY <1>1, <2>1 DEF TypeOK
  <2>3. Phases' = [Phases EXCEPT ![t] = "open"] /\ Phases[t] = "idle"
    <3>1. Phase(t)' = "open" /\ Phase(t) = "idle"
      BY <1>1, <2>2 DEF Phase, Open
    <3> QED BY <1>1, <2>2, <3>1, PhaseMoves DEF Phases
  <2>4. life \in {"unborn", "live"} /\ life' = "live"
    BY <1>1, <1>3, ReadableIsLive DEF Ask
  <2>5. SessionState # "deleted" /\ SessionState' = "live"
    BY <1>2, <2>4 DEF SessionState
  <2>6. Abstract!Open(t)
    BY <1>1, <2>3, <2>5 DEF Abstract!Open, SessionState, Phases, Heard
  <2> QED BY <2>6 DEF AbstractStep, Abstract!Next
<1>4. CASE ~(life = "unborn" \/ Readable)
  <2>1. pc' = [pc EXCEPT ![t] = "failed"] /\ UNCHANGED <<life, todo>>
    BY <1>4 DEF Ask
  <2>2. UNCHANGED SessionState
    BY <2>1 DEF SessionState, Free
  <2> QED BY <1>1, <2>1, <2>2, EndImplements
<1> QED BY <1>3, <1>4

(* So every step of a request is one of the abstract conversation, or      *)
(* none.                                                                   *)
LEMMA RequestImplements ==
    ASSUME IInv, NEW t \in Turns, Request(t)
    PROVE  AbstractStep
<1>1. CASE Ask(t)
  BY <1>1, AskImplements
<1>2. CASE Answered(t) \/ Cited(t)
  <2>1. Free /\ pc[t] \in Open /\ Persist(t) /\ UNCHANGED <<disk, life>>
    BY <1>2 DEF Answered, Cited, Open
  <2> QED BY <2>1, PersistImplements
<1>3. CASE Raise(t) \/ Close(t)
  <2>1. PICK to \in {"failed", "dropped"} : pc' = [pc EXCEPT ![t] = to]
    BY <1>3 DEF Raise, Close
  <2>2. pc[t] \in {"idle"} \cup Open /\ UNCHANGED <<disk, todo, life>>
    BY <1>3 DEF Raise, Close, Open
  <2>3. UNCHANGED <<SessionState, Heard>>
    BY <2>2 DEF SessionState, Free, Heard, Stored
  <2> QED BY <2>1, <2>2, <2>3, EndImplements DEF IInv
<1>4. CASE Streams(t) \/ Reply(t)
  <2>1. PICK to \in {"citing", "done"} : /\ pc' = [pc EXCEPT ![t] = to]
                                         /\ to = "citing" => pc[t] = "answering"
                                         /\ to = "done" => pc[t] = "storing"
    BY <1>4 DEF Streams, Reply
  <2>2. UNCHANGED <<disk, todo, life>> /\ TypeOK
    BY <1>4 DEF Streams, Reply, IInv
  <2>3. pc'[t] = to /\ \A u \in Turns \ {t} : pc'[u] = pc[u]
    BY <2>1, <2>2 DEF TypeOK
  <2>4. \A u \in Turns : Phase(u)' = Phase(u)
    BY <2>1, <2>3 DEF Phase, Open
  <2> QED BY <2>2, <2>4 DEF AbstractStep, SessionState, Free, Phases, Heard, Stored
<1> QED BY <1>1, <1>2, <1>3, <1>4 DEF Request

(* Of the rest, the abstract conversation sees the creation, and what a    *)
(* crash ends.                                                             *)
LEMMA CreateImplements ==
    ASSUME IInv, Create
    PROVE  AbstractStep
<1>1. /\ life = "unborn" /\ life' = "live" /\ UNCHANGED <<disk, pc>>
      /\ Phases' = Phases /\ Heard' = Heard
  BY DEF Create, Phases, Phase, Heard, Stored
<1>2. SessionState = "unborn" /\ SessionState' = "live"
  BY <1>1 DEF SessionState
<1>3. Abstract!Create
  BY <1>1, <1>2 DEF Abstract!Create, SessionState, Phases, Heard
<1> QED BY <1>3 DEF AbstractStep, Abstract!Next

(* What neither the disk nor the requests show is a stutter.               *)
LEMMA UnseenImplements ==
    ASSUME UNCHANGED <<disk, pc>>, SessionState' = SessionState
    PROVE  AbstractStep
<1>1. UNCHANGED <<Phases, Heard>>
  BY DEF Phases, Phase, Heard, Stored
<1> QED BY <1>1 DEF AbstractStep

(* A delete that begins is not seen yet: its last write is.                *)
LEMMA DeleteImplements ==
    ASSUME Delete
    PROVE  AbstractStep
<1>1. /\ Free /\ life = "live" /\ life' = "deleted" /\ todo' = DeleteSteps(disk) /\ UNCHANGED <<disk, pc>>
  BY DEF Delete
<1>2. todo' # <<>>
  BY <1>1 DEF DeleteSteps
<1>3. SessionState' = SessionState
  BY <1>1, <1>2 DEF SessionState, Free
<1> QED BY <1>1, <1>3, UnseenImplements

(* What a rewriter loads or is about to save is not seen yet: the writes   *)
(* are.                                                                    *)
LEMMA RewriterImplements ==
    ASSUME IInv, NEW r \in Rewriters, Compact(r) \/ Fetch(r) \/ Rewrite(r)
    PROVE  AbstractStep
<1>1. CASE Compact(r) \/ Fetch(r) \/ SummaryFails(r)
  <2>1. UNCHANGED <<disk, todo, life, pc>>
    BY <1>1 DEF Compact, Fetch, SummaryFails
  <2> QED BY <2>1, UnseenImplements DEF SessionState, Free
<1>2. CASE Summarised(r) \/ PutBack(r)
  <2>1. PICK ms, after : Free /\ Save(ms, after) /\ UNCHANGED <<disk, life, pc>>
    BY <1>2 DEF Summarised, PutBack
  <2>2. CASE Readable
    <3>1. life = "live"
      BY <2>1, <2>2, ReadableIsLive
    <3> QED BY <2>1, <3>1, UnseenImplements DEF SessionState
  <2>3. CASE ~Readable
    <3>1. UNCHANGED todo
      BY <2>1, <2>3 DEF Save
    <3> QED BY <2>1, <3>1, UnseenImplements DEF SessionState, Free
  <2> QED BY <2>2, <2>3
<1> QED BY <1>1, <1>2 DEF Rewrite

(* A crash closes the requests and may cut what is being written.          *)
LEMMA CrashImplements ==
    ASSUME IInv, IInv', Crash
    PROVE  AbstractStep
<1>1. /\ TypeOK /\ (CutShort \/ UNCHANGED disk) /\ todo' = <<>>
      /\ life' = (IF todo # <<>> /\ life = "deleted" THEN "live" ELSE life)
      /\ pc' = [t \in Turns |-> IF pc[t] \in Open THEN "lost" ELSE IF pc[t] = "storing" THEN "torn" ELSE pc[t]]
  BY DEF Crash, IInv
<1>2. SessionState' = SessionState
  BY <1>1 DEF SessionState, Free
<1>3. todo = <<>> => Heard' = Heard
  BY <1>1, CutKeeps DEF Heard, Stored
<1>4. \A t \in Turns : pc'[t] = IF pc[t] \in Open THEN "lost" ELSE IF pc[t] = "storing" THEN "torn" ELSE pc[t]
  BY <1>1
<1>5. ASSUME NEW t \in Turns
      PROVE  /\ Phase(t)' \in PhaseNames
             /\ Phase(t)' # Phase(t) => Phase(t) \in {"idle", "open"} /\ Phase(t)' = "over"
  BY <1>4 DEF Phase, Open, PhaseNames
<1>6. /\ Phases' = [t \in Turns |-> Phase(t)'] /\ Phases = [t \in Turns |-> Phase(t)]
  BY DEF Phases
<1>7. Phases' \in [Turns -> PhaseNames]
  BY <1>5, <1>6
<1>8. \A t \in Turns : Phases'[t] # Phases[t] => Phases[t] \in {"idle", "open"} /\ Phases'[t] = "over"
  BY <1>5, <1>6
<1>9. CASE todo = <<>>
  BY <1>1, <1>2, <1>3, <1>7, <1>8, <1>9, CloseImplements
<1>10. CASE todo # <<>>
  <2>1. life \in {"live", "deleted"} /\ SessionState = "live"
    BY <1>1, <1>10 DEF IInv, TypeOK, LifeInv, SessionState, Free
  <2>2. Committed' = Committed
    BY <1>4 DEF Committed, Open
  <2>3. Heard' \subseteq Abstract!Written
    BY <2>2, HeardStaysWritten
  <2> QED BY <1>1, <1>2, <1>7, <1>8, <2>1, <2>3, CrashedImplements
<1> QED BY <1>9, <1>10

(* So every step is one of the abstract conversation, or changes nothing   *)
(* of it.                                                                  *)
LEMMA NextImplements ==
    ASSUME IInv, IInv', [Next]_vars
    PROVE  AbstractStep
<1>1. CASE Create \/ Write \/ Delete \/ Crash
  BY <1>1, CreateImplements, WriteImplements, DeleteImplements, CrashImplements
<1>2. CASE Retitle
  <2>1. life = "live" /\ UNCHANGED <<disk, pc, life>>
    BY <1>2, ReadableIsLive DEF Retitle
  <2> QED BY <2>1, UnseenImplements DEF SessionState
<1>3. ASSUME NEW t \in Turns, Request(t) PROVE AbstractStep
  BY <1>3, RequestImplements
<1>4. ASSUME NEW r \in Rewriters, Compact(r) \/ Fetch(r) \/ Rewrite(r) PROVE AbstractStep
  BY <1>4, RewriterImplements
<1>5. CASE UNCHANGED vars
  BY <1>5, UnseenImplements DEF vars, SessionState, Free
<1> QED BY <1>1, <1>2, <1>3, <1>4, <1>5 DEF Next

(* The files and the row implement the abstract conversation: a turn is    *)
(* heard only after its request came to store it, and in a deleted session *)
(* nothing is (manager.py:82-178, query.py:171-181).                       *)
THEOREM SessionImplements == Spec => Implements
<1>1. Init => Abstract!Init
  <2> SUFFICES ASSUME Init PROVE Abstract!Init
    OBVIOUS
  <2>1. /\ life = "unborn" /\ disk.file = <<>> /\ \A t \in Turns : pc[t] = "idle"
    BY DEF Init, NoDisk
  <2>2. SessionState = "unborn" /\ Heard = {} /\ Phases = [t \in Turns |-> "idle"]
    <3>1. Heard = {} /\ SessionState = "unborn"
      BY <2>1, NothingHeard DEF SessionState
    <3>2. \A t \in Turns : Phase(t) = "idle"
      BY <2>1 DEF Phase, Open
    <3> QED BY <3>1, <3>2 DEF Phases
  <2> QED BY <2>2 DEF Abstract!Init, SessionState, Heard, Phases
<1>2. IInv /\ IInv' /\ [Next]_vars => [Abstract!Next]_(Abstract!vars)
  BY NextImplements DEF AbstractStep, Abstract!vars, SessionState, Phases, Heard
<1> QED BY <1>1, <1>2, SessionInvariant, PTL DEF Spec, Implements, Abstract!Spec
=============================================================================
