-------------------------- MODULE ConversationProofs --------------------------
(* A ticket in the browser, for every length of its thread, size of a page and *)
(* set of writers: no message is shown twice, and none is missing without a    *)
(* reason, whatever the order in which loads and replies are answered.         *)
EXTENDS Conversation, FiniteSetTheorems, SequenceTheorems, TLAPS

-----------------------------------------------------------------------------
(* The order of a page.                                                    *)

Rank(ids, id) == Cardinality({other \in ids : other <= id})

LEMMA RankIsPlace ==
  ASSUME NEW ids \in SUBSET Nat, IsFiniteSet(ids), NEW id \in ids
  PROVE  /\ Rank(ids, id) \in 1..Cardinality(ids) /\ Cardinality(ids) \in Nat
         /\ IsFiniteSet({other \in ids : other <= id})
  <1> DEFINE lower == {other \in ids : other <= id}
  <1>1. lower \in SUBSET ids /\ id \in lower
    OBVIOUS
  <1>2. IsFiniteSet(lower) /\ Cardinality(lower) <= Cardinality(ids)
    BY <1>1, FS_Subset
  <1>3. Cardinality(lower) # 0
    BY <1>1, <1>2, FS_EmptySet
  <1>4. Cardinality(lower) \in Nat /\ Cardinality(ids) \in Nat
    BY <1>2, FS_CardinalityType
  <1>5. Rank(ids, id) = Cardinality(lower)
    BY DEF Rank
  <1> HIDE DEF lower
  <1> QED
    BY <1>2, <1>3, <1>4, <1>5 DEF lower

LEMMA RanksDiffer ==
  ASSUME NEW ids \in SUBSET Nat, IsFiniteSet(ids), NEW a \in ids, NEW b \in ids, a < b
  PROVE  Rank(ids, a) # Rank(ids, b)
  <1> DEFINE below == {other \in ids : other <= a}
             upTo == {other \in ids : other <= b}
  <1>1. a \in Nat /\ b \in Nat
    OBVIOUS
  <1>2. \A other \in ids : other \in Nat /\ (other <= a => other <= b)
    BY <1>1
  <1>3. below \in SUBSET upTo
    BY <1>2
  <1>4. b \in upTo /\ b \notin below
    BY <1>1
  <1>5. IsFiniteSet(upTo)
    BY RankIsPlace
  <1>6. Cardinality(upTo) = Cardinality(below) => upTo = below
    BY <1>3, <1>5, FS_Subset
  <1> QED
    BY <1>4, <1>6 DEF Rank

\* Every place is the rank of one element.
LEMMA PlacesAreRanks ==
  ASSUME NEW ids \in SUBSET Nat, IsFiniteSet(ids), NEW i \in 1..Cardinality(ids)
  PROVE  \E id \in ids : Rank(ids, id) = i
  <1> DEFINE n == Cardinality(ids)
             f == [id \in ids |-> Rank(ids, id)]
  <1>1. n \in Nat
    BY FS_CardinalityType
  <1>2. f \in [ids -> 1..n]
    BY RankIsPlace
  <1>3. ASSUME NEW a \in ids, NEW b \in ids, f[a] = f[b] PROVE a = b
    <2>1. a \in Nat /\ b \in Nat /\ Rank(ids, a) = Rank(ids, b)
      BY <1>3
    <2>2. ~(a < b) /\ ~(b < a)
      BY <2>1, RanksDiffer
    <2> QED
      BY <2>1, <2>2
  <1>4. f \in Injection(ids, 1..n)
    BY <1>2, <1>3 DEF Injection, IsInjective
  <1>5. IsFiniteSet(1..n) /\ Cardinality(1..n) = n
    BY <1>1, FS_Interval
  <1>6. f \in Surjection(ids, 1..n)
    BY <1>4, <1>5, FS_Injection
  <1>7. \E id \in ids : f[id] = i
    BY <1>6 DEF Surjection
  <1> QED
    BY <1>7

\* A set of messages in the order of the thread: each of them, once.
LEMMA OrderKeepsAll ==
  ASSUME NEW ids \in SUBSET Nat, IsFiniteSet(ids)
  PROVE  /\ InOrder(ids) \in Seq(ids) /\ Ids(InOrder(ids)) = ids
         /\ \A i, j \in DOMAIN InOrder(ids) : InOrder(ids)[i] = InOrder(ids)[j] => i = j
  <1> DEFINE n == Cardinality(ids)
             s == InOrder(ids)
  <1>1. n \in Nat
    BY FS_CardinalityType
  <1>2. \A i \in 1..n : s[i] \in ids /\ Rank(ids, s[i]) = i
    <2> SUFFICES ASSUME NEW i \in 1..n PROVE s[i] \in ids /\ Rank(ids, s[i]) = i
      OBVIOUS
    <2>1. s[i] = CHOOSE id \in ids : Rank(ids, id) = i
      BY DEF InOrder, Rank
    <2>2. \E id \in ids : Rank(ids, id) = i
      BY PlacesAreRanks
    <2> QED
      BY <2>1, <2>2
  <1>3. DOMAIN s = 1..n
    BY DEF InOrder
  <1>4. s \in [1..n -> ids]
    <2> DEFINE place(i) == CHOOSE id \in ids : Cardinality({other \in ids : other <= id}) = i
    <2>1. s = [i \in 1..n |-> place(i)]
      BY DEF InOrder
    <2> HIDE DEF place
    <2>2. \A i \in 1..n : s[i] = place(i)
      BY <2>1
    <2> QED
      BY <1>2, <2>1, <2>2
  <1> HIDE DEF s
  <1>5. s \in Seq(ids)
    BY <1>1, <1>4
  <1>6. \A id \in ids : \E i \in 1..n : s[i] = id
    <2> SUFFICES ASSUME NEW id \in ids PROVE \E i \in 1..n : s[i] = id
      OBVIOUS
    <2>1. Rank(ids, id) \in 1..n
      BY RankIsPlace
    <2>2. PICK i \in 1..n : i = Rank(ids, id)
      BY <2>1
    <2>3. s[i] \in ids /\ Rank(ids, s[i]) = Rank(ids, id)
      BY <1>2, <2>2
    <2>4. s[i] \in Nat /\ id \in Nat
      BY <2>3
    <2>5. ~(s[i] < id) /\ ~(id < s[i])
      BY <2>3, RanksDiffer
    <2> QED
      BY <2>4, <2>5
  <1>7. Ids(s) = ids
    BY <1>2, <1>3, <1>6 DEF Ids
  <1>8. \A i, j \in DOMAIN s : s[i] = s[j] => i = j
    BY <1>2, <1>3
  <1> QED
    BY <1>5, <1>7, <1>8 DEF s

-----------------------------------------------------------------------------
(* Sequences of messages.                                                  *)

Once(s) == \A i, j \in DOMAIN s : s[i] = s[j] => i = j

LEMMA IdsOfSeq ==
  ASSUME NEW S, NEW s \in Seq(S)
  PROVE  /\ Ids(s) \subseteq S /\ (s = << >> <=> Ids(s) = {}) /\ Ids(<< >>) = {}
         /\ s # << >> => s[1] \in Ids(s)
         /\ DOMAIN s = 1..Len(s) /\ Len(s) \in Nat
         /\ IsFiniteSet(Ids(s))
  <1>1. DOMAIN s = 1..Len(s) /\ Len(s) \in Nat /\ \A i \in 1..Len(s) : s[i] \in S
    OBVIOUS
  <1>2. s = << >> <=> Len(s) = 0
    OBVIOUS
  <1>3. Ids(s) \subseteq S
    BY <1>1 DEF Ids
  <1>4. s # << >> => 1 \in 1..Len(s)
    BY <1>1, <1>2
  <1>5. Ids(<< >>) = {}
    BY DEF Ids
  <1>6. s # << >> => s[1] \in Ids(s)
    BY <1>1, <1>4 DEF Ids
  <1>7. IsFiniteSet(Ids(s))
    <2> DEFINE f == [i \in 1..Len(s) |-> s[i]]
    <2>1. f \in Surjection(1..Len(s), Ids(s))
      BY <1>1 DEF Surjection, Ids
    <2>2. IsFiniteSet(1..Len(s))
      BY <1>1, FS_Interval
    <2> QED
      BY <2>1, <2>2, FS_Surjection
  <1> QED
    BY <1>1, <1>3, <1>5, <1>6, <1>7

\* Two sequences that share no message, one after the other.
LEMMA Joined ==
  ASSUME NEW S, NEW s \in Seq(S), NEW r \in Seq(S)
  PROVE  /\ s \o r \in Seq(S) /\ Ids(s \o r) = Ids(s) \cup Ids(r)
         /\ s # << >> => s \o r # << >> /\ (s \o r)[1] = s[1]
         /\ s = << >> => s \o r = r
         /\ r = << >> => s \o r = s
         /\ Once(s) /\ Once(r) /\ Ids(s) \cap Ids(r) = {} => Once(s \o r)
  <1> DEFINE m == Len(s)
             n == Len(r)
             u == s \o r
  <1>1. /\ m \in Nat /\ n \in Nat /\ DOMAIN s = 1..m /\ DOMAIN r = 1..n
        /\ \A i \in 1..m : s[i] \in S
        /\ \A i \in 1..n : r[i] \in S
    OBVIOUS
  <1>2. u \in Seq(S) /\ Len(u) = m + n /\ DOMAIN u = 1..(m + n)
    OBVIOUS
  <1>3. \A i \in 1..(m + n) : u[i] = IF i <= m THEN s[i] ELSE r[i - m]
    BY ConcatProperties
  <1> HIDE DEF m, n, u
  <1>4. Ids(u) = Ids(s) \cup Ids(r)
    <2>1. ASSUME NEW i \in 1..(m + n) PROVE u[i] \in Ids(s) \cup Ids(r)
      <3>1. CASE i <= m
        <4>1. i \in 1..m /\ u[i] = s[i]
          BY <1>1, <1>3, <3>1
        <4> QED
          BY <1>1, <4>1 DEF Ids
      <3>2. CASE ~(i <= m)
        <4>1. i - m \in 1..n /\ u[i] = r[i - m]
          BY <1>1, <1>3, <3>2
        <4> QED
          BY <1>1, <4>1 DEF Ids
      <3> QED
        BY <3>1, <3>2
    <2>2. ASSUME NEW i \in 1..m PROVE s[i] \in Ids(u)
      <3>1. i \in 1..(m + n) /\ u[i] = s[i]
        BY <1>1, <1>3
      <3> QED
        BY <1>2, <3>1 DEF Ids
    <2>3. ASSUME NEW i \in 1..n PROVE r[i] \in Ids(u)
      <3>1. m + i \in 1..(m + n) /\ ~(m + i <= m) /\ (m + i) - m = i
        BY <1>1
      <3>2. u[m + i] = r[i]
        BY <1>3, <3>1
      <3> QED
        BY <1>2, <3>1, <3>2 DEF Ids
    <2> QED
      BY <1>1, <1>2, <2>1, <2>2, <2>3 DEF Ids
  <1>5. s # << >> => u # << >> /\ u[1] = s[1]
    <2>1. s # << >> => 1 <= m
      BY <1>1 DEF m
    <2> QED
      BY <1>1, <1>2, <1>3, <2>1
  <1>6. (s = << >> => u = r) /\ (r = << >> => u = s)
    BY DEF u
  <1>7. ASSUME Once(s), Once(r), Ids(s) \cap Ids(r) = {} PROVE Once(u)
    <2> SUFFICES ASSUME NEW i \in 1..(m + n), NEW j \in 1..(m + n), u[i] = u[j] PROVE i = j
      BY <1>2 DEF Once
    <2>1. CASE i <= m /\ j <= m
      <3>1. i \in 1..m /\ j \in 1..m /\ s[i] = s[j]
        BY <1>1, <1>3, <2>1
      <3> QED
        BY <1>1, <1>7, <3>1 DEF Once
    <2>2. CASE ~(i <= m) /\ ~(j <= m)
      <3>1. i - m \in 1..n /\ j - m \in 1..n /\ r[i - m] = r[j - m]
        BY <1>1, <1>3, <2>2
      <3>2. i - m = j - m
        BY <1>1, <1>7, <3>1 DEF Once
      <3> QED
        BY <1>1, <3>2
    <2>3. CASE i <= m /\ ~(j <= m)
      <3>1. i \in 1..m /\ j - m \in 1..n /\ s[i] = r[j - m]
        BY <1>1, <1>3, <2>3
      <3> QED
        BY <1>1, <1>7, <3>1 DEF Ids
    <2>4. CASE ~(i <= m) /\ j <= m
      <3>1. j \in 1..m /\ i - m \in 1..n /\ s[j] = r[i - m]
        BY <1>1, <1>3, <2>4
      <3> QED
        BY <1>1, <1>7, <3>1 DEF Ids
    <2> QED
      BY <2>1, <2>2, <2>3, <2>4
  <1> QED
    BY <1>2, <1>4, <1>5, <1>6, <1>7 DEF u
\* What the server answers: messages without a gap, the ones after the cursor, or the
\* last ones of the thread.
LEMMA PageOfThread ==
  ASSUME NEW after \in Nat, NEW upTo \in Nat
  PROVE  LET page == Page(after, upTo)
         IN  /\ page \in Seq(1..upTo) /\ Once(page)
             /\ page # << >> =>
                  /\ Len(page) \in Nat /\ page[1] \in 1..upTo /\ page[Len(page)] \in 1..upTo
                  /\ Ids(page) = page[1]..page[Len(page)]
                  /\ after # 0 => page[1] = after + 1
                  /\ after = 0 => /\ page[Len(page)] = upTo
                                  /\ page[1] = 1 \/ page[1] + PageSize = upTo + 1
             /\ page = << >> /\ after = 0 => upTo = 0
  <1> DEFINE first == IF after # 0 THEN after + 1
                      ELSE IF upTo > PageSize THEN upTo - PageSize + 1 ELSE 1
             last == Lesser(first + PageSize - 1, upTo)
             n == IF last < first THEN 0 ELSE last - first + 1
             page == Page(after, upTo)
  <1>0. PageSize \in Nat /\ PageSize # 0
    BY BoundAssumption
  <1>1. /\ first \in Nat /\ first # 0
        /\ after # 0 => first = after + 1
        /\ after = 0 => first = 1 \/ first + PageSize = upTo + 1
        /\ after = 0 => first <= upTo + 1 /\ upTo <= first + PageSize - 1
    BY <1>0
  <1> HIDE DEF first
  <1>2. last \in Nat /\ last <= upTo /\ (after = 0 => last = upTo)
    BY <1>0, <1>1 DEF Lesser
  <1>3. page = [i \in 1..(last - first + 1) |-> first + i - 1]
    BY DEF Page, first
  <1> HIDE DEF last, page
  <1>4. /\ n \in Nat
        /\ \A i \in 1..n : first + i - 1 \in 1..upTo
        /\ after = 0 => n = upTo - first + 1
    BY <1>1, <1>2
  <1>5. 1..(last - first + 1) = 1..n
    BY <1>1, <1>2
  <1> HIDE DEF n
  <1>6. /\ page \in Seq(1..upTo) /\ Len(page) = n /\ DOMAIN page = 1..n
        /\ \A i \in 1..n : page[i] = first + i - 1
    <2>1. page = [i \in 1..n |-> first + i - 1]
      BY <1>5, <1>3
    <2> QED
      BY <1>4, <2>1
  <1>7. Once(page)
    BY <1>1, <1>4, <1>6 DEF Once
  <1>8. page = << >> <=> n = 0
    BY <1>4, <1>6
  <1>9. ASSUME n # 0
        PROVE  /\ page[1] = first /\ page[n] = first + n - 1
               /\ page[1] \in 1..upTo /\ page[n] \in 1..upTo
               /\ Ids(page) = page[1]..page[n]
    <2>1. 1 \in 1..n /\ n \in 1..n
      BY <1>4, <1>9
    <2>2. page[1] = first /\ page[n] = first + n - 1
      BY <1>1, <1>6, <2>1
    <2>3. page[1] \in 1..upTo /\ page[n] \in 1..upTo
      BY <1>4, <1>6, <2>1
    <2>4. ASSUME NEW id \in first..(first + n - 1) PROVE id \in Ids(page)
      <3>1. id - first + 1 \in 1..n /\ first + (id - first + 1) - 1 = id
        BY <1>1, <1>4
      <3>2. page[id - first + 1] = id
        BY <1>6, <3>1
      <3> QED
        BY <1>6, <3>1, <3>2 DEF Ids
    <2>5. ASSUME NEW i \in 1..n PROVE page[i] \in first..(first + n - 1)
      BY <1>1, <1>4, <1>6
    <2>6. Ids(page) = first..(first + n - 1)
      BY <1>6, <2>4, <2>5 DEF Ids
    <2> QED
      BY <2>2, <2>3, <2>6
  <1>10. after = 0 /\ n = 0 => upTo = 0
    BY <1>0, <1>1, <1>4
  <1>11. n # 0 /\ after = 0 => page[n] = upTo
    BY <1>1, <1>4, <1>9
  <1> QED
    BY <1>1, <1>4, <1>6, <1>7, <1>8, <1>9, <1>10, <1>11 DEF page

\* What a page adds: the messages that are not there yet, each once.
LEMMA AdditionsAreNew ==
  ASSUME NEW n \in Nat, NEW page \in Seq(1..n), shown \in Seq(1..n)
  PROVE  /\ Additions(page) \in Seq(1..n) /\ Once(Additions(page))
         /\ Ids(Additions(page)) = Ids(page) \ Ids(shown)
  <1> DEFINE new == Ids(page) \ Ids(shown)
  <1>1. IsFiniteSet(Ids(page)) /\ Ids(page) \subseteq 1..n
    BY IdsOfSeq
  <1>2. /\ IsFiniteSet(new) /\ \A id \in new : id \in 1..n
        /\ new \in SUBSET (1..n) /\ new \in SUBSET Nat
    <2>1. IsFiniteSet(new)
      BY <1>1, FS_Difference
    <2>2. \A id \in new : id \in 1..n
      BY <1>1
    <2>3. \A id \in 1..n : id \in Nat
      OBVIOUS
    <2> QED
      BY <2>1, <2>2, <2>3
  <1> HIDE DEF new
  <1>3. InOrder(new) \in Seq(new) /\ Ids(InOrder(new)) = new /\ Once(InOrder(new))
    BY <1>2, OrderKeepsAll DEF Once
  <1>4. InOrder(new) \in Seq(1..n)
    BY <1>2, <1>3, SeqMonotonic
  <1> QED
    BY <1>3, <1>4 DEF Additions, new

-----------------------------------------------------------------------------
(* The invariant.                                                          *)

\* Types, with what a closed tab knows.
Shape ==
  /\ stored \in Seq(Writers) /\ open \in BOOLEAN /\ loaded \in BOOLEAN
  /\ shown \in Seq(1..Len(stored))
  /\ newest \in 0..Len(stored) /\ older \in 0..Len(stored) /\ overtaken \in 0..Len(stored)
  /\ initial \in Loads /\ initial.upTo \in 0..Len(stored)
  /\ load \in Loads /\ load.upTo \in 0..Len(stored) /\ load.after \in 0..Len(stored)
  /\ load.pc = "none" => load.after = 0
  /\ draft \in [pc: {"idle", "sending", "failed"}, result: 0..Len(stored)]
  /\ ~open => /\ initial = NoLoad /\ load = NoLoad /\ shown = << >> /\ draft = NoDraft
              /\ ~loaded /\ older = 0 /\ newest = 0

\* The answer to a reply is a message of this user.
ReplyIsOwn == draft.result # 0 => ByMe(draft.result)

\* An empty thread on the screen with a cursor: the first load took the messages away.
EmptyIsOvertaken == shown = << >> => newest <= overtaken /\ load.after <= overtaken

\* Earlier pages join what is shown without a gap.
EarlierPagesJoin ==
  older # 0 => shown # << >> /\ \A id \in older..shown[1] : id \in Ids(shown)

\* A message up to n that is not shown, though an earlier one is first, is excused.
Skipped(id) == shown # << >> /\ id > shown[1] /\ id \notin Ids(shown)
KnownUpTo(n) == \A id \in 1..n : Skipped(id) => Excused(id)

\* A load under way will put its cursor where it may be.
ThreadInv ==
  /\ Shape /\ Once(shown) /\ ReplyIsOwn
  /\ EmptyIsOvertaken /\ EarlierPagesJoin
  /\ KnownUpTo(newest) /\ KnownUpTo(load.after)

LEMMA InitEstablishes == Init => ThreadInv
  <1> SUFFICES ASSUME Init PROVE ThreadInv
    OBVIOUS
  <1>1. Shape
    <2>1. stored \in Seq(Writers) /\ Len(stored) = 0 /\ shown \in Seq(1..Len(stored))
      BY DEF Init
    <2>2. initial \in Loads /\ load \in Loads
      BY DEF Init, Loads, NoLoad
    <2>3. initial.upTo = 0 /\ load.upTo = 0 /\ load.after = 0
      BY DEF Init, NoLoad
    <2>4. draft \in [pc: {"idle", "sending", "failed"}, result: 0..Len(stored)]
      BY <2>1 DEF Init, NoDraft
    <2>5. open \in BOOLEAN /\ loaded \in BOOLEAN /\ ~loaded
      BY DEF Init
    <2>6. newest = 0 /\ older = 0 /\ overtaken = 0 /\ shown = << >>
      BY DEF Init
    <2>7. initial = NoLoad /\ load = NoLoad /\ draft = NoDraft
      BY DEF Init
    <2> QED
      BY <2>1, <2>2, <2>3, <2>4, <2>5, <2>6, <2>7 DEF Shape
  <1>2. Once(shown) /\ ReplyIsOwn /\ EmptyIsOvertaken /\ EarlierPagesJoin
    BY DEF Init, Once, ReplyIsOwn, EmptyIsOvertaken, EarlierPagesJoin, NoDraft, NoLoad
  <1>3. KnownUpTo(newest) /\ KnownUpTo(load.after)
    BY DEF Init, KnownUpTo, Skipped
  <1> QED
    BY <1>1, <1>2, <1>3 DEF ThreadInv

-----------------------------------------------------------------------------
(* What a step leaves alone.                                               *)

\* Reasons stay as long as nothing is taken from the tab.
LEMMA ReasonsStay ==
  ASSUME Shape, Shape',
         Len(stored) <= Len(stored'), \A id \in 1..Len(stored) : stored'[id] = stored[id],
         Ids(shown) \subseteq Ids(shown'), overtaken' = overtaken,
         NEW n \in Nat, KnownUpTo(n), \A id \in 1..n : Skipped(id)' => Skipped(id)
  PROVE  KnownUpTo(n)'
  <1> SUFFICES ASSUME NEW id \in 1..n, Skipped(id)' PROVE Excused(id)'
    BY DEF KnownUpTo
  <1>1. Excused(id)
    BY DEF KnownUpTo
  <1>2. Len(stored) \in Nat /\ Len(stored') \in Nat
    <2>1. stored \in Seq(Writers) /\ stored' \in Seq(Writers)
      BY DEF Shape
    <2> QED
      BY <2>1
  <1>3. CASE \E j \in Ids(shown) : j > id /\ ByMe(j)
    <2>1. PICK j \in Ids(shown) : j > id /\ stored[j] = Me
      BY <1>3 DEF ByMe
    <2>2. j \in 1..Len(stored)
      BY IdsOfSeq DEF Shape
    <2>3. j \in Ids(shown') /\ stored'[j] = Me
      BY <2>1, <2>2
    <2> QED
      BY <2>1, <2>3 DEF Excused, ByMe
  <1>4. CASE id <= overtaken
    BY <1>4 DEF Excused
  <1>5. CASE id + PageSize <= Len(stored)
    <2>1. id + PageSize <= Len(stored')
      BY <1>2, <1>5, BoundAssumption
    <2> QED
      BY <2>1 DEF Excused
  <1> QED
    BY <1>1, <1>3, <1>4, <1>5 DEF Excused

\* Steps that show nothing and change no cursor.
LEMMA ViewStays ==
  ASSUME ThreadInv, Shape', UNCHANGED <<stored, viewVars>>, ReplyIsOwn',
         load'.after = load.after \/ load'.after = newest \/ load'.after = 0
  PROVE  ThreadInv'
  <1>1. /\ shown' = shown /\ newest' = newest /\ older' = older /\ overtaken' = overtaken
        /\ stored' = stored
    BY DEF viewVars
  <1>2. Once(shown)' /\ EarlierPagesJoin'
    BY <1>1 DEF ThreadInv, Once, EarlierPagesJoin
  <1>3. newest \in Nat /\ load.after \in Nat /\ 0 \in Nat /\ overtaken \in Nat
    <2>1. /\ stored \in Seq(Writers) /\ newest \in 0..Len(stored)
          /\ load.after \in 0..Len(stored) /\ overtaken \in 0..Len(stored)
      BY DEF ThreadInv, Shape
    <2>2. Len(stored) \in Nat
      BY <2>1
    <2> QED
      BY <2>1, <2>2
  <1>4. EmptyIsOvertaken'
    BY <1>1, <1>3 DEF ThreadInv, EmptyIsOvertaken
  <1>5. \A n \in Nat : KnownUpTo(n) => KnownUpTo(n)'
    BY <1>1 DEF KnownUpTo, Skipped, Excused, ByMe
  <1>6. KnownUpTo(0)
    BY DEF KnownUpTo
  <1>7. KnownUpTo(newest)'
    BY <1>1 DEF ThreadInv, KnownUpTo, Skipped, Excused, ByMe
  <1>8. PICK n \in Nat : n = load'.after /\ KnownUpTo(n)'
    BY <1>3, <1>5, <1>6 DEF ThreadInv
  <1>9. KnownUpTo(load.after)'
    BY <1>8 DEF KnownUpTo
  <1> QED
    BY <1>2, <1>4, <1>7, <1>9 DEF ThreadInv

\* What may change in an open tab without a word about messages.
LEMMA ShapeStays ==
  ASSUME Shape, UNCHANGED <<stored, viewVars>>, open', open' \in BOOLEAN, loaded' \in BOOLEAN,
         initial' \in Loads, initial'.upTo \in 0..Len(stored),
         load' \in Loads, load'.upTo \in 0..Len(stored), load'.after \in 0..Len(stored),
         load'.pc = "none" => load'.after = 0,
         draft' \in [pc: {"idle", "sending", "failed"}, result: 0..Len(stored)]
  PROVE  Shape'
  <1>1. /\ shown' = shown /\ newest' = newest /\ older' = older /\ overtaken' = overtaken
        /\ stored' = stored
    BY DEF viewVars
  <1> QED
    BY <1>1 DEF Shape

\* A tab that waits for something is open.
LEMMA WaitingTabsAreOpen ==
  ASSUME Shape
  PROVE  /\ initial.pc # "none" => open
         /\ load.pc # "none" => open
         /\ draft.pc # "idle" \/ draft.result # 0 => open
         /\ loaded => open
         /\ older # 0 => open
         /\ shown # << >> => open
         /\ Len(stored) \in Nat
  <1>1. NoLoad.pc = "none" /\ NoDraft.pc = "idle" /\ NoDraft.result = 0
    BY DEF NoLoad, NoDraft
  <1>2. stored \in Seq(Writers)
    BY DEF Shape
  <1> QED
    BY <1>1, <1>2 DEF Shape

LEMMA OpenKeeps == ThreadInv /\ Open => ThreadInv'
  <1> SUFFICES ASSUME ThreadInv, Open PROVE ThreadInv'
    OBVIOUS
  <1>1. Shape /\ UNCHANGED <<stored, viewVars>> /\ load' = load /\ draft' = draft /\ loaded' = loaded
    BY DEF ThreadInv, Open
  <1>2. initial' = [pc |-> "asked", after |-> 0, upTo |-> 0]
    BY DEF Open, Asked
  <1>3. initial' \in Loads /\ initial'.upTo \in 0..Len(stored)
    BY <1>1, <1>2, WaitingTabsAreOpen DEF Loads
  <1>4. open' = TRUE
    BY DEF Open
  <1>5. Shape'
    BY <1>1, <1>3, <1>4, ShapeStays DEF Shape
  <1>6. ReplyIsOwn'
    BY <1>1 DEF ThreadInv, ReplyIsOwn, ByMe
  <1> QED
    BY <1>1, <1>5, <1>6, ViewStays

LEMMA TicketArrivesKeeps == ThreadInv /\ TicketArrives => ThreadInv'
  <1> SUFFICES ASSUME ThreadInv, TicketArrives PROVE ThreadInv'
    OBVIOUS
  <1>1. /\ Shape /\ UNCHANGED <<stored, viewVars>> /\ open /\ open' = open /\ loaded' = TRUE
        /\ initial' = initial /\ load' = load /\ draft' = draft
    BY DEF ThreadInv, TicketArrives
  <1>2. Shape'
    BY <1>1, ShapeStays DEF Shape
  <1>3. ReplyIsOwn'
    BY <1>1 DEF ThreadInv, ReplyIsOwn, ByMe
  <1> QED
    BY <1>1, <1>2, <1>3, ViewStays

LEMMA ReviseKeeps == ThreadInv /\ Revise => ThreadInv'
  <1> SUFFICES ASSUME ThreadInv, Revise PROVE ThreadInv'
    OBVIOUS
  <1>1. /\ Shape /\ UNCHANGED <<stored, viewVars>> /\ open /\ open' = open /\ loaded' = loaded
        /\ initial' = initial /\ draft' = draft
    BY DEF ThreadInv, Revise
  <1>2. load' = [pc |-> "asked", after |-> newest, upTo |-> 0]
    BY DEF Revise, Asked
  <1>3. newest \in 0..Len(stored) /\ newest \in Nat /\ 0 \in 0..Len(stored)
    BY <1>1, WaitingTabsAreOpen DEF Shape
  <1>4. load' \in Loads
    BY <1>2, <1>3 DEF Loads
  <1>5. Shape'
    BY <1>1, <1>2, <1>3, <1>4, ShapeStays DEF Shape
  <1>6. ReplyIsOwn'
    BY <1>1 DEF ThreadInv, ReplyIsOwn, ByMe
  <1> QED
    BY <1>1, <1>2, <1>5, <1>6, ViewStays

\* The first load is asked, read or failed.
LEMMA InitialKeeps ==
  ASSUME ThreadInv, InitialReads \/ LoadAgain
  PROVE  ThreadInv'
  <1>1. /\ Shape /\ UNCHANGED <<stored, viewVars>> /\ open' = open /\ loaded' = loaded
        /\ load' = load /\ draft' = draft
    BY DEF ThreadInv, InitialReads, LoadAgain
  <1>2. initial \in Loads /\ Len(stored) \in 0..Len(stored) /\ 0 \in 0..Len(stored) /\ Len(stored) \in Nat
    BY <1>1, WaitingTabsAreOpen DEF Shape
  <1>3. initial.pc # "none"
    BY DEF InitialReads, LoadAgain
  <1>4. initial' \in Loads /\ initial'.upTo \in 0..Len(stored)
    <2>1. CASE InitialReads
      BY <1>2, <2>1 DEF InitialReads, Loads
    <2>2. CASE LoadAgain
      BY <1>2, <2>2 DEF LoadAgain, Asked, Loads
    <2> QED
      BY <2>1, <2>2
  <1>5. Shape'
    BY <1>1, <1>3, <1>4, ShapeStays, WaitingTabsAreOpen DEF Shape
  <1>6. ReplyIsOwn'
    BY <1>1 DEF ThreadInv, ReplyIsOwn, ByMe
  <1> QED
    BY <1>1, <1>5, <1>6, ViewStays

\* The load of a revision is read, or fails.
LEMMA LoadKeeps ==
  ASSUME ThreadInv, LoadReads \/ LoadFails
  PROVE  ThreadInv'
  <1>1. /\ Shape /\ UNCHANGED <<stored, viewVars>> /\ open' = open /\ loaded' = loaded
        /\ initial' = initial /\ draft' = draft
    BY DEF ThreadInv, LoadReads, LoadFails
  <1>2. load \in Loads /\ Len(stored) \in 0..Len(stored) /\ 0 \in 0..Len(stored) /\ Len(stored) \in Nat
    BY <1>1, WaitingTabsAreOpen DEF Shape
  <1>3. load.pc # "none"
    BY DEF LoadReads, LoadFails
  <1>4. /\ load' \in Loads /\ load'.upTo \in 0..Len(stored) /\ load'.after \in 0..Len(stored)
        /\ load'.pc = "none" => load'.after = 0
        /\ load'.after = load.after \/ load'.after = 0
    <2>1. CASE LoadReads
      <3>1. load' = [load EXCEPT !.pc = "read", !.upTo = Len(stored)]
        BY <2>1 DEF LoadReads
      <3>2. load'.after = load.after /\ load'.upTo = Len(stored) /\ load'.pc = "read" /\ load' \in Loads
        BY <1>2, <3>1 DEF Loads
      <3> QED
        BY <1>1, <1>2, <3>2 DEF Shape
    <2>2. CASE LoadFails
      BY <1>2, <2>2 DEF LoadFails, NoLoad, Loads
    <2> QED
      BY <2>1, <2>2
  <1>5. Shape'
    BY <1>1, <1>3, <1>4, ShapeStays, WaitingTabsAreOpen DEF Shape
  <1>6. ReplyIsOwn'
    BY <1>1 DEF ThreadInv, ReplyIsOwn, ByMe
  <1> QED
    BY <1>1, <1>4, <1>5, <1>6, ViewStays

\* The reply is sent, fails, or is edited.
LEMMA DraftKeeps ==
  ASSUME ThreadInv, SendReply \/ SendFails \/ EditReply
  PROVE  ThreadInv'
  <1>1. /\ Shape /\ UNCHANGED <<stored, viewVars>> /\ open' = open /\ loaded' = loaded
        /\ initial' = initial /\ load' = load
    BY DEF ThreadInv, SendReply, SendFails, EditReply
  <1>2. draft \in [pc: {"idle", "sending", "failed"}, result: 0..Len(stored)] /\ 0 \in 0..Len(stored)
    BY <1>1, WaitingTabsAreOpen DEF Shape
  <1>3. open
    BY <1>1, WaitingTabsAreOpen DEF SendReply, SendFails, EditReply
  <1>4. /\ draft' \in [pc: {"idle", "sending", "failed"}, result: 0..Len(stored)]
        /\ draft'.result = draft.result \/ draft'.result = 0
    BY <1>2 DEF SendReply, SendFails, EditReply, NoDraft
  <1>5. Shape'
    BY <1>1, <1>3, <1>4, ShapeStays DEF Shape
  <1>6. ReplyIsOwn'
    BY <1>1, <1>4 DEF ThreadInv, ReplyIsOwn, ByMe
  <1> QED
    BY <1>1, <1>5, <1>6, ViewStays

\* Nothing older is offered after a failure.
LEMMA InitialFailsKeeps == ThreadInv /\ InitialFails => ThreadInv'
  <1> SUFFICES ASSUME ThreadInv, InitialFails PROVE ThreadInv'
    OBVIOUS
  <1>1. /\ Shape /\ stored' = stored /\ shown' = shown /\ newest' = newest /\ older' = 0
        /\ overtaken' = overtaken /\ open' = open /\ loaded' = loaded
        /\ load' = load /\ draft' = draft
    BY DEF ThreadInv, InitialFails
  <1>2. open /\ 0 \in 0..Len(stored)
    BY <1>1, WaitingTabsAreOpen DEF InitialFails
  <1>3. initial' \in Loads /\ initial'.upTo = 0
    BY DEF InitialFails, NoLoad, Loads
  <1>4. Shape'
    BY <1>1, <1>2, <1>3 DEF Shape
  <1>5. Once(shown)' /\ ReplyIsOwn' /\ EmptyIsOvertaken' /\ EarlierPagesJoin'
    BY <1>1 DEF ThreadInv, Once, ReplyIsOwn, ByMe, EmptyIsOvertaken, EarlierPagesJoin
  <1>6. KnownUpTo(newest)' /\ KnownUpTo(load.after)'
    BY <1>1 DEF ThreadInv, KnownUpTo, Skipped, Excused, ByMe
  <1> QED
    BY <1>4, <1>5, <1>6 DEF ThreadInv

\* A tab that is left forgets everything.
LEMMA CloseKeeps == ThreadInv /\ Close => ThreadInv'
  <1> SUFFICES ASSUME ThreadInv, Close PROVE ThreadInv'
    OBVIOUS
  <1>1. /\ Shape /\ stored' = stored /\ open' = FALSE /\ loaded' = FALSE /\ shown' = << >>
        /\ newest' = 0 /\ older' = 0 /\ overtaken' = 0
        /\ initial' = NoLoad /\ load' = NoLoad /\ draft' = NoDraft
    BY DEF ThreadInv, Close
  <1>2. 0 \in 0..Len(stored) /\ stored \in Seq(Writers)
    BY <1>1, WaitingTabsAreOpen DEF Shape
  <1>3. NoLoad \in Loads /\ NoLoad.upTo = 0 /\ NoLoad.after = 0 /\ NoDraft.result = 0
    BY DEF NoLoad, Loads, NoDraft
  <1>4. NoDraft \in [pc: {"idle", "sending", "failed"}, result: 0..Len(stored)]
    BY <1>2 DEF NoDraft
  <1>5. << >> \in Seq(1..Len(stored))
    OBVIOUS
  <1>6. Shape'
    BY <1>1, <1>2, <1>3, <1>4, <1>5 DEF Shape
  <1>7. Once(shown)' /\ ReplyIsOwn' /\ EmptyIsOvertaken' /\ EarlierPagesJoin'
    BY <1>1, <1>3 DEF Once, ReplyIsOwn, EmptyIsOvertaken, EarlierPagesJoin
  <1>8. KnownUpTo(newest)' /\ KnownUpTo(load.after)'
    BY <1>1 DEF KnownUpTo, Skipped
  <1> QED
    BY <1>6, <1>7, <1>8 DEF ThreadInv

\* A message is stored behind all others.
LEMMA PostKeeps ==
  ASSUME ThreadInv, NEW w \in Writers, Post(w)
  PROVE  ThreadInv'
  <1> DEFINE n == Len(stored)
  <1>1. /\ Shape /\ shown' = shown /\ newest' = newest /\ older' = older /\ overtaken' = overtaken
        /\ open' = open /\ loaded' = loaded /\ initial' = initial /\ load' = load
        /\ stored' = Append(stored, w)
    BY DEF ThreadInv, Post, viewVars
  <1>2. stored \in Seq(Writers) /\ n \in Nat
    BY <1>1 DEF Shape
  <1>3. /\ stored' \in Seq(Writers) /\ Len(stored') = n + 1 /\ stored'[n + 1] = w
        /\ \A id \in 1..n : stored'[id] = stored[id]
    BY <1>1, <1>2, AppendProperties
  <1> HIDE DEF n
  <1>4. 1..n \subseteq 1..Len(stored') /\ 0..n \subseteq 0..Len(stored')
    BY <1>2, <1>3
  <1>5. shown \in Seq(1..Len(stored'))
    BY <1>1, <1>4, SeqMonotonic DEF Shape, n
  <1>6. ASSUME draft' = draft PROVE Shape' /\ ReplyIsOwn'
    <2>1. draft \in [pc: {"idle", "sending", "failed"}, result: 0..Len(stored')]
      BY <1>1, <1>4 DEF Shape, n
    <2>2. Shape'
      BY <1>1, <1>3, <1>4, <1>5, <1>6, <2>1 DEF Shape, n
    <2>3. ReplyIsOwn'
      <3>1. draft.result # 0 => draft.result \in 1..n /\ stored[draft.result] = Me
        BY <1>1, <1>2 DEF ThreadInv, Shape, ReplyIsOwn, ByMe, n
      <3> QED
        BY <1>3, <1>6, <3>1 DEF ReplyIsOwn, ByMe
    <2> QED
      BY <2>2, <2>3
  <1>7. ASSUME w = Me, draft.pc # "idle", draft' = [draft EXCEPT !.result = Len(stored) + 1]
        PROVE  Shape' /\ ReplyIsOwn'
    <2>1. open
      BY <1>1, <1>7, WaitingTabsAreOpen
    <2>2. draft' \in [pc: {"idle", "sending", "failed"}, result: 0..Len(stored')] /\ draft'.result = n + 1
      <3>1. draft' = [draft EXCEPT !.result = n + 1] /\ n + 1 \in 0..Len(stored')
        BY <1>2, <1>3, <1>7 DEF n
      <3>2. draft \in [pc: {"idle", "sending", "failed"}, result: 0..Len(stored)]
        BY <1>1 DEF Shape
      <3> QED
        BY <3>1, <3>2
    <2>3. Shape'
      BY <1>1, <1>3, <1>4, <1>5, <2>1, <2>2 DEF Shape, n
    <2>4. ReplyIsOwn'
      BY <1>3, <1>7, <2>2 DEF ReplyIsOwn, ByMe
    <2> QED
      BY <2>3, <2>4
  <1>8. Shape' /\ ReplyIsOwn'
    BY <1>6, <1>7 DEF Post
  <1>9. Once(shown)' /\ EmptyIsOvertaken' /\ EarlierPagesJoin'
    BY <1>1 DEF ThreadInv, Once, EmptyIsOvertaken, EarlierPagesJoin
  <1>10. ASSUME NEW k \in Nat, KnownUpTo(k) PROVE KnownUpTo(k)'
    <2>1. \A id \in 1..k : Skipped(id)' => Skipped(id)
      BY <1>1 DEF Skipped
    <2>2. Len(stored) <= Len(stored') /\ \A id \in 1..Len(stored) : stored'[id] = stored[id]
      BY <1>2, <1>3 DEF n
    <2> QED
      BY <1>1, <1>8, <1>10, <2>1, <2>2, ReasonsStay
  <1>11. PICK k \in Nat, m \in Nat :
           k = newest /\ m = load.after /\ KnownUpTo(k)' /\ KnownUpTo(m)'
    BY <1>1, <1>2, <1>10 DEF ThreadInv, Shape, n
  <1>12. KnownUpTo(newest)' /\ KnownUpTo(load.after)'
    BY <1>1, <1>11 DEF KnownUpTo
  <1> QED
    BY <1>8, <1>9, <1>12 DEF ThreadInv

-----------------------------------------------------------------------------
(* What arrives in the tab.                                                *)

\* The first load shows a stretch of the thread; a cursor that it puts back is remembered.
LEMMA InitialArrivesKeeps == ThreadInv /\ InitialArrives => ThreadInv'
  <1> SUFFICES ASSUME ThreadInv, InitialArrives PROVE ThreadInv'
    OBVIOUS
  <1> DEFINE page == Page(0, initial.upTo)
             n == Len(stored)
  <1>1. /\ Shape /\ stored' = stored /\ open' = open /\ loaded' = loaded /\ load' = load
        /\ draft' = draft /\ initial' = NoLoad /\ shown' = page
        /\ newest' = IF page = << >> THEN 0 ELSE page[Len(page)]
        /\ older' = IF page # << >> /\ page[1] > 1 THEN page[1] ELSE 0
        /\ overtaken' = IF load.pc # "none" /\ load.after > newest' THEN load.after ELSE overtaken
    BY DEF ThreadInv, InitialArrives
  <1>2. open /\ n \in Nat
    BY <1>1, WaitingTabsAreOpen DEF InitialArrives
  <1>3. initial.upTo \in 0..n /\ initial.upTo \in Nat /\ load.after \in 0..n
    BY <1>1, <1>2 DEF Shape
  <1> DEFINE upTo == initial.upTo
  <1>4. /\ page \in Seq(1..upTo) /\ Once(page)
        /\ page # << >> =>
             /\ page[1] \in 1..upTo /\ page[Len(page)] \in 1..upTo
             /\ Ids(page) = page[1]..page[Len(page)]
    BY <1>3, PageOfThread
  <1> HIDE DEF page, n, upTo
  <1>5. upTo \in Nat /\ upTo <= n
    BY <1>2, <1>3 DEF upTo
  <1>6. page \in Seq(1..n)
    <2>1. 1..upTo \subseteq 1..n
      BY <1>2, <1>5
    <2> QED
      BY <1>4, <2>1, SeqMonotonic
  <1>7. newest' \in 0..n /\ older' \in 0..n /\ overtaken' \in 0..n
    <2>1. newest' \in 0..n /\ older' \in 0..n
      BY <1>1, <1>2, <1>4, <1>5
    <2>2. overtaken' \in 0..n
      BY <1>1, <1>2, <1>3 DEF Shape, n
    <2> QED
      BY <2>1, <2>2
  <1>8. Shape'
    <2>1. NoLoad \in Loads /\ NoLoad.upTo = 0 /\ 0 \in 0..n
      BY <1>2 DEF NoLoad, Loads
    <2> QED
      BY <1>1, <1>2, <1>6, <1>7, <2>1 DEF Shape, n
  <1>9. Once(shown)' /\ ReplyIsOwn'
    BY <1>1, <1>4 DEF ThreadInv, Once, ReplyIsOwn, ByMe
  <1>10. load.after <= newest' \/ load.after <= overtaken'
    <2>1. newest' \in Nat /\ load.after \in Nat
      BY <1>2, <1>3, <1>7
    <2>2. CASE load.pc = "none"
      BY <1>1, <2>1, <2>2 DEF Shape
    <2>3. CASE load.pc # "none"
      BY <1>1, <2>1, <2>3
    <2> QED
      BY <2>2, <2>3
  <1>11. EmptyIsOvertaken'
    <2> SUFFICES ASSUME page = << >> PROVE newest' <= overtaken' /\ load'.after <= overtaken'
      BY <1>1 DEF EmptyIsOvertaken
    <2>1. newest' = 0
      BY <1>1
    <2> QED
      BY <1>1, <1>2, <1>3, <1>7, <1>10, <2>1
  <1>12. EarlierPagesJoin'
    <2> SUFFICES ASSUME older' # 0 PROVE shown' # << >> /\ \A id \in older'..shown'[1] : id \in Ids(shown')
      BY DEF EarlierPagesJoin
    <2>1. page # << >> /\ older' = page[1]
      BY <1>1
    <2>2. Ids(page) = page[1]..page[Len(page)] /\ page[1] \in Nat /\ page[Len(page)] \in Nat
      BY <1>4, <1>5, <2>1
    <2>3. page[1] \in Ids(page)
      BY <1>4, <2>1, IdsOfSeq
    <2>4. \A id \in page[1]..page[1] : id = page[1]
      BY <2>2
    <2> QED
      BY <1>1, <2>1, <2>3, <2>4
  <1>13. \A id \in Nat : Skipped(id)' => id > newest'
    <2> SUFFICES ASSUME NEW id \in Nat, Skipped(id)' PROVE id > newest'
      OBVIOUS
    <2>1. page # << >> /\ id > page[1] /\ id \notin Ids(page)
      BY <1>1 DEF Skipped
    <2>2. newest' = page[Len(page)] /\ page[1] \in Nat /\ newest' \in Nat /\ Ids(page) = page[1]..newest'
      BY <1>1, <1>4, <1>5, <2>1
    <2> QED
      BY <2>1, <2>2
  <1>14. KnownUpTo(newest)'
    <2> SUFFICES ASSUME NEW id \in 1..newest', Skipped(id)' PROVE FALSE
      BY DEF KnownUpTo
    <2>1. newest' \in Nat /\ id \in Nat /\ id <= newest'
      BY <1>2, <1>7
    <2> QED
      BY <1>13, <2>1
  <1>15. KnownUpTo(load.after)'
    <2> SUFFICES ASSUME NEW id \in 1..load'.after, Skipped(id)' PROVE Excused(id)'
      BY DEF KnownUpTo
    <2>1. /\ newest' \in Nat /\ overtaken' \in Nat /\ load.after \in Nat /\ id \in Nat
          /\ id <= load.after
      BY <1>1, <1>2, <1>3, <1>7
    <2>2. id > newest'
      BY <1>13, <2>1
    <2>3. id <= overtaken'
      BY <1>10, <2>1, <2>2
    <2> QED
      BY <2>3 DEF Excused
  <1> QED
    BY <1>8, <1>9, <1>11, <1>12, <1>14, <1>15 DEF ThreadInv

\* The load of a revision goes on where its cursor was; without a cursor it may leave out
\* what lies before its page.
LEMMA LoadArrivesKeeps == ThreadInv /\ LoadArrives => ThreadInv'
  <1> SUFFICES ASSUME ThreadInv, LoadArrives PROVE ThreadInv'
    OBVIOUS
  <1> DEFINE after == load.after
             upTo == load.upTo
             page == Page(load.after, load.upTo)
             n == Len(stored)
  <1>1. /\ Shape /\ stored' = stored /\ open' = open /\ loaded' = loaded /\ older' = older
        /\ overtaken' = overtaken /\ initial' = initial /\ draft' = draft /\ load' = NoLoad
        /\ shown' = shown \o Additions(page)
        /\ newest' = IF page # << >> THEN page[Len(page)] ELSE IF after # 0 THEN after ELSE newest
    BY DEF ThreadInv, LoadArrives, Merged
  <1>2. open /\ n \in Nat
    BY <1>1, WaitingTabsAreOpen DEF LoadArrives
  <1>3. /\ upTo \in Nat /\ upTo <= n /\ after \in Nat /\ after <= n
        /\ newest \in Nat /\ newest <= n /\ overtaken \in Nat /\ PageSize \in Nat
    BY <1>1, <1>2, BoundAssumption DEF Shape
  <1>4. /\ page \in Seq(1..upTo)
        /\ page # << >> =>
             /\ page[1] \in 1..upTo /\ page[Len(page)] \in 1..upTo
             /\ Ids(page) = page[1]..page[Len(page)]
             /\ after # 0 => page[1] = after + 1
             /\ after = 0 => page[1] = 1 \/ page[1] + PageSize = upTo + 1
    BY <1>3, PageOfThread
  <1> HIDE DEF after, upTo, page, n
  <1>5. page \in Seq(1..n) /\ shown \in Seq(1..n)
    <2>1. 1..upTo \subseteq 1..n
      BY <1>2, <1>3
    <2> QED
      BY <1>1, <1>4, <2>1, SeqMonotonic DEF Shape, n
  <1>6. /\ Additions(page) \in Seq(1..n) /\ Once(Additions(page))
        /\ Ids(Additions(page)) = Ids(page) \ Ids(shown)
    BY <1>2, <1>5, AdditionsAreNew
  <1>7. /\ shown' \in Seq(1..n) /\ Ids(shown') = Ids(shown) \cup Ids(page) /\ Once(shown')
        /\ shown # << >> => shown' # << >> /\ shown'[1] = shown[1]
        /\ shown = << >> => shown' = Additions(page) /\ Ids(shown) = {}
    <2>1. Once(shown) /\ Ids(shown) \cap Ids(Additions(page)) = {}
      BY <1>6 DEF ThreadInv
    <2> QED
      BY <1>1, <1>5, <1>6, <2>1, Joined, IdsOfSeq
  <1>8. newest' \in 0..n
    BY <1>1, <1>2, <1>3, <1>4
  <1>9. Shape'
    <2>1. NoLoad \in Loads /\ NoLoad.upTo = 0 /\ NoLoad.after = 0 /\ 0 \in 0..n
      BY <1>2 DEF NoLoad, Loads
    <2> QED
      BY <1>1, <1>2, <1>7, <1>8, <2>1 DEF Shape, n
  <1>10. Once(shown)' /\ ReplyIsOwn'
    BY <1>1, <1>7 DEF ThreadInv, Once, ReplyIsOwn, ByMe
  <1>11. EarlierPagesJoin'
    BY <1>1, <1>7 DEF ThreadInv, EarlierPagesJoin
  <1>12. EmptyIsOvertaken'
    <2> SUFFICES ASSUME shown' = << >> PROVE newest' <= overtaken' /\ load'.after <= overtaken'
      BY DEF EmptyIsOvertaken
    <2>1. shown = << >> /\ Ids(page) = {}
      BY <1>7, IdsOfSeq
    <2>2. page = << >>
      BY <1>5, <2>1, IdsOfSeq
    <2>3. newest <= overtaken /\ after <= overtaken
      BY <2>1 DEF ThreadInv, EmptyIsOvertaken, after
    <2> QED
      BY <1>1, <1>3, <2>2, <2>3 DEF NoLoad
  <1>13. ASSUME NEW k \in Nat, KnownUpTo(k), shown # << >> \/ page = << >>
         PROVE  KnownUpTo(k)'
    <2>1. ASSUME NEW id \in 1..k, Skipped(id)' PROVE Skipped(id)
      <3>1. shown' # << >>
        BY <2>1 DEF Skipped
      <3>2. shown # << >>
        BY <1>5, <1>7, <1>13, <3>1, IdsOfSeq
      <3> QED
        BY <1>7, <2>1, <3>2 DEF Skipped
    <2>2. Len(stored) <= Len(stored') /\ \A id \in 1..Len(stored) : stored'[id] = stored[id]
      BY <1>1, <1>2 DEF n
    <2> QED
      BY <1>1, <1>7, <1>9, <1>13, <2>1, <2>2, ReasonsStay
  <1>14. KnownUpTo(newest)'
    <2>1. CASE page = << >>
      <3>1. PICK k \in Nat : k = newest' /\ KnownUpTo(k)
        BY <1>1, <1>3, <2>1 DEF ThreadInv, after
      <3>2. KnownUpTo(k)'
        BY <1>13, <2>1, <3>1
      <3> QED
        BY <3>1, <3>2 DEF KnownUpTo
    <2>2. CASE page # << >>
      <3> SUFFICES ASSUME NEW id \in 1..newest', Skipped(id)' PROVE Excused(id)'
        BY DEF KnownUpTo
      <3>1. /\ newest' = page[Len(page)] /\ newest' \in Nat /\ page[1] \in Nat
            /\ Ids(page) = page[1]..newest' /\ id \in Nat /\ id # 0 /\ id <= newest'
        BY <1>1, <1>2, <1>3, <1>4, <1>8, <2>2
      <3>2. id < page[1]
        BY <1>7, <3>1 DEF Skipped
      <3>3. CASE shown = << >>
        <4>1. shown'[1] \in Ids(page) /\ id > shown'[1]
          BY <1>7, <3>3, IdsOfSeq DEF Skipped
        <4> QED
          BY <3>1, <3>2, <4>1
      <3>4. CASE shown # << >> /\ after # 0
        <4>1. PICK k \in Nat : k = after /\ KnownUpTo(k)
          BY <1>3 DEF ThreadInv, after
        <4>2. KnownUpTo(k)'
          BY <1>13, <3>4, <4>1
        <4>3. id \in 1..k
          BY <1>3, <1>4, <2>2, <3>1, <3>2, <3>4, <4>1
        <4> QED
          BY <4>2, <4>3 DEF KnownUpTo
      <3>5. CASE after = 0
        <4>1. id + PageSize <= n
          BY <1>2, <1>3, <1>4, <2>2, <3>1, <3>2, <3>5
        <4> QED
          BY <1>1, <4>1 DEF Excused, n
      <3> QED
        BY <3>3, <3>4, <3>5
    <2> QED
      BY <2>1, <2>2
  <1>15. KnownUpTo(load.after)'
    BY <1>1 DEF KnownUpTo, NoLoad
  <1> QED
    BY <1>9, <1>10, <1>11, <1>12, <1>14, <1>15 DEF ThreadInv

\* Earlier pages leave no gap before what is shown.
LEMMA LoadOlderKeeps == ThreadInv /\ LoadOlder => ThreadInv'
  <1> SUFFICES ASSUME ThreadInv, LoadOlder PROVE ThreadInv'
    OBVIOUS
  <1> DEFINE first == IF older > PageSize THEN older - PageSize ELSE 1
             page == [i \in 1..(older - first) |-> first + i - 1]
             n == Len(stored)
  <1>1. /\ Shape /\ stored' = stored /\ open' = open /\ loaded' = loaded /\ newest' = newest
        /\ overtaken' = overtaken /\ initial' = initial /\ load' = load /\ draft' = draft
        /\ older # 0 /\ shown' = Additions(page) \o shown
        /\ older' = IF first > 1 THEN first ELSE 0
    BY DEF ThreadInv, LoadOlder
  <1>2. open /\ n \in Nat
    BY <1>1, WaitingTabsAreOpen
  <1>3. /\ older \in Nat /\ older <= n /\ PageSize \in Nat /\ PageSize # 0
        /\ newest \in Nat /\ load.after \in Nat
    BY <1>1, <1>2, BoundAssumption DEF Shape
  <1>4. first \in Nat /\ first # 0 /\ first <= older
    BY <1>1, <1>3
  <1> HIDE DEF first
  <1>5. older - first \in Nat /\ \A i \in 1..(older - first) : first + i - 1 \in 1..n
    BY <1>2, <1>3, <1>4
  <1>6. /\ page \in Seq(1..n) /\ DOMAIN page = 1..(older - first)
        /\ \A i \in 1..(older - first) : page[i] = first + i - 1
    BY <1>5
  <1> HIDE DEF page, n
  <1>7. Ids(page) = first..(older - 1)
    <2>1. ASSUME NEW id \in first..(older - 1) PROVE id \in Ids(page)
      <3>1. id - first + 1 \in 1..(older - first) /\ first + (id - first + 1) - 1 = id
        BY <1>3, <1>4
      <3>2. page[id - first + 1] = id
        BY <1>6, <3>1
      <3> QED
        BY <1>6, <3>1, <3>2 DEF Ids
    <2>2. ASSUME NEW i \in 1..(older - first) PROVE page[i] \in first..(older - 1)
      BY <1>3, <1>4, <1>6
    <2> QED
      BY <1>6, <2>1, <2>2 DEF Ids
  <1>8. shown \in Seq(1..n) /\ shown # << >> /\ \A id \in older..shown[1] : id \in Ids(shown)
    BY <1>1 DEF ThreadInv, Shape, EarlierPagesJoin, n
  <1>9. shown[1] \in Nat
    <2>1. shown[1] \in 1..n
      BY <1>8, IdsOfSeq
    <2> QED
      BY <1>2, <2>1
  <1> DEFINE new == Additions(page)
  <1>10. new \in Seq(1..n) /\ Once(new) /\ Ids(new) = Ids(page) \ Ids(shown)
    BY <1>2, <1>6, <1>8, AdditionsAreNew
  <1>11. /\ shown' \in Seq(1..n) /\ Ids(shown') = Ids(page) \cup Ids(shown) /\ Once(shown')
         /\ new # << >> => shown' # << >> /\ shown'[1] = new[1]
         /\ new = << >> => shown' = shown
    <2>1. Once(shown) /\ Ids(new) \cap Ids(shown) = {}
      BY <1>10 DEF ThreadInv
    <2> QED
      BY <1>1, <1>8, <1>10, <2>1, Joined
  <1> HIDE DEF new
  <1>12. shown' # << >> /\ shown'[1] \in Nat
    <2>1. new # << >> => new[1] \in 1..n
      BY <1>10, IdsOfSeq
    <2> QED
      BY <1>2, <1>8, <1>9, <1>11, <2>1
  \* The first message is that of before, or one of the page.
  <1>13. shown'[1] = shown[1] \/ shown'[1] \in first..(older - 1)
    BY <1>7, <1>8, <1>10, <1>11, IdsOfSeq
  <1>14. older' \in 0..n
    BY <1>1, <1>2, <1>3, <1>4
  <1>15. Shape'
    BY <1>1, <1>2, <1>11, <1>14 DEF Shape, n
  <1>16. Once(shown)' /\ ReplyIsOwn' /\ EmptyIsOvertaken'
    BY <1>1, <1>11, <1>12 DEF ThreadInv, Once, ReplyIsOwn, ByMe, EmptyIsOvertaken
  <1>17. ASSUME NEW id \in Nat, first <= id, id <= shown'[1] PROVE id \in Ids(shown')
    <2>1. CASE id < older
      BY <1>3, <1>4, <1>7, <1>11, <1>17, <2>1
    <2>2. CASE ~(id < older)
      <3>1. shown'[1] = shown[1]
        BY <1>3, <1>4, <1>12, <1>13, <1>17, <2>2
      <3> QED
        BY <1>3, <1>8, <1>9, <1>11, <1>17, <2>2, <3>1
    <2> QED
      BY <2>1, <2>2
  <1>18. EarlierPagesJoin'
    <2> SUFFICES ASSUME older' # 0 PROVE shown' # << >> /\ \A id \in older'..shown'[1] : id \in Ids(shown')
      BY DEF EarlierPagesJoin
    <2>1. older' = first
      BY <1>1
    <2> QED
      BY <1>4, <1>12, <1>17, <2>1
  <1>19. ASSUME NEW id \in Nat, Skipped(id)' PROVE Skipped(id)
    <2>1. id > shown'[1] /\ id \notin Ids(page) /\ id \notin Ids(shown)
      BY <1>11, <1>19 DEF Skipped
    <2>2. CASE shown'[1] = shown[1]
      BY <1>8, <2>1, <2>2 DEF Skipped
    <2>3. CASE shown'[1] \in first..(older - 1)
      <3>1. ~(id < older)
        BY <1>3, <1>4, <1>7, <1>12, <2>1, <2>3
      <3>2. ~(id <= shown[1])
        BY <1>3, <1>8, <1>9, <2>1, <3>1
      <3> QED
        BY <1>8, <1>9, <2>1, <3>2 DEF Skipped
    <2> QED
      BY <1>13, <2>2, <2>3
  <1>20. ASSUME NEW k \in Nat, KnownUpTo(k) PROVE KnownUpTo(k)'
    <2>1. \A id \in 1..k : Skipped(id)' => Skipped(id)
      BY <1>19
    <2>2. Len(stored) <= Len(stored') /\ \A id \in 1..Len(stored) : stored'[id] = stored[id]
      BY <1>1, <1>2 DEF n
    <2> QED
      BY <1>1, <1>11, <1>15, <1>20, <2>1, <2>2, ReasonsStay
  <1>21. KnownUpTo(newest)' /\ KnownUpTo(load.after)'
    <2>1. PICK k \in Nat, m \in Nat :
            k = newest /\ m = load.after /\ KnownUpTo(k)' /\ KnownUpTo(m)'
      BY <1>3, <1>20 DEF ThreadInv
    <2> QED
      BY <1>1, <2>1 DEF KnownUpTo
  <1> QED
    BY <1>15, <1>16, <1>18, <1>21 DEF ThreadInv

\* The reply of this tab moves the cursor to it, and is the reason for what it skips.
LEMMA SendAnsweredKeeps == ThreadInv /\ SendAnswered => ThreadInv'
  <1> SUFFICES ASSUME ThreadInv, SendAnswered PROVE ThreadInv'
    OBVIOUS
  <1> DEFINE n == Len(stored)
             id == draft.result
  <1>1. /\ Shape /\ stored' = stored /\ open' = open /\ loaded' = loaded /\ older' = older
        /\ overtaken' = overtaken /\ initial' = initial /\ load' = load /\ draft' = NoDraft
        /\ id # 0 /\ newest' = id
        /\ shown' = IF id \in Ids(shown) THEN shown ELSE Append(shown, id)
    BY DEF ThreadInv, SendAnswered, Appended
  <1>2. open /\ n \in Nat
    BY <1>1, WaitingTabsAreOpen
  <1>3. id \in 1..n /\ id \in Nat /\ load.after \in Nat /\ overtaken \in Nat
    BY <1>1, <1>2 DEF Shape
  <1>4. stored[id] = Me
    BY <1>1 DEF ThreadInv, ReplyIsOwn, ByMe
  <1>5. shown \in Seq(1..n) /\ Once(shown)
    BY <1>1 DEF ThreadInv, Shape
  <1> HIDE DEF n, id
  <1>6. /\ shown' \in Seq(1..n) /\ Ids(shown') = Ids(shown) \cup {id} /\ Once(shown')
        /\ shown' # << >>
        /\ shown # << >> => shown'[1] = shown[1]
        /\ shown = << >> => shown'[1] = id
    <2>1. CASE id \in Ids(shown)
      BY <1>1, <1>5, <2>1, IdsOfSeq
    <2>2. CASE id \notin Ids(shown)
      <3> DEFINE one == <<id>>
      <3>1. one \in Seq(1..n) /\ Ids(one) = {id} /\ Once(one) /\ one # << >> /\ one[1] = id
        BY <1>3 DEF Ids, Once
      <3>2. shown' = shown \o one
        BY <1>1, <1>3, <1>5, <2>2, AppendIsConcat
      <3>3. Ids(shown) \cap Ids(one) = {}
        BY <2>2, <3>1
      <3> HIDE DEF one
      <3> QED
        BY <1>5, <3>1, <3>2, <3>3, Joined
    <2> QED
      BY <2>1, <2>2
  <1>7. NoDraft \in [pc: {"idle", "sending", "failed"}, result: 0..n] /\ NoDraft.result = 0
    BY <1>2 DEF NoDraft
  <1>8. Shape'
    BY <1>1, <1>2, <1>3, <1>6, <1>7 DEF Shape, n
  <1>9. Once(shown)' /\ ReplyIsOwn' /\ EmptyIsOvertaken'
    BY <1>1, <1>6, <1>7 DEF Once, ReplyIsOwn, EmptyIsOvertaken
  <1>10. EarlierPagesJoin'
    BY <1>1, <1>6 DEF ThreadInv, EarlierPagesJoin
  <1>11. KnownUpTo(newest)'
    <2> SUFFICES ASSUME NEW i \in 1..newest', Skipped(i)' PROVE Excused(i)'
      BY DEF KnownUpTo
    <2>1. i \in Nat /\ i <= id /\ i # id
      BY <1>1, <1>3, <1>6 DEF Skipped
    <2>2. id \in Ids(shown') /\ id > i /\ stored'[id] = Me
      BY <1>1, <1>3, <1>4, <1>6, <2>1
    <2> QED
      BY <2>2 DEF Excused, ByMe
  <1>12. KnownUpTo(load.after)'
    <2>1. CASE shown = << >>
      <3>1. load.after <= overtaken
        BY <2>1 DEF ThreadInv, EmptyIsOvertaken
      <3>2. \A i \in 1..load.after : i <= overtaken
        BY <1>3, <3>1
      <3> QED
        BY <1>1, <3>2 DEF KnownUpTo, Excused
    <2>2. CASE shown # << >>
      <3>1. PICK k \in Nat : k = load.after /\ KnownUpTo(k)
        BY <1>3 DEF ThreadInv
      <3>2. \A i \in 1..k : Skipped(i)' => Skipped(i)
        BY <1>6, <2>2 DEF Skipped
      <3>3. Len(stored) <= Len(stored') /\ \A i \in 1..Len(stored) : stored'[i] = stored[i]
        BY <1>1, <1>2 DEF n
      <3>4. KnownUpTo(k)'
        BY <1>1, <1>6, <1>8, <3>1, <3>2, <3>3, ReasonsStay
      <3> QED
        BY <1>1, <3>1, <3>4 DEF KnownUpTo
    <2> QED
      BY <2>1, <2>2
  <1> QED
    BY <1>8, <1>9, <1>10, <1>11, <1>12 DEF ThreadInv

-----------------------------------------------------------------------------
(* Theorems.                                                               *)

LEMMA StepPreserves == ThreadInv /\ [Next]_vars => ThreadInv'
  <1> SUFFICES ASSUME ThreadInv, [Next]_vars PROVE ThreadInv'
    OBVIOUS
  <1>1. CASE \E w \in Writers : Post(w)
    BY <1>1, PostKeeps
  <1>2. CASE Open \/ Close \/ TicketArrives \/ Revise
    BY <1>2, OpenKeeps, CloseKeeps, TicketArrivesKeeps, ReviseKeeps
  <1>3. CASE InitialReads \/ InitialArrives \/ InitialFails \/ LoadAgain
    BY <1>3, InitialKeeps, InitialArrivesKeeps, InitialFailsKeeps
  <1>4. CASE LoadReads \/ LoadArrives \/ LoadFails \/ LoadOlder
    BY <1>4, LoadKeeps, LoadArrivesKeeps, LoadOlderKeeps
  <1>5. CASE SendReply \/ SendAnswered \/ SendFails \/ EditReply
    BY <1>5, DraftKeeps, SendAnsweredKeeps
  <1>6. CASE UNCHANGED vars
    <2>1. /\ stored' = stored /\ open' = open /\ loaded' = loaded /\ shown' = shown
          /\ newest' = newest /\ older' = older /\ initial' = initial /\ load' = load
          /\ draft' = draft /\ overtaken' = overtaken
      BY <1>6 DEF vars
    <2>2. Shape'
      BY <2>1 DEF ThreadInv, Shape
    <2>3. UNCHANGED <<stored, viewVars>> /\ ReplyIsOwn'
      BY <2>1 DEF ThreadInv, viewVars, ReplyIsOwn, ByMe
    <2> QED
      BY <2>1, <2>2, <2>3, ViewStays
  <1> QED
    BY <1>1, <1>2, <1>3, <1>4, <1>5, <1>6 DEF Next

LEMMA ThreadInvHolds == Spec => []ThreadInv
  BY InitEstablishes, StepPreserves, PTL DEF Spec

\* What the tab holds comes from the thread, its cursors lie within the thread, and a tab
\* that has been left waits for nothing (TicketDetail.tsx:330-392).
THEOREM ThreadIsTyped == Spec => []TypeOK
  <1>1. ThreadInv => TypeOK
    <2> SUFFICES ASSUME ThreadInv PROVE TypeOK
      OBVIOUS
    <2>1. Shape
      BY DEF ThreadInv
    <2>2. DOMAIN stored = 1..Len(stored)
      BY <2>1 DEF Shape
    <2>3. {open, loaded} \subseteq BOOLEAN /\ {initial, load} \subseteq Loads
      BY <2>1 DEF Shape
    <2> QED
      BY <2>1, <2>2, <2>3 DEF Shape, TypeOK
  <1> QED
    BY <1>1, ThreadInvHolds, PTL

\* "message IDs are deduplicated" (docs/decisions/0003-live-conversation.md:13-14), for
\* every length of the thread and order of the answers.
THEOREM MessagesAreShownOnce == Spec => []NothingShownTwice
  <1>1. ThreadInv => NothingShownTwice
    BY DEF ThreadInv, Once, NothingShownTwice
  <1> QED
    BY <1>1, ThreadInvHolds, PTL

\* The cursor is past a message that is not shown only for one of the three reasons,
\* however loads, the first load, replies and failures interleave (TicketDetail.tsx:378-415,
\* 479-534; messages.py:112-134).
THEOREM GapsHaveReasons == Spec => []SkippedHasReason
  <1>1. ThreadInv => SkippedHasReason
    BY DEF ThreadInv, KnownUpTo, Skipped, SkippedHasReason
  <1> QED
    BY <1>1, ThreadInvHolds, PTL

=============================================================================
