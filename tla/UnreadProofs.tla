----------------------------- MODULE UnreadProofs -----------------------------
(* The marker of a user misses one message at most, for every set of writers *)
(* and every number of messages and requests.                                *)
EXTENDS Unread, TLAPS

Stamps == [now: Nat, length: Nat]
Messages == [by: Writers, at: Nat]

Typed ==
  /\ stored \in Seq(Messages) /\ dated \in Nat /\ writing \in [Writers -> Nat]
  /\ stamps \subseteq Stamps /\ seen \in Stamps

\* One writer holds the lock at a time.
OneWriter == \A v, w \in Writers : writing[v] # 0 /\ writing[w] # 0 => v = w

\* A stamp lies behind every message that came after the first one it has not seen, the
\* one being written included.
Sound(stamp) ==
  /\ stamp.length <= Len(stored) /\ stamp.now <= dated
  /\ \A id \in DOMAIN stored : id > stamp.length + 1 => stored[id].at > stamp.now
  /\ Len(stored) > stamp.length =>
       \A w \in Writers : writing[w] # 0 => writing[w] > stamp.now

IInv ==
  /\ Typed
  /\ OneWriter
  /\ \A stamp \in stamps \cup {seen} : Sound(stamp)

LEMMA InitEstablishes == Init => IInv
  <1>1. SUFFICES ASSUME Init PROVE IInv
    OBVIOUS
  <1>2. Typed
    BY <1>1 DEF Init, Typed, Stamps, Messages
  <1>3. OneWriter
    BY <1>1 DEF Init, OneWriter
  <1>4. Sound(seen)
    BY <1>1 DEF Init, Sound
  <1>5. stamps = {}
    BY <1>1 DEF Init
  <1> QED
    BY <1>2, <1>3, <1>4, <1>5 DEF IInv

\* A message that is dated is later than every stamp.
LEMMA PostLocksKeeps ==
  ASSUME IInv, NEW w \in Writers, PostLocks(w)
  PROVE  IInv'
  <1>1. Typed'
    BY DEF IInv, PostLocks, Typed, markVars
  <1>2. OneWriter'
    BY DEF IInv, PostLocks, Typed, OneWriter
  <1>3. ASSUME NEW stamp \in stamps \cup {seen} PROVE Sound(stamp)'
    <2>1. stamp \in Stamps /\ Sound(stamp)
      BY DEF IInv, Typed
    <2>2. ASSUME NEW v \in Writers, writing'[v] # 0 PROVE writing'[v] > stamp.now
      <3>1. v = w
        BY <2>2 DEF IInv, Typed, PostLocks
      <3>2. writing'[v] = dated + 1
        BY <3>1 DEF IInv, Typed, PostLocks
      <3> QED
        BY <2>1, <3>2 DEF IInv, Typed, Sound, Stamps
    <2> QED
      BY <2>1, <2>2 DEF IInv, Typed, Sound, PostLocks, Stamps
  <1> QED
    BY <1>1, <1>2, <1>3 DEF IInv, PostLocks, markVars

\* The message that commits is the one whose date the stamps are compared with.
LEMMA PostCommitsKeeps ==
  ASSUME IInv, NEW w \in Writers, PostCommits(w)
  PROVE  IInv'
  <1> DEFINE message == [by |-> w, at |-> writing[w]]
  <1>1. message \in Messages /\ stored \in Seq(Messages)
    BY DEF IInv, Typed, Messages
  <1>2. stored' = Append(stored, message)
    BY DEF PostCommits
  <1>3. Typed'
    BY <1>1, <1>2 DEF IInv, PostCommits, Typed, markVars
  <1>4. OneWriter' /\ \A v \in Writers : writing'[v] = 0
    BY DEF IInv, PostCommits, Typed, OneWriter
  <1>5. ASSUME NEW stamp \in stamps \cup {seen} PROVE Sound(stamp)'
    <2>1. stamp \in Stamps /\ Sound(stamp)
      BY DEF IInv, Typed
    <2>2. Len(stored') = Len(stored) + 1 /\ Len(stored) \in Nat
      BY <1>1, <1>2
    <2>3. ASSUME NEW id \in DOMAIN stored', id > stamp.length + 1
          PROVE  stored'[id].at > stamp.now
      <3>1. CASE id \in DOMAIN stored
        BY <1>1, <1>2, <2>1, <2>3, <3>1 DEF Sound
      <3>2. CASE id \notin DOMAIN stored
        <4>1. id = Len(stored) + 1 /\ stored'[id] = message
          BY <1>1, <1>2, <2>3, <3>2
        <4>2. Len(stored) > stamp.length
          BY <2>1, <2>2, <2>3, <4>1 DEF Stamps
        <4>3. writing[w] > stamp.now
          BY <2>1, <4>2 DEF Sound, PostCommits
        <4> QED
          BY <4>1, <4>3
      <3> QED
        BY <3>1, <3>2
    <2>4. stamp.length <= Len(stored') /\ stamp.now <= dated'
      BY <2>1, <2>2 DEF Sound, PostCommits, Stamps
    <2> QED
      BY <1>4, <2>3, <2>4 DEF Sound
  <1> QED
    BY <1>3, <1>4, <1>5 DEF IInv, PostCommits, markVars

LEMMA PostRollsBackKeeps ==
  ASSUME IInv, NEW w \in Writers, PostRollsBack(w)
  PROVE  IInv'
  <1>1. Typed'
    BY DEF IInv, PostRollsBack, Typed, markVars
  <1>2. \A v \in Writers : writing'[v] # 0 => writing'[v] = writing[v]
    BY DEF IInv, PostRollsBack, Typed
  <1>3. OneWriter'
    BY <1>2 DEF IInv, PostRollsBack, OneWriter
  <1>4. \A stamp \in stamps \cup {seen} : Sound(stamp)'
    BY <1>2 DEF IInv, PostRollsBack, Sound
  <1> QED
    BY <1>1, <1>3, <1>4 DEF IInv, PostRollsBack, markVars

\* A stamp that is made now has seen the whole thread; one that fails or commits is kept.
LEMMA MarksKeep ==
  ASSUME IInv, MarkStamps \/ MarkCommits \/ MarkFails
  PROVE  IInv'
  <1> DEFINE fresh == [now |-> dated, length |-> Len(stored)]
  <1>1. UNCHANGED threadVars
    BY DEF MarkStamps, MarkCommits, MarkFails
  <1>2. fresh \in Stamps
    BY DEF IInv, Typed, Stamps
  <1>3. Sound(fresh)
    BY DEF IInv, Typed, Sound
  <1>4. stamps' \cup {seen'} \subseteq stamps \cup {seen, fresh}
    BY DEF MarkStamps, MarkCommits, MarkFails
  <1>5. \A stamp \in stamps' \cup {seen'} : stamp \in Stamps /\ Sound(stamp)
    BY <1>2, <1>3, <1>4 DEF IInv, Typed
  <1>6. Typed'
    BY <1>1, <1>5 DEF IInv, Typed, threadVars
  <1>7. OneWriter' /\ \A stamp \in stamps' \cup {seen'} : Sound(stamp)'
    BY <1>1, <1>5 DEF IInv, OneWriter, Sound, threadVars
  <1> QED
    BY <1>6, <1>7 DEF IInv

LEMMA NextKeeps == IInv /\ [Next]_vars => IInv'
  <1> SUFFICES ASSUME IInv, [Next]_vars PROVE IInv'
    OBVIOUS
  <1>1. ASSUME NEW w \in Writers, PostLocks(w) \/ PostCommits(w) \/ PostRollsBack(w)
        PROVE  IInv'
    BY <1>1, PostLocksKeeps, PostCommitsKeeps, PostRollsBackKeeps
  <1>2. CASE MarkStamps \/ MarkCommits \/ MarkFails
    BY <1>2, MarksKeep
  <1>3. CASE OpenTab \/ CloseTab \/ Revise \/ UNCHANGED vars
    <2>1. UNCHANGED <<threadVars, stamps, seen>>
      BY <1>3 DEF OpenTab, CloseTab, Revise, vars, threadVars
    <2> QED
      BY <2>1 DEF IInv, Typed, OneWriter, Sound, threadVars
  <1> QED
    BY <1>1, <1>2, <1>3 DEF Next

\* Whoever writes, and however late the requests of the tab commit: of the messages that
\* a marker has not seen, at most the first one is taken as read (unread.py:21-29).
THEOREM MarksMissOneAtMost == Spec => []MarkMissesAtMostOne
  <1>1. ASSUME IInv PROVE MarkMissesAtMostOne
    BY <1>1 DEF IInv, Sound, MarkMissesAtMostOne, IsUnread
  <1> QED
    BY <1>1, InitEstablishes, NextKeeps, PTL DEF Spec
=============================================================================
