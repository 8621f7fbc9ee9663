-------------------------- MODULE HistoryWindowProofs --------------------------
(***************************************************************************)
(* The window of a page shows every message between its two ends but those *)
(* it evicted, exceeds its bound only for a Turn that it does not know to  *)
(* be over, and evicts Turns that are over, as a whole, for any bounds and *)
(* page size.                                                              *)
(***************************************************************************)
EXTENDS HistoryWindow, FiniteSetTheorems, TLAPS

-----------------------------------------------------------------------------
(* Finite orders: the ranks of elements of which none is the first would   *)
(* be too few to differ.                                                   *)

LEMMA FiniteOrderHasFirst ==
  ASSUME NEW S, IsFiniteSet(S), S # {}, NEW R,
         \A a \in S : <<a, a>> \notin R,
         \A a, b \in S : a # b => <<a, b>> \in R \/ <<b, a>> \in R,
         \A a, b, c \in S : <<a, b>> \in R /\ <<b, c>> \in R => <<a, c>> \in R
  PROVE  \E m \in S : \A k \in S : <<k, m>> \notin R
<1> DEFINE Below(i) == {j \in S : <<j, i>> \in R}
           n == Cardinality(S)
           rank == [i \in S |-> Cardinality(Below(i))]
<1>1. n \in Nat
  BY FS_CardinalityType
<1>2. ASSUME NEW T, NEW U, T \subseteq U, U \subseteq S, T # U
      PROVE  Cardinality(T) \in Nat /\ Cardinality(U) \in Nat /\ Cardinality(T) < Cardinality(U)
  <2>1. IsFiniteSet(U) /\ IsFiniteSet(T)
    BY <1>2, FS_Subset
  <2>2. Cardinality(T) \in Nat /\ Cardinality(U) \in Nat
    BY <2>1, FS_CardinalityType
  <2>3. Cardinality(T) <= Cardinality(U) /\ (Cardinality(T) = Cardinality(U) => T = U)
    BY <1>2, <2>1, FS_Subset
  <2> QED
    BY <1>2, <2>2, <2>3
<1>3. \A i \in S : Below(i) \subseteq S /\ Below(i) # S
  OBVIOUS
<1>4. ASSUME NEW i \in S, NEW j \in S, i # j
      PROVE  rank[i] # rank[j]
  <2>1. ASSUME NEW a \in S, NEW b \in S, <<a, b>> \in R
        PROVE  rank[a] # rank[b]
    <3>1. Below(a) \subseteq Below(b) /\ Below(a) # Below(b) /\ Below(b) \subseteq S
      BY <2>1
    <3> HIDE DEF Below
    <3> QED
      BY <1>2, <3>1
  <2> HIDE DEF rank
  <2> QED
    BY <1>4, <2>1
<1> SUFFICES ASSUME \A m \in S : \E k \in S : <<k, m>> \in R
             PROVE  FALSE
  OBVIOUS
<1>5. \A i \in S : rank[i] \in 1 .. n - 1
  <2> SUFFICES ASSUME NEW i \in S PROVE rank[i] \in 1 .. n - 1
    OBVIOUS
  <2>1. Below(i) # {} /\ {} \subseteq Below(i)
    OBVIOUS
  <2> HIDE DEF Below
  <2>2. Cardinality({}) = 0
    BY FS_EmptySet
  <2>3. Cardinality(Below(i)) \in Nat /\ 0 < Cardinality(Below(i)) /\ Cardinality(Below(i)) < n
    BY <1>2, <1>3, <2>1, <2>2
  <2> QED
    BY <1>1, <2>3
<1>6. rank \in [S -> 1 .. n - 1]
  BY <1>5
<1>7. IsFiniteSet(1 .. n - 1) /\ Cardinality(1 .. n - 1) < Cardinality(S)
  <2>1. IsFiniteSet(1 .. n - 1) /\ Cardinality(1 .. n - 1) = IF 1 > n - 1 THEN 0 ELSE n - 1
    BY <1>1, FS_Interval
  <2>2. n # 0
    BY FS_EmptySet
  <2> QED
    BY <1>1, <2>1, <2>2
<1>8. \E x, y \in S : x # y /\ rank[x] = rank[y]
  <2> HIDE DEF rank
  <2> QED
    BY <1>6, <1>7, FS_PigeonHole
<1> QED
  BY <1>4, <1>8

LEMMA LeastPlace ==
  ASSUME NEW S, IsFiniteSet(S), S # {}, S \subseteq Nat
  PROVE  Min(S) \in S /\ \A k \in S : Min(S) <= k
<1> DEFINE R == {p \in S \X S : p[1] < p[2]}
<1>1. \A a, b \in S : <<a, b>> \in R <=> a < b
  OBVIOUS
<1>2. \A a \in S : <<a, a>> \notin R
  BY <1>1
<1>3. \A a, b \in S : a # b => <<a, b>> \in R \/ <<b, a>> \in R
  BY <1>1
<1>4. \A a, b, c \in S : <<a, b>> \in R /\ <<b, c>> \in R => <<a, c>> \in R
  BY <1>1
<1>5. PICK m \in S : \A k \in S : <<k, m>> \notin R
  <2> HIDE DEF R
  <2> QED
    BY <1>2, <1>3, <1>4, FiniteOrderHasFirst
<1>6. \A k \in S : m <= k
  <2> SUFFICES ASSUME NEW k \in S PROVE m <= k
    OBVIOUS
  <2>1. m \in Nat /\ k \in Nat /\ ~(k < m)
    <3> HIDE DEF R
    <3> QED
      BY <1>1, <1>5
  <2> QED
    BY <2>1
<1> QED
  BY <1>6 DEF Min

LEMMA GreatestPlace ==
  ASSUME NEW S, IsFiniteSet(S), S # {}, S \subseteq Nat
  PROVE  \E m \in S : \A k \in S : k <= m
<1> DEFINE R == {p \in S \X S : p[2] < p[1]}
<1>1. \A a, b \in S : <<a, b>> \in R <=> b < a
  OBVIOUS
<1>2. \A a \in S : <<a, a>> \notin R
  BY <1>1
<1>3. \A a, b \in S : a # b => <<a, b>> \in R \/ <<b, a>> \in R
  BY <1>1
<1>4. \A a, b, c \in S : <<a, b>> \in R /\ <<b, c>> \in R => <<a, c>> \in R
  BY <1>1
<1>5. PICK m \in S : \A k \in S : <<k, m>> \notin R
  <2> HIDE DEF R
  <2> QED
    BY <1>2, <1>3, <1>4, FiniteOrderHasFirst
<1> SUFFICES ASSUME NEW k \in S PROVE k <= m
  BY <1>5
<1>6. m \in Nat /\ k \in Nat /\ ~(m < k)
  <2> HIDE DEF R
  <2> QED
    BY <1>1, <1>5
<1> QED
  BY <1>6

-----------------------------------------------------------------------------
(* Pages: the newest messages before a place, and nothing missing between  *)
(* them and the place the next page ends at.                               *)

LEMMA PlacesAreFinite ==
  ASSUME NEW place \in Nat, NEW B \in SUBSET (1 .. place - 1)
  PROVE  IsFiniteSet(B) /\ Cardinality(B) \in Nat /\ B \subseteq Nat
<1>1. 1 \in Int /\ place - 1 \in Int
  OBVIOUS
<1>2. IsFiniteSet(1 .. place - 1)
  BY <1>1, FS_Interval
<1>3. IsFiniteSet(B)
  BY <1>2, FS_Subset
<1> QED
  BY <1>3, FS_CardinalityType

LEMMA NewestIsATail ==
  ASSUME NEW place \in Nat, NEW B \in SUBSET (1 .. place - 1), Cardinality(B) > PageSize
  PROVE  /\ Min(Newest(B, PageSize)) \in 1 .. place - 1
         /\ Newest(B, PageSize) = {i \in B : i >= Min(Newest(B, PageSize))}
<1> DEFINE N == Newest(B, PageSize)
           After(i) == {j \in B : j > i}
<1>1. IsFiniteSet(B) /\ B \subseteq Nat
  BY PlacesAreFinite
<1>2. ASSUME NEW T, NEW U, T \subseteq U, U \subseteq B
      PROVE  IsFiniteSet(T) /\ Cardinality(T) \in Nat /\ Cardinality(U) \in Nat
             /\ Cardinality(T) <= Cardinality(U)
  <2>1. IsFiniteSet(U)
    BY <1>1, <1>2, FS_Subset
  <2>2. IsFiniteSet(T) /\ Cardinality(T) <= Cardinality(U)
    BY <1>2, <2>1, FS_Subset
  <2> QED
    BY <2>1, <2>2, FS_CardinalityType
<1>3. PageSize \in Nat /\ 0 < PageSize
  BY WindowAssumption
<1>4. B # {}
  BY <1>3, FS_EmptySet
<1>5. PICK top \in B : \A k \in B : k <= top
  BY <1>1, <1>4, GreatestPlace
<1>6. N = {i \in B : Cardinality(After(i)) < PageSize}
  BY DEF Newest
<1>7. top \in N
  <2>1. After(top) = {}
    <3> SUFFICES ASSUME NEW j \in B, j > top PROVE FALSE
      OBVIOUS
    <3>1. j \in Nat /\ top \in Nat /\ j <= top
      BY <1>1, <1>5
    <3> QED
      BY <3>1
  <2>2. Cardinality(After(top)) = 0
    BY <2>1, FS_EmptySet
  <2> HIDE DEF After, N
  <2> QED
    BY <1>3, <1>5, <1>6, <2>2
<1>8. N \subseteq B /\ IsFiniteSet(N) /\ N \subseteq Nat
  <2> HIDE DEF After, N
  <2>1. N \subseteq B
    BY <1>6
  <2> QED
    BY <1>1, <1>2, <2>1
<1>9. Min(N) \in N /\ \A k \in N : Min(N) <= k
  <2> HIDE DEF N
  <2> QED
    BY <1>7, <1>8, LeastPlace
<1> DEFINE first == Min(N)
<1> HIDE DEF first
<1>10. ASSUME NEW i \in B, i >= first
       PROVE  i \in N
  <2>1. After(i) \subseteq After(first)
    <3> SUFFICES ASSUME NEW j \in B, j > i PROVE j > first
      OBVIOUS
    <3> HIDE DEF N
    <3>1. first \in Nat
      BY <1>8, <1>9 DEF first
    <3>2. j \in Nat /\ i \in Nat
      BY <1>1, <1>10
    <3> QED
      BY <1>10, <3>1, <3>2
  <2>2. After(first) \subseteq B
    OBVIOUS
  <2> HIDE DEF After, N
  <2>3. Cardinality(After(i)) \in Nat /\ Cardinality(After(first)) \in Nat
        /\ Cardinality(After(i)) <= Cardinality(After(first))
    BY <1>2, <2>1, <2>2
  <2>4. Cardinality(After(first)) < PageSize
    BY <1>6, <1>9 DEF first
  <2>5. Cardinality(After(i)) < PageSize
    BY <1>3, <2>3, <2>4
  <2> QED
    BY <1>6, <2>5
<1>11. first \in B /\ \A k \in N : k >= first
  <2> HIDE DEF N
  <2> QED
    BY <1>8, <1>9 DEF first
<1> HIDE DEF N
<1>12. N = {i \in B : i >= first}
  BY <1>8, <1>10, <1>11
<1> QED
  BY <1>11, <1>12 DEF first, N

LEMMA NewestOfFew ==
  ASSUME NEW place \in Nat, NEW B \in SUBSET (1 .. place - 1), Cardinality(B) <= PageSize
  PROVE  Newest(B, PageSize) = B
<1>1. IsFiniteSet(B) /\ Cardinality(B) \in Nat
  BY PlacesAreFinite
<1>2. ASSUME NEW i \in B
      PROVE  Cardinality({j \in B : j > i}) < PageSize
  <2> DEFINE A == {j \in B : j > i}
  <2>1. A \subseteq B /\ A # B
    BY <1>2
  <2> HIDE DEF A
  <2>2. Cardinality(A) \in Nat /\ Cardinality(A) <= Cardinality(B) /\ Cardinality(A) # Cardinality(B)
    BY <1>1, <2>1, FS_Subset, FS_CardinalityType
  <2>3. Cardinality(A) < PageSize
    BY <1>1, <2>2, WindowAssumption
  <2> QED
    BY <2>3 DEF A
<1> QED
  BY <1>2 DEF Newest

(* The first place that a page with this token brings, and the messages of *)
(* a stretch of a Conversation.                                            *)
First(token)       == IF token = NoToken THEN 1 ELSE token
Shown(c, from, to) == {<<c, i>> : i \in {j \in from .. to : IsMessage(c, j)}}

LEMMA PageCovers ==
  ASSUME NEW c \in Conversations, NEW place \in Nat
  PROVE  /\ NextToken(c, place) \in Nat
         /\ NextToken(c, place) # NoToken => NextToken(c, place) \in 1 .. place - 1
         /\ PageOf(c, place) = Shown(c, First(NextToken(c, place)), place - 1)
<1> USE DEF Shown
<1> DEFINE B == Before(c, place)
<1>1. B \in SUBSET (1 .. place - 1) /\ \A i : i \in B <=> i \in 1 .. place - 1 /\ IsMessage(c, i)
  BY DEF Before
<1> HIDE DEF B
<1>2. CASE Cardinality(B) <= PageSize
  <2>1. NextToken(c, place) = 0 /\ First(NextToken(c, place)) = 1
    BY <1>2 DEF NextToken, First, NoToken, B
  <2>2. Newest(B, PageSize) = B
    BY <1>1, <1>2, NewestOfFew
  <2>3. PageOf(c, place) = {<<c, i>> : i \in B}
    BY <2>2 DEF PageOf, B
  <2>4. B = {j \in 1 .. place - 1 : IsMessage(c, j)}
    BY <1>1
  <2> QED
    BY <2>1, <2>3, <2>4 DEF NoToken
<1>3. CASE ~(Cardinality(B) <= PageSize)
  <2> DEFINE t == Min(Newest(B, PageSize))
  <2>1. Cardinality(B) > PageSize
    <3>1. Cardinality(B) \in Nat
      BY <1>1, PlacesAreFinite
    <3> QED
      BY <1>3, <3>1, WindowAssumption
  <2>2. t \in 1 .. place - 1 /\ Newest(B, PageSize) = {i \in B : i >= t}
    BY <1>1, <2>1, NewestIsATail
  <2>3. NextToken(c, place) = t
    BY <1>3 DEF NextToken, B
  <2>4. PageOf(c, place) = {<<c, i>> : i \in Newest(B, PageSize)}
    BY DEF PageOf, B
  <2> HIDE DEF t
  <2>5. {i \in B : i >= t} = {j \in t .. place - 1 : IsMessage(c, j)}
    BY <1>1, <2>2
  <2> QED
    BY <2>2, <2>3, <2>4, <2>5 DEF First, NoToken
<1> QED
  BY <1>2, <1>3

-----------------------------------------------------------------------------
(* enforceBounds.                                                          *)

LEMMA ShownIsFinite ==
  ASSUME NEW c \in Conversations, NEW to \in Nat, NEW from \in Nat,
         NEW M, M \subseteq Shown(c, from, to)
  PROVE  IsFiniteSet(M) /\ Cardinality(M) \in Nat
<1> DEFINE I == {j \in from .. to : IsMessage(c, j)}
           place == [i \in I |-> <<c, i>>]
<1>1. IsFiniteSet(from .. to)
  <2>1. from \in Int /\ to \in Int
    OBVIOUS
  <2> QED
    BY <2>1, FS_Interval
<1>2. IsFiniteSet(I)
  BY <1>1, FS_Subset
<1>3. Shown(c, from, to) = {place[i] : i \in I}
  BY DEF Shown
<1>4. place \in Surjection(I, Shown(c, from, to))
  BY <1>3 DEF Surjection
<1>5. IsFiniteSet(Shown(c, from, to))
  <2> HIDE DEF I, place
  <2> QED
    BY <1>2, <1>4, FS_Surjection
<1> QED
  BY <1>5, FS_Subset, FS_CardinalityType

LEMMA OldestIsThere ==
  ASSUME NEW c \in Conversations, NEW to \in Nat, NEW from \in Nat,
         NEW M, M \subseteq Shown(c, from, to), M # {}
  PROVE  Oldest(M) \in M
<1> DEFINE S == {i \in from .. to : <<c, i>> \in M}
<1>1. IsFiniteSet(S) /\ S \subseteq Nat
  <2>1. from \in Int /\ to \in Int
    OBVIOUS
  <2>2. IsFiniteSet(from .. to)
    BY <2>1, FS_Interval
  <2>3. S \subseteq from .. to /\ S \subseteq Nat
    OBVIOUS
  <2> HIDE DEF S
  <2> QED
    BY <2>2, <2>3, FS_Subset
<1>2. \A m \in M : m[2] \in S /\ m = <<c, m[2]>>
  BY DEF Shown
<1>3. S # {}
  BY <1>2
<1> HIDE DEF S
<1>4. Min(S) \in S /\ \A k \in S : Min(S) <= k
  BY <1>1, <1>3, LeastPlace
<1>5. <<c, Min(S)>> \in M
  BY <1>4 DEF S
<1>6. \A n \in M : <<c, Min(S)>>[2] <= n[2]
  BY <1>2, <1>4
<1> QED
  BY <1>5, <1>6 DEF Oldest

LEMMA BoundedFacts ==
  ASSUME NEW w \in Window, NEW c \in Conversations, NEW from \in Nat,
         w.messages \subseteq Shown(c, from, w.cursor)
  PROVE  LET b == Bounded(w)
         IN /\ b \in Window
            /\ b = [w EXCEPT !.messages = b.messages, !.ended = b.ended]
            /\ b.messages \subseteq w.messages
            /\ b.ended \subseteq w.ended
            /\ \A t \in w.ended \ b.ended :
                 \E m \in w.messages \ b.messages : TurnOf(m) = t
            /\ Cardinality(b.messages) > MaxMessages =>
                 TurnOf(Oldest(b.messages)) \notin b.ended \cup {NoTurn}
<1> DEFINE S     == {i \in 0 .. w.cursor : StopsAt(w, i)}
           gone  == GoneWith(w.messages, Min(S))
           left  == w.messages \ gone
           ended == w.ended \ {TurnOf(m) : m \in gone}
           b     == Bounded(w)
<1>1. w.cursor \in Nat /\ w.messages \subseteq Message /\ w.ended \subseteq Turns
  BY DEF Window
<1>2. gone \subseteq w.messages
  BY DEF GoneWith
<1>3. b = [w EXCEPT !.messages = left, !.ended = ended]
  BY DEF Bounded
<1>4. Min(S) \in S
  <2>1. IsFiniteSet(S) /\ S \subseteq Nat
    <3>1. 0 \in Int /\ w.cursor \in Int
      BY <1>1
    <3>2. IsFiniteSet(0 .. w.cursor)
      BY <3>1, FS_Interval
    <3>3. S \subseteq 0 .. w.cursor /\ S \subseteq Nat
      BY <1>1
    <3> HIDE DEF S
    <3> QED
      BY <3>2, <3>3, FS_Subset
  <2>2. w.cursor \in S
    <3>1. \A n \in w.messages : n[2] <= w.cursor
      BY <1>1 DEF Shown
    <3>2. w.messages \ GoneWith(w.messages, w.cursor) = {}
      BY <3>1 DEF GoneWith
    <3>3. Cardinality({}) <= MaxMessages
      BY FS_EmptySet, WindowAssumption
    <3>4. StopsAt(w, w.cursor)
      BY <3>2, <3>3 DEF StopsAt
    <3> QED
      BY <1>1, <3>4
  <2> HIDE DEF S
  <2> QED
    BY <2>1, <2>2, LeastPlace
<1>5. StopsAt(w, Min(S))
  <2> DEFINE first == Min(S)
  <2>1. first \in S
    BY <1>4
  <2> HIDE DEF first
  <2>2. StopsAt(w, first)
    BY <2>1
  <2> QED
    BY <2>2 DEF first
<1> HIDE DEF S
<1>6. Cardinality(left) <= MaxMessages \/ TurnOf(Oldest(left)) \notin w.ended \cup {NoTurn}
  BY <1>5 DEF StopsAt
<1>7. IsFiniteSet(left) /\ Cardinality(left) \in Nat
  <2>1. left \subseteq Shown(c, from, w.cursor)
    OBVIOUS
  <2> HIDE DEF left
  <2> QED
    BY <1>1, <2>1, ShownIsFinite
<1>8. \A t \in w.ended \ ended : \E m \in w.messages \ left : TurnOf(m) = t
  BY <1>2
<1>9. left \subseteq w.messages /\ ended \subseteq w.ended
  OBVIOUS
<1> HIDE DEF gone, left, ended, b
<1>10. b \in Window /\ b.messages = left /\ b.ended = ended
  BY <1>1, <1>3, <1>9 DEF Window
<1>11. Cardinality(left) > MaxMessages => TurnOf(Oldest(left)) \notin ended \cup {NoTurn}
  BY <1>6, <1>7, <1>9, WindowAssumption
<1>12. b = [w EXCEPT !.messages = b.messages, !.ended = b.ended]
  BY <1>3, <1>10
<1> QED
  BY <1>8, <1>9, <1>10, <1>11, <1>12 DEF b

-----------------------------------------------------------------------------
(* The inductive invariant.                                                *)

(* What the window knows of its Conversation is what there is.             *)
Placed ==
  window.read =>
    /\ window.conversation # Nowhere
    /\ window.cursor <= Len(log[window.conversation])
    /\ window.token <= window.cursor
    /\ seed.at <= window.cursor

NothingUnread == ~window.read => window.messages = {} /\ evicted = {}

(* A page that is on its way for this Conversation is the one that is      *)
(* missing next, and none is on its way for a Conversation to come.        *)
CurrentLoads ==
  \A l \in loads :
    /\ window.conversation = Nowhere \/ l.conversation <= window.conversation
    /\ l.conversation = window.conversation =>
         window.read /\ l.token = window.token /\ l.token # NoToken

(* An end that was received is remembered until its Turn is evicted.       *)
Heard ==
  window.read =>
    \A i \in seed.at + 1 .. window.cursor :
      log[window.conversation][i].end =>
        \/ log[window.conversation][i].turn \in window.ended
        \/ \E n \in evicted : TurnOf(n) = log[window.conversation][i].turn

(* Beyond the bound only for a Turn that is not known to be over.          *)
FullForCause ==
  Cardinality(window.messages) > MaxMessages =>
    TurnOf(Oldest(window.messages)) \notin window.ended \cup {NoTurn}

WindowInv ==
  TypeOK /\ Placed /\ NothingUnread /\ CurrentLoads /\ NothingMissing /\ Heard /\ FullForCause

LEMMA NothingMissingIsShown ==
  NothingMissing <=>
    (window.read => window.messages \cup evicted
       = Shown(window.conversation, First(window.token), window.cursor))
BY DEF NothingMissing, Shown, First

LEMMA WindowInvAtFirst ==
  Init => WindowInv
<1> SUFFICES ASSUME Init PROVE WindowInv
  OBVIOUS
<1>1. 1 \in Conversations
  BY WindowAssumption DEF Conversations
<1>2. window = Empty(1) /\ window.messages = {} /\ ~window.read
  BY DEF Init, Empty
<1>3. TypeOK
  <2>1. window \in Window
    BY <1>1, <1>2 DEF Empty, Window, NoToken
  <2>2. log \in [Conversations -> Seq(Row)]
    BY DEF Init
  <2> QED
    BY <2>1, <2>2 DEF Init, TypeOK, NoToken
<1>4. FullForCause
  BY <1>2, FS_EmptySet, WindowAssumption DEF FullForCause
<1> QED
  BY <1>2, <1>3, <1>4 DEF WindowInv, Placed, NothingUnread, CurrentLoads, NothingMissing, Heard, Init

-----------------------------------------------------------------------------
(* A step that leaves the reducer's part of the window alone.              *)

LEMMA BecomeFacts ==
  ASSUME NEW w \in Window, NEW c \in Conversations, NEW from \in Nat,
         w.messages \subseteq Shown(c, from, w.cursor),
         evicted \subseteq Message, UNCHANGED log, Become(w)
  PROVE  /\ window' \in Window
         /\ window' = [w EXCEPT !.messages = window'.messages, !.ended = window'.ended]
         /\ window'.messages \cup evicted' = w.messages \cup evicted
         /\ evicted \subseteq evicted' /\ evicted' \subseteq Message
         /\ \A t \in w.ended : t \in window'.ended \/ \E n \in evicted' : TurnOf(n) = t
         /\ FullForCause'
<1> DEFINE b == Bounded(w)
<1>1. window' = b /\ evicted' = evicted \cup (w.messages \ b.messages)
  BY DEF Become
<1>2. /\ b \in Window
      /\ b = [w EXCEPT !.messages = b.messages, !.ended = b.ended]
      /\ b.messages \subseteq w.messages
      /\ \A t \in w.ended \ b.ended : \E m \in w.messages \ b.messages : TurnOf(m) = t
      /\ Cardinality(b.messages) > MaxMessages =>
           TurnOf(Oldest(b.messages)) \notin b.ended \cup {NoTurn}
  BY BoundedFacts
<1> HIDE DEF b
<1>3. w.messages \subseteq Message
  BY DEF Window
<1>4. FullForCause'
  BY <1>1, <1>2 DEF FullForCause, TurnOf, Oldest
<1> QED
  BY <1>1, <1>2, <1>3, <1>4

-----------------------------------------------------------------------------
(* The steps of the service.                                               *)

LEMMA LogGrows ==
  ASSUME TypeOK, NEW c \in Conversations, NEW row \in Row, Write(c, row)
  PROVE  \A d \in Conversations :
           /\ log'[d] \in Seq(Row) /\ Len(log[d]) <= Len(log'[d]) /\ Len(log[d]) \in Nat
           /\ DOMAIN log[d] = 1 .. Len(log[d]) /\ DOMAIN log'[d] = 1 .. Len(log'[d])
           /\ \A i \in 1 .. Len(log[d]) : log'[d][i] = log[d][i]
<1>1. log' = [log EXCEPT ![c] = Append(@, row)] /\ log \in [Conversations -> Seq(Row)]
  BY DEF Write, TypeOK
<1> SUFFICES ASSUME NEW d \in Conversations
             PROVE  /\ log'[d] \in Seq(Row) /\ Len(log[d]) <= Len(log'[d]) /\ Len(log[d]) \in Nat
                    /\ DOMAIN log[d] = 1 .. Len(log[d]) /\ DOMAIN log'[d] = 1 .. Len(log'[d])
                    /\ \A i \in 1 .. Len(log[d]) : log'[d][i] = log[d][i]
  OBVIOUS
<1>2. CASE d = c
  BY <1>1, <1>2
<1>3. CASE d # c
  BY <1>1, <1>3
<1> QED
  BY <1>2, <1>3

LEMMA WriteKeepsInv ==
  ASSUME WindowInv, NEW c \in Conversations, NEW row \in Row, Write(c, row)
  PROVE  WindowInv'
<1> DEFINE v == window.conversation
<1>1. /\ log' = [log EXCEPT ![c] = Append(@, row)]
      /\ UNCHANGED <<window, loads, evicted, seed>>
  BY DEF Write
<1>2. TypeOK /\ window \in Window /\ log \in [Conversations -> Seq(Row)]
  BY DEF WindowInv, TypeOK
<1>3. \A d \in Conversations :
         /\ log'[d] \in Seq(Row) /\ Len(log[d]) <= Len(log'[d]) /\ Len(log[d]) \in Nat
         /\ DOMAIN log[d] = 1 .. Len(log[d]) /\ DOMAIN log'[d] = 1 .. Len(log'[d])
         /\ \A i \in 1 .. Len(log[d]) : log'[d][i] = log[d][i]
  BY <1>2, LogGrows
<1>4. log' \in [Conversations -> Seq(Row)]
  BY <1>1, <1>2, <1>3
<1>5. TypeOK'
  BY <1>1, <1>2, <1>4 DEF TypeOK
<1>6. Placed'
  <2> SUFFICES ASSUME window.read
               PROVE  v # Nowhere /\ window.cursor <= Len(log'[v])
                      /\ window.token <= window.cursor /\ seed.at <= window.cursor
    BY <1>1 DEF Placed
  <2>1. v # Nowhere /\ window.cursor <= Len(log[v])
        /\ window.token <= window.cursor /\ seed.at <= window.cursor
    BY DEF WindowInv, Placed
  <2>2. v \in Conversations /\ window.cursor \in Nat
    BY <1>2, <2>1 DEF Window
  <2>3. Len(log[v]) <= Len(log'[v]) /\ Len(log[v]) \in Nat /\ Len(log'[v]) \in Nat
    BY <1>3, <2>2
  <2> QED
    BY <2>1, <2>2, <2>3
<1>7. NothingUnread' /\ CurrentLoads'
  BY <1>1 DEF WindowInv, NothingUnread, CurrentLoads
<1>8. window.read => v \in Conversations /\ window.cursor \in Nat /\ window.cursor <= Len(log[v])
  BY <1>2 DEF Window, WindowInv, Placed
<1>9. ASSUME window.read
      PROVE  \A i \in 1 .. window.cursor :
               i \in DOMAIN log[v] /\ i \in DOMAIN log'[v] /\ log'[v][i] = log[v][i]
  <2>1. Len(log[v]) \in Nat /\ Len(log'[v]) \in Nat /\ Len(log[v]) <= Len(log'[v])
        /\ DOMAIN log[v] = 1 .. Len(log[v]) /\ DOMAIN log'[v] = 1 .. Len(log'[v])
        /\ \A i \in 1 .. Len(log[v]) : log'[v][i] = log[v][i]
    BY <1>3, <1>8, <1>9
  <2> HIDE DEF v
  <2> QED
    BY <1>8, <1>9, <2>1
<1>10. ASSUME window.read, NEW i \in 1 .. window.cursor
       PROVE  IsMessage(v, i)' <=> IsMessage(v, i)
  BY <1>1, <1>9, <1>10 DEF IsMessage
<1>11. First(window.token) \in Nat /\ First(window.token) >= 1
  BY <1>2 DEF First, Window, NoToken
<1>12. ASSUME window.read
       PROVE  /\ Shown(v, First(window.token), window.cursor)' = Shown(v, First(window.token), window.cursor)
              /\ window.messages \cup evicted = Shown(v, First(window.token), window.cursor)
  <2>1. \A i \in First(window.token) .. window.cursor : i \in 1 .. window.cursor
    BY <1>8, <1>11, <1>12
  <2>2. \A i \in First(window.token) .. window.cursor : IsMessage(v, i)' <=> IsMessage(v, i)
    BY <1>10, <1>12, <2>1
  <2> QED
    BY <1>1, <1>12, <2>2, NothingMissingIsShown DEF Shown, WindowInv, First
<1>13. NothingMissing'
  <2> SUFFICES ASSUME window.read
               PROVE  window.messages \cup evicted
                        = Shown(v, First(window.token), window.cursor)'
    BY <1>1 DEF NothingMissing, Shown, First
  <2> QED
    BY <1>12
<1>14. ASSUME window.read, NEW m \in window.messages \cup evicted
       PROVE  TurnOf(m)' = TurnOf(m)
  <2>1. PICK i \in First(window.token) .. window.cursor : m = <<v, i>>
    BY <1>12, <1>14 DEF Shown
  <2>2. i \in 1 .. window.cursor
    BY <1>8, <1>11, <1>14, <2>1
  <2> QED
    BY <1>1, <1>9, <1>14, <2>1, <2>2 DEF TurnOf
<1>15. Heard'
  <2> DEFINE Told(i) == \/ log'[v][i].turn \in window.ended
                        \/ \E n \in evicted : log'[n[1]][n[2]].turn = log'[v][i].turn
  <2>1. ASSUME window.read, NEW i \in seed.at + 1 .. window.cursor, log'[v][i].end
        PROVE  Told(i)
    <3>1. i \in 1 .. window.cursor
      BY <1>2, <1>8, <2>1 DEF TypeOK
    <3>2. log'[v][i] = log[v][i]
      BY <1>9, <2>1, <3>1
    <3>3. \/ log[v][i].turn \in window.ended
          \/ \E n \in evicted : TurnOf(n) = log[v][i].turn
      BY <2>1, <3>2 DEF WindowInv, Heard
    <3> QED
      BY <1>14, <2>1, <3>2, <3>3 DEF TurnOf
  <2>2. window.read => \A i \in seed.at + 1 .. window.cursor : log'[v][i].end => Told(i)
    BY <2>1
  <2>3. window' = window /\ evicted' = evicted /\ seed' = seed
    BY <1>1
  <2> QED
    BY <2>2, <2>3, ZenonT(30) DEF Heard, TurnOf
<1>16. FullForCause'
  <2> SUFFICES ASSUME Cardinality(window.messages) > MaxMessages
               PROVE  TurnOf(Oldest(window.messages))' \notin window.ended \cup {NoTurn}
    BY <1>1 DEF FullForCause, TurnOf, Oldest
  <2>1. TurnOf(Oldest(window.messages)) \notin window.ended \cup {NoTurn}
    BY DEF WindowInv, FullForCause
  <2>2. window.messages # {}
    BY FS_EmptySet, WindowAssumption
  <2>3. window.read
    BY <2>2 DEF WindowInv, NothingUnread
  <2>4. Oldest(window.messages) \in window.messages
    BY <1>8, <1>11, <1>12, <2>2, <2>3, OldestIsThere
  <2>5. TurnOf(Oldest(window.messages))' = TurnOf(Oldest(window.messages))
    BY <1>1, <1>14, <2>3, <2>4 DEF Oldest
  <2> QED
    BY <2>1, <2>5
<1> QED
  BY <1>5, <1>6, <1>7, <1>13, <1>15, <1>16 DEF WindowInv

LEMMA RowsOfTheService ==
  ASSUME TypeOK, NEW c \in Conversations, NEW t \in LiveIn(c)
  PROVE  t \in Turns
<1>1. PICK i \in DOMAIN log[c] : t = log[c][i].turn /\ t # NoTurn
  BY DEF LiveIn, Begun
<1>2. log[c] \in Seq(Row)
  BY DEF TypeOK
<1>3. log[c][i] \in Row
  BY <1>1, <1>2
<1> QED
  BY <1>1, <1>3 DEF Row

LEMMA ServiceWrites ==
  ASSUME TypeOK, NEW c \in Conversations, Save(c) \/ End(c)
  PROVE  \E row \in Row :
           /\ Write(c, row)
           /\ \/ row.turn \in LiveIn(c) \cup {NoTurn}
              \/ LiveIn(c) = {} /\ row.turn = Cardinality(Begun(c)) + 1
<1>1. CASE Save(c)
  <2>1. PICK t \in LiveIn(c) \cup {NoTurn}
             \cup (IF LiveIn(c) = {} THEN {Cardinality(Begun(c)) + 1} \cap Turns ELSE {}) :
          Write(c, [turn |-> t, end |-> FALSE])
    BY <1>1 DEF Save
  <2>2. t \in Turns \cup {NoTurn}
    BY <2>1, RowsOfTheService
  <2>3. [turn |-> t, end |-> FALSE] \in Row
    BY <2>2 DEF Row
  <2> QED
    BY <2>1, <2>3
<1>2. CASE End(c)
  <2>1. PICK t \in LiveIn(c) : Write(c, [turn |-> t, end |-> TRUE])
    BY <1>2 DEF End
  <2>2. t \in Turns
    BY <2>1, RowsOfTheService
  <2>3. [turn |-> t, end |-> TRUE] \in Row
    BY <2>2 DEF Row, NoTurn, Turns
  <2> QED
    BY <2>1, <2>3
<1> QED
  BY <1>1, <1>2

LEMMA ServiceKeepsInv ==
  ASSUME WindowInv, NEW c \in Conversations, Save(c) \/ End(c)
  PROVE  WindowInv'
BY ServiceWrites, WriteKeepsInv DEF WindowInv

-----------------------------------------------------------------------------
(* The steps of the page.                                                  *)

LEMMA ShownIsMessages ==
  ASSUME NEW c \in Conversations, NEW from \in Nat, NEW to \in Nat
  PROVE  Shown(c, from, to) \subseteq Message
BY DEF Shown, Message

LEMMA ReadTailKeepsInv ==
  ASSUME WindowInv, ReadTail
  PROVE  WindowInv'
<1> DEFINE c  == window.conversation
           at == Len(log[c])
           token == NextToken(c, at + 1)
           w  == [window EXCEPT !.read = TRUE, !.messages = PageOf(c, at + 1),
                    !.cursor = at, !.token = token, !.full = FALSE]
<1>1. /\ c # Nowhere /\ ~window.read /\ Become(w)
      /\ seed' = [at |-> at, token |-> token]
      /\ log' = log /\ loads' = loads
  BY DEF ReadTail
<1>2. window \in Window /\ log \in [Conversations -> Seq(Row)] /\ loads \subseteq Load
  BY DEF WindowInv, TypeOK
<1>3. c \in Conversations
  BY <1>1, <1>2 DEF Window
<1>4. at \in Nat
  BY <1>2, <1>3
<1>5. /\ token \in Nat /\ (token # NoToken => token \in 1 .. at)
      /\ PageOf(c, at + 1) = Shown(c, First(token), at)
  <2> DEFINE place == at + 1
  <2> HIDE DEF c, at
  <2>1. place \in Nat /\ place - 1 = at
    BY <1>4
  <2> HIDE DEF place
  <2>2. /\ NextToken(c, place) \in Nat
        /\ NextToken(c, place) # NoToken => NextToken(c, place) \in 1 .. place - 1
        /\ PageOf(c, place) = Shown(c, First(NextToken(c, place)), place - 1)
    BY <1>3, <2>1, PageCovers
  <2> QED
    BY <2>1, <2>2 DEF place
<1>6. First(token) \in Nat
  BY <1>5 DEF First
<1>7. evicted = {} /\ window.messages = {}
  BY <1>1 DEF WindowInv, NothingUnread
<1>8. /\ w \in Window /\ w.messages = Shown(c, First(token), at) /\ w.cursor = at
      /\ w.token = token /\ w.read = TRUE /\ w.conversation = c
  <2> HIDE DEF token, at
  <2>1. PageOf(c, at + 1) = Shown(c, First(token), at)
    BY <1>5
  <2>2. PageOf(c, at + 1) \subseteq Message
    BY <1>3, <1>4, <1>6, <2>1, ShownIsMessages
  <2> QED
    BY <1>2, <1>3, <1>4, <1>5, <2>1, <2>2 DEF Window
<1> HIDE DEF w, token, at, c
<1>9. /\ window' \in Window
      /\ window' = [w EXCEPT !.messages = window'.messages, !.ended = window'.ended]
      /\ window'.messages \cup evicted' = w.messages \cup evicted
      /\ evicted \subseteq evicted' /\ evicted' \subseteq Message
      /\ FullForCause'
  BY <1>1, <1>3, <1>6, <1>7, <1>8, BecomeFacts
<1>10. /\ window'.conversation = c /\ window'.read = TRUE /\ window'.cursor = at
       /\ window'.token = token
  BY <1>8, <1>9 DEF Window
<1>11. TypeOK'
  <2>1. seed' \in [at : Nat, token : Nat]
    BY <1>1, <1>4, <1>5
  <2> QED
    BY <1>1, <1>2, <1>9, <2>1 DEF TypeOK
<1>12. Placed'
  <2>1. token <= at
    BY <1>4, <1>5 DEF NoToken
  <2>2. log' = log /\ seed'.at = at /\ c # Nowhere /\ at <= at /\ at = Len(log[c])
    BY <1>1, <1>4 DEF at
  <2> QED
    BY <1>10, <2>1, <2>2 DEF Placed
<1>13. NothingUnread'
  BY <1>10 DEF NothingUnread
<1>14. CurrentLoads'
  <2>1. \A l \in loads : (window.conversation = Nowhere \/ l.conversation <= c) /\ l.conversation # c
    BY <1>1 DEF WindowInv, CurrentLoads, c
  <2> QED
    BY <1>1, <1>10, <2>1 DEF CurrentLoads, c
<1>15. NothingMissing'
  <2>1. window'.messages \cup evicted' = Shown(c, First(token), at)
    BY <1>7, <1>8, <1>9
  <2> QED
    BY <1>1, <1>10, <2>1 DEF NothingMissing, Shown, First, IsMessage
<1>16. Heard'
  <2>1. \A i : i \notin at + 1 .. at
    BY <1>4
  <2> QED
    BY <1>1, <1>10, <2>1 DEF Heard
<1> QED
  BY <1>9, <1>11, <1>12, <1>13, <1>14, <1>15, <1>16 DEF WindowInv

LEMMA ReceiveKeepsInv ==
  ASSUME WindowInv, NEW n \in Nat, Receive(n)
  PROVE  WindowInv'
<1> DEFINE c    == window.conversation
           from == First(window.token)
           to   == window.cursor + n
           rows == window.cursor + 1 .. to
           new  == {<<c, i>> : i \in {j \in rows : IsMessage(c, j)}}
           over == {log[c][i].turn : i \in {j \in rows : log[c][j].end}}
           messages == window.messages \cup new
           ended    == window.ended \cup over
           w == [window EXCEPT !.messages = messages, !.ended = ended, !.cursor = to]
<1>1. /\ window.read /\ to <= Len(log[c]) /\ Become(w)
      /\ log' = log /\ loads' = loads /\ seed' = seed
  <2>1. w = [window EXCEPT
               !.messages = @ \cup {<<c, i>> : i \in {j \in rows : IsMessage(c, j)}},
               !.ended    = @ \cup {log[c][i].turn : i \in {j \in rows : log[c][j].end}},
               !.cursor   = @ + n]
    BY DEF WindowInv, TypeOK, Window
  <2> HIDE DEF w
  <2> QED
    BY <2>1 DEF Receive
<1>2. /\ window \in Window /\ log \in [Conversations -> Seq(Row)] /\ loads \subseteq Load
      /\ evicted \subseteq Message /\ seed \in [at : Nat, token : Nat]
  BY DEF WindowInv, TypeOK
<1>3. /\ c # Nowhere /\ c \in Conversations /\ window.cursor <= Len(log[c])
      /\ window.token <= window.cursor /\ seed.at <= window.cursor
  BY <1>1, <1>2 DEF WindowInv, Placed, Window
<1>4. window.cursor \in Nat /\ window.token \in Nat /\ to \in Nat /\ Len(log[c]) \in Nat
  BY <1>2, <1>3 DEF Window
<1>5. from \in Nat /\ from <= window.cursor + 1 /\ 1 <= from
  BY <1>3, <1>4 DEF First, NoToken
<1>6. window.messages \cup evicted = Shown(c, from, window.cursor)
  BY <1>1, NothingMissingIsShown DEF WindowInv
<1>7. log[c] \in Seq(Row) /\ DOMAIN log[c] = 1 .. Len(log[c])
  BY <1>2, <1>3
<1>8. \A i \in rows : i \in DOMAIN log[c]
  <2> HIDE DEF c
  <2> QED
    BY <1>1, <1>4, <1>7
<1>9. over \subseteq Turns
  <2> SUFFICES ASSUME NEW i \in rows, log[c][i].end PROVE log[c][i].turn \in Turns
    OBVIOUS
  <2>1. log[c][i] \in Row
    BY <1>7, <1>8
  <2> QED
    BY <2>1 DEF Row
<1>10. new = Shown(c, window.cursor + 1, to) /\ new \subseteq Message
  <2>1. window.cursor + 1 \in Nat
    BY <1>4
  <2>2. new = Shown(c, window.cursor + 1, to)
    BY DEF Shown
  <2> HIDE DEF new, to
  <2> QED
    BY <1>3, <1>4, <2>1, <2>2, ShownIsMessages
<1>11. Shown(c, from, to) = Shown(c, from, window.cursor) \cup new
  <2>1. \A i : i \in from .. to <=> i \in from .. window.cursor \/ i \in rows
    <3> HIDE DEF c, from
    <3> QED
      BY <1>4, <1>5
  <2> HIDE DEF c, from, to, rows
  <2> QED
    BY <2>1 DEF Shown
<1>12. messages \cup evicted = Shown(c, from, to)
  <2> HIDE DEF new
  <2> QED
    BY <1>6, <1>11
<1> HIDE DEF new, over
<1>13. messages \subseteq Message /\ ended \subseteq Turns
  BY <1>2, <1>9, <1>10 DEF Window
<1> HIDE DEF messages, ended, to, rows
<1>14. /\ w \in Window /\ w.messages = messages /\ w.cursor = to /\ w.ended = ended
       /\ w.token = window.token /\ w.read = TRUE /\ w.conversation = c
  BY <1>1, <1>2, <1>4, <1>13 DEF Window
<1> HIDE DEF c, from, w
<1>15. /\ window' \in Window
       /\ window' = [w EXCEPT !.messages = window'.messages, !.ended = window'.ended]
       /\ window'.messages \cup evicted' = w.messages \cup evicted
       /\ evicted \subseteq evicted' /\ evicted' \subseteq Message
       /\ \A t \in w.ended : t \in window'.ended \/ \E m \in evicted' : TurnOf(m) = t
       /\ FullForCause'
  <2>1. w.messages \subseteq Shown(c, from, w.cursor)
    BY <1>12, <1>14
  <2> QED
    BY <1>1, <1>2, <1>3, <1>5, <1>14, <2>1, BecomeFacts
<1>16. /\ window'.conversation = c /\ window'.read = TRUE /\ window'.cursor = to
       /\ window'.token = window.token
  BY <1>14, <1>15 DEF Window
<1>17. TypeOK'
  BY <1>1, <1>2, <1>15 DEF TypeOK
<1>18. window.cursor <= to
  BY <1>4 DEF to
<1>19. Placed'
  <2>1. window.token <= to /\ seed.at <= to
    BY <1>2, <1>3, <1>4, <1>18
  <2> QED
    BY <1>1, <1>3, <1>16, <2>1 DEF Placed
<1>20. NothingUnread'
  BY <1>16 DEF NothingUnread
<1>21. CurrentLoads'
  BY <1>1, <1>16 DEF WindowInv, CurrentLoads, c
<1>22. NothingMissing'
  <2>1. window'.messages \cup evicted' = Shown(c, from, to)
    BY <1>12, <1>14, <1>15
  <2> QED
    BY <1>1, <1>16, <2>1 DEF NothingMissing, Shown, First, IsMessage, from
<1>23. Heard'
  <2> DEFINE Told(i) == log[c][i].turn \in window'.ended \/ \E m \in evicted' : TurnOf(m) = log[c][i].turn
  <2>1. ASSUME NEW i \in seed.at + 1 .. to, log[c][i].end
        PROVE  Told(i)
    <3>1. CASE i \in rows
      <4>1. log[c][i].turn \in over
        BY <2>1, <3>1 DEF over
      <4> QED
        BY <1>14, <1>15, <4>1 DEF ended
    <3>2. CASE i \notin rows
      <4>1. i \in seed.at + 1 .. window.cursor
        BY <1>2, <1>4, <2>1, <3>2 DEF rows
      <4>2. log[c][i].turn \in window.ended \/ \E m \in evicted : TurnOf(m) = log[c][i].turn
        BY <1>1, <2>1, <4>1 DEF WindowInv, Heard, c
      <4>3. window.ended \subseteq w.ended
        BY <1>14 DEF ended
      <4> QED
        BY <1>15, <4>2, <4>3
    <3> QED
      BY <3>1, <3>2
  <2>2. \A i \in seed.at + 1 .. to : log[c][i].end => Told(i)
    BY <2>1
  <2> QED
    BY <1>1, <1>16, <2>2 DEF Heard, TurnOf
<1> QED
  BY <1>15, <1>17, <1>19, <1>20, <1>21, <1>22, <1>23 DEF WindowInv

(* The loading of history: the window is not cut, and its cursor and the   *)
(* ends it knows of stay.                                                  *)
LEMMA FieldsOnly ==
  ASSUME WindowInv, UNCHANGED <<log, evicted, seed>>, window' \in Window, loads' \subseteq loads,
         window'.conversation = window.conversation, window'.read = window.read,
         window'.messages = window.messages, window'.ended = window.ended,
         window'.cursor = window.cursor, window'.token = window.token
  PROVE  WindowInv'
<1>1. TypeOK' /\ Placed' /\ NothingUnread' /\ CurrentLoads'
  BY DEF WindowInv, TypeOK, Placed, NothingUnread, CurrentLoads
<1>2. NothingMissing'
  BY DEF WindowInv, NothingMissing, IsMessage
<1>3. Heard'
  BY DEF WindowInv, Heard, TurnOf
<1>4. FullForCause'
  BY DEF WindowInv, FullForCause, TurnOf, Oldest
<1> QED
  BY <1>1, <1>2, <1>3, <1>4 DEF WindowInv

LEMMA LoadEarlierKeepsInv ==
  ASSUME WindowInv, LoadEarlier
  PROVE  WindowInv'
<1> DEFINE l == [conversation |-> window.conversation, token |-> window.token]
<1>1. /\ window.read /\ window.token # NoToken
      /\ window' = [window EXCEPT !.loading = TRUE]
      /\ loads' = loads \cup {l}
      /\ log' = log /\ evicted' = evicted /\ seed' = seed
  BY DEF LoadEarlier
<1>2. window \in Window /\ loads \subseteq Load
  BY DEF WindowInv, TypeOK
<1>3. window.conversation \in Conversations /\ window.conversation # Nowhere
  BY <1>1, <1>2 DEF Window, WindowInv, Placed
<1>4. l \in Load
  BY <1>2, <1>3 DEF Load, Window
<1>5. /\ window' \in Window
      /\ window'.conversation = window.conversation /\ window'.read = window.read
      /\ window'.messages = window.messages /\ window'.ended = window.ended
      /\ window'.cursor = window.cursor /\ window'.token = window.token
  BY <1>1, <1>2 DEF Window
<1>6. TypeOK' /\ Placed' /\ NothingUnread'
  BY <1>1, <1>2, <1>4, <1>5 DEF WindowInv, TypeOK, Placed, NothingUnread
<1>7. CurrentLoads'
  <2>1. window.conversation <= window.conversation
    BY <1>3 DEF Conversations
  <2>2. l.conversation = window.conversation /\ l.token = window.token
    OBVIOUS
  <2> HIDE DEF l
  <2> QED
    BY <1>1, <1>5, <2>1, <2>2 DEF WindowInv, CurrentLoads
<1>8. NothingMissing'
  BY <1>1, <1>5 DEF WindowInv, NothingMissing, IsMessage
<1>9. Heard'
  BY <1>1, <1>5 DEF WindowInv, Heard, TurnOf
<1>10. FullForCause'
  BY <1>1, <1>5 DEF WindowInv, FullForCause, TurnOf, Oldest
<1> QED
  BY <1>6, <1>7, <1>8, <1>9, <1>10 DEF WindowInv

LEMMA NotLoadedKeepsInv ==
  ASSUME WindowInv, NEW l \in loads, NotLoaded(l)
  PROVE  WindowInv'
<1>1. PICK denied \in BOOLEAN :
        window' = [window EXCEPT !.loading = FALSE, !.denied = @ \/ denied]
  BY DEF NotLoaded
<1>2. loads' = loads \ {l} /\ UNCHANGED <<log, evicted, seed>>
  BY DEF NotLoaded
<1>3. window \in Window
  BY DEF WindowInv, TypeOK
<1> DEFINE d == window.denied \/ denied
<1>4. d \in BOOLEAN
  OBVIOUS
<1>5. window' = [window EXCEPT !.loading = FALSE, !.denied = d]
  BY <1>1
<1> HIDE DEF d
<1>6. /\ window' \in Window
      /\ window'.conversation = window.conversation /\ window'.read = window.read
      /\ window'.messages = window.messages /\ window'.ended = window.ended
      /\ window'.cursor = window.cursor /\ window'.token = window.token
  BY <1>3, <1>4, <1>5 DEF Window
<1>7. loads' \subseteq loads
  BY <1>2
<1> QED
  BY <1>2, <1>6, <1>7, FieldsOnly

(* A page that is merged ends where the window begins.                     *)
LEMMA LoadedKeepsInv ==
  ASSUME WindowInv, NEW l \in loads, Loaded(l)
  PROVE  WindowInv'
<1> DEFINE c     == window.conversation
           page  == PageOf(l.conversation, l.token)
           token == NextToken(l.conversation, l.token)
           M     == window.messages \cup page
<1>1. /\ window' = IF l.conversation = c THEN Merge(window, l) ELSE window
      /\ loads' = loads \ {l} /\ log' = log /\ evicted' = evicted /\ seed' = seed
  BY DEF Loaded
<1>2. /\ window \in Window /\ loads \subseteq Load /\ evicted \subseteq Message
      /\ log \in [Conversations -> Seq(Row)] /\ seed \in [at : Nat, token : Nat]
  BY DEF WindowInv, TypeOK
<1>3. CASE l.conversation # c
  <2>1. window' = window /\ loads' \subseteq loads
    BY <1>1, <1>3
  <2> QED
    BY <1>1, <1>2, <2>1, FieldsOnly
<1>4. CASE l.conversation = c /\ ~Room(window, page)
  <2>1. window' = [window EXCEPT !.full = TRUE, !.loading = FALSE] /\ loads' \subseteq loads
    BY <1>1, <1>4 DEF Merge
  <2>2. /\ window' \in Window
        /\ window'.conversation = window.conversation /\ window'.read = window.read
        /\ window'.messages = window.messages /\ window'.ended = window.ended
        /\ window'.cursor = window.cursor /\ window'.token = window.token
    BY <1>2, <2>1 DEF Window
  <2> QED
    BY <1>1, <2>1, <2>2, FieldsOnly
<1>5. CASE l.conversation = c /\ Room(window, page)
  <2>1. l \in Load /\ c \in Conversations /\ c # Nowhere /\ l.token \in Nat
    BY <1>2, <1>5 DEF Load, Conversations, Nowhere
  <2>2. window.read /\ l.token = window.token /\ l.token # NoToken
    BY <1>5 DEF WindowInv, CurrentLoads
  <2>3. window' = [window EXCEPT !.messages = M, !.loading = FALSE, !.token = token]
    BY <1>1, <1>5 DEF Merge
  <2>4. window.cursor \in Nat /\ window.token <= window.cursor /\ window.messages \subseteq Message
    BY <1>2, <2>2 DEF Window, WindowInv, Placed
  <2>5. /\ token \in Nat /\ (token # NoToken => token \in 1 .. l.token - 1)
        /\ page = Shown(c, First(token), l.token - 1)
    BY <1>5, <2>1, PageCovers
  <2>6. First(token) \in Nat /\ 1 <= First(token) /\ First(token) <= l.token
        /\ token <= window.cursor /\ l.token - 1 \in Nat
    BY <2>1, <2>2, <2>4, <2>5 DEF First, NoToken
  <2>7. window.messages \cup evicted = Shown(c, l.token, window.cursor)
    BY <2>2, NothingMissingIsShown DEF WindowInv, First
  <2> HIDE DEF token, page, c
  <2>8. Shown(c, First(token), window.cursor)
          = Shown(c, l.token, window.cursor) \cup Shown(c, First(token), l.token - 1)
    <3> DEFINE first == First(token)
    <3> HIDE DEF first
    <3>1. \A i : i \in first .. window.cursor
                  <=> i \in l.token .. window.cursor \/ i \in first .. l.token - 1
      BY <2>1, <2>2, <2>4, <2>6 DEF first
    <3> QED
      BY <3>1 DEF Shown, first
  <2>9. M \subseteq Message
    BY <2>1, <2>4, <2>5, <2>6, ShownIsMessages
  <2>10. M \cup evicted = Shown(c, First(token), window.cursor)
    BY <2>5, <2>7, <2>8
  <2>11. Cardinality(M) <= MaxMessages /\ Cardinality(M) \in Nat
    <3>1. Cardinality(M) <= MaxMessages
      BY <1>5 DEF Room
    <3>2. M \subseteq Shown(c, First(token), window.cursor)
      BY <2>10
    <3> HIDE DEF M
    <3>3. Cardinality(M) \in Nat
      BY <2>1, <2>4, <2>6, <3>2, ShownIsFinite
    <3> QED
      BY <3>1, <3>3
  <2> HIDE DEF M
  <2>12. /\ window' \in Window
         /\ window'.conversation = c /\ window'.read = window.read
         /\ window'.messages = M /\ window'.ended = window.ended
         /\ window'.cursor = window.cursor /\ window'.token = token
    BY <1>2, <2>3, <2>5, <2>9 DEF Window, c
  <2>13. TypeOK' /\ Placed' /\ NothingUnread'
    BY <1>1, <1>2, <2>2, <2>6, <2>12 DEF WindowInv, TypeOK, Placed, NothingUnread, c
  <2>14. CurrentLoads'
    <3>1. ASSUME NEW k \in loads', k.conversation = c
          PROVE  FALSE
      <4>1. k.token = window.token /\ k \in Load /\ k # l
        BY <1>1, <1>2, <3>1 DEF WindowInv, CurrentLoads, c
      <4> QED
        BY <1>5, <2>1, <2>2, <3>1, <4>1 DEF Load
    <3>2. loads' \subseteq loads
      BY <1>1
    <3> QED
      BY <2>12, <3>1, <3>2 DEF WindowInv, CurrentLoads, c
  <2>15. NothingMissing'
    <3>1. window'.messages \cup evicted' = Shown(c, First(token), window.cursor)
      BY <1>1, <2>10, <2>12
    <3> QED
      BY <1>1, <2>12, <3>1 DEF NothingMissing, Shown, First, IsMessage
  <2>16. Heard'
    BY <1>1, <2>12 DEF WindowInv, Heard, TurnOf, c
  <2>17. FullForCause'
    <3>1. ~(Cardinality(M) > MaxMessages)
      BY <2>11, WindowAssumption
    <3> QED
      BY <2>12, <3>1 DEF FullForCause
  <2> QED
    BY <2>13, <2>14, <2>15, <2>16, <2>17 DEF WindowInv
<1> QED
  BY <1>3, <1>4, <1>5

LEMMA EmptyKeepsInv ==
  ASSUME WindowInv, NEW c \in Conversations \cup {Nowhere},
         window' \in Window, ~window'.read, window'.messages = {}, window'.conversation = c,
         evicted' = {}, UNCHANGED <<log, seed>>, loads' \subseteq loads,
         c # Nowhere => \A l \in loads : l.conversation < c
  PROVE  WindowInv'
<1>1. TypeOK'
  BY DEF WindowInv, TypeOK
<1>2. CurrentLoads'
  <2>1. \A l \in loads : l.conversation \in Conversations /\ l.conversation # Nowhere
    BY DEF WindowInv, TypeOK, Load, Conversations, Nowhere
  <2>2. ASSUME NEW l \in loads, c # Nowhere
        PROVE  l.conversation <= c /\ l.conversation # c
    <3>1. l.conversation \in Nat /\ c \in Nat /\ l.conversation < c
      BY <2>1, <2>2 DEF Conversations
    <3> QED
      BY <3>1
  <2> QED
    BY <2>1, <2>2 DEF CurrentLoads
<1>3. FullForCause'
  <2>1. ~(Cardinality({}) > MaxMessages)
    BY FS_EmptySet, WindowAssumption
  <2> QED
    BY <2>1 DEF FullForCause
<1> QED
  BY <1>1, <1>2, <1>3 DEF WindowInv, Placed, NothingUnread, NothingMissing, Heard

LEMMA NotFoundKeepsInv ==
  ASSUME WindowInv, NEW l \in loads, NotFound(l)
  PROVE  WindowInv'
<1>1. /\ window' = [Empty(Nowhere) EXCEPT !.denied = window.denied]
      /\ loads' \subseteq loads /\ evicted' = {} /\ UNCHANGED <<log, seed>>
  BY DEF NotFound
<1>2. window.denied \in BOOLEAN
  BY DEF WindowInv, TypeOK, Window
<1>3. window' \in Window /\ ~window'.read /\ window'.messages = {} /\ window'.conversation = Nowhere
  BY <1>1, <1>2 DEF Empty, Window, NoToken
<1> QED
  BY <1>1, <1>3, EmptyKeepsInv

LEMMA StartOverKeepsInv ==
  ASSUME WindowInv, StartOver
  PROVE  WindowInv'
<1> DEFINE c == window.conversation + 1
<1>1. /\ window.conversation \in 1 .. MaxConversations - 1 /\ window' = Empty(c)
      /\ evicted' = {} /\ log' = log /\ seed' = seed /\ loads' = loads
  BY DEF StartOver
<1>2. c \in Conversations /\ c # Nowhere /\ window.conversation # Nowhere
      /\ window.conversation \in Nat
  BY <1>1, WindowAssumption DEF Conversations, Nowhere
<1>3. \A l \in loads : l.conversation < c
  <2> SUFFICES ASSUME NEW l \in loads PROVE l.conversation < c
    OBVIOUS
  <2>1. l.conversation <= window.conversation
    BY <1>2 DEF WindowInv, CurrentLoads
  <2>2. l.conversation \in Nat
    BY DEF WindowInv, TypeOK, Load, Conversations
  <2> QED
    BY <1>2, <2>1, <2>2
<1> HIDE DEF c
<1>4. window' \in Window /\ ~window'.read /\ window'.messages = {} /\ window'.conversation = c
  BY <1>1, <1>2 DEF Empty, Window, NoToken
<1> QED
  BY <1>1, <1>2, <1>3, <1>4, EmptyKeepsInv

-----------------------------------------------------------------------------
(* Theorems.                                                               *)

(* WindowInv holds at first and is preserved by every step.                *)
LEMMA WindowInvariant ==
  Spec => []WindowInv
<1>1. Init => WindowInv
  BY WindowInvAtFirst
<1>2. WindowInv /\ [Next]_vars => WindowInv'
  <2> SUFFICES ASSUME WindowInv, [Next]_vars PROVE WindowInv'
    OBVIOUS
  <2>1. ASSUME NEW c \in Conversations, Save(c) \/ End(c) PROVE WindowInv'
    BY <2>1, ServiceKeepsInv
  <2>2. CASE Page
    <3>1. ASSUME NEW n \in 1 .. MaxFrame, Receive(n) PROVE WindowInv'
      <4>1. n \in Nat
        BY WindowAssumption
      <4> QED
        BY <3>1, <4>1, ReceiveKeepsInv
    <3> QED
      BY <2>2, <3>1, ReadTailKeepsInv, LoadEarlierKeepsInv, StartOverKeepsInv DEF Page
  <2>3. ASSUME NEW l \in loads, Loaded(l) \/ NotLoaded(l) \/ NotFound(l) PROVE WindowInv'
    BY <2>3, LoadedKeepsInv, NotLoadedKeepsInv, NotFoundKeepsInv
  <2>4. CASE UNCHANGED vars
    <3>1. log' = log /\ window' = window /\ loads' = loads /\ evicted' = evicted /\ seed' = seed
      BY <2>4 DEF vars
    <3> QED
      BY <3>1, FieldsOnly DEF WindowInv, TypeOK
  <2> QED
    BY <2>1, <2>2, <2>3, <2>4 DEF Next
<1> QED
  BY <1>1, <1>2, PTL DEF Spec

(* The log, the window, the pages of history on their way and what was     *)
(* evicted are what they are said to be, for any bounds.                   *)
THEOREM WindowTypeOK ==
  Spec => []TypeOK
<1>1. WindowInv => TypeOK
  BY DEF WindowInv
<1> QED
  BY <1>1, WindowInvariant, PTL

(* Between the place from which earlier messages are still to be read and  *)
(* the stream's position a page shows every message but those it evicted,  *)
(* and none of a Conversation it has left, whatever the bounds: first read,*)
(* frames, pages of history and start overs in any order.                  *)
THEOREM NothingIsMissing ==
  Spec => []NothingMissing
<1>1. WindowInv => NothingMissing
  BY DEF WindowInv
<1> QED
  BY <1>1, WindowInvariant, PTL

(* The window exceeds its bound only for a Turn of which it has received   *)
(* no end, or of which it has already evicted messages.                    *)
THEOREM BoundHoldsButForCause ==
  Spec => []BoundIsExceededForCause
<1>1. WindowInv => BoundIsExceededForCause
  <2> DEFINE t == TurnOf(Oldest(window.messages))
  <2> SUFFICES ASSUME WindowInv, Cardinality(window.messages) > MaxMessages,
                      ~(\E n \in evicted : TurnOf(n) = t /\ t # NoTurn)
               PROVE  /\ t # NoTurn
                      /\ EndsAt(window.conversation, t) \cap (seed.at + 1 .. window.cursor) = {}
    BY DEF BoundIsExceededForCause
  <2> HIDE DEF t
  <2>1. t \notin window.ended /\ t # NoTurn
    BY DEF WindowInv, FullForCause, t
  <2>2. window.read
    BY FS_EmptySet, WindowAssumption DEF WindowInv, NothingUnread
  <2>3. ASSUME NEW i \in seed.at + 1 .. window.cursor, i \in EndsAt(window.conversation, t)
        PROVE  FALSE
    <3>1. log[window.conversation][i] = [turn |-> t, end |-> TRUE]
      BY <2>3 DEF EndsAt
    <3>2. log[window.conversation][i].turn = t /\ log[window.conversation][i].end
      BY <3>1
    <3> QED
      BY <2>1, <2>2, <3>2 DEF WindowInv, Heard
  <2> QED
    BY <2>1, <2>3
<1> QED
  BY <1>1, WindowInvariant, PTL

(* A page of earlier messages that arrives when the stream has filled the  *)
(* window in the meantime is not merged: no request for history takes the  *)
(* window past its bound.                                                  *)
THEOREM HistoryStaysWithinBound ==
  Spec => MergeWithinBound
<1> DEFINE Step == \A l \in loads \ loads' :
             window'.messages # window.messages => Cardinality(window'.messages) <= MaxMessages
<1>1. WindowInv /\ [Next]_vars => [Step]_vars
  <2> SUFFICES ASSUME WindowInv, Next, NEW k \in loads \ loads', window'.messages # window.messages
               PROVE  Cardinality(window'.messages) <= MaxMessages
    OBVIOUS
  <2>1. PICK l \in loads : Loaded(l) \/ NotLoaded(l) \/ NotFound(l)
    BY DEF Next, Page, Save, End, Write, ReadTail, LoadEarlier, StartOver, Receive
  <2>2. window \in Window
    BY DEF WindowInv, TypeOK
  <2>3. ~NotLoaded(l)
    BY <2>2 DEF NotLoaded, Window
  <2>4. CASE NotFound(l)
    <3>1. window'.messages = {}
      BY <2>4 DEF NotFound, Empty
    <3> QED
      BY <3>1, FS_EmptySet, WindowAssumption
  <2>5. CASE Loaded(l)
    <3>1. window' = Merge(window, l)
      BY <2>5 DEF Loaded
    <3>2. Room(window, PageOf(l.conversation, l.token))
      BY <2>2, <3>1 DEF Merge, Window
    <3>3. window'.messages = window.messages \cup PageOf(l.conversation, l.token)
      BY <2>2, <3>1, <3>2 DEF Merge, Window
    <3> QED
      BY <3>2, <3>3 DEF Room
  <2> QED
    BY <2>1, <2>3, <2>4, <2>5
<1> QED
  BY <1>1, WindowInvariant, PTL DEF Spec, MergeWithinBound

-----------------------------------------------------------------------------
(* A Turn that is cut is over, and goes as a whole.                        *)

(* Turns are numbered as they begin, and nothing of one follows its end.   *)
TurnsInOrder ==
  \A c \in Conversations :
    /\ \E k \in Nat : Begun(c) = 1 .. k
    /\ \A e, i \in DOMAIN log[c] :
         log[c][e].end /\ e < i => log[c][i].turn # log[c][e].turn

(* The page has received everything up to the end of the Turn.             *)
OverAt(t) == \E e \in EndsAt(window.conversation, t) : e <= window.cursor

(* The Turns that are known to be over, or were evicted, have ended; and   *)
(* of one that was evicted only what was earlier than the window that was  *)
(* read can be loaded again.                                               *)
WholeInv ==
  /\ ~window.read => window.ended = {}
  /\ window.read =>
       /\ window.token <= seed.token
       /\ \A t \in window.ended : OverAt(t)
       /\ \A n \in evicted :
            TurnOf(n) # NoTurn =>
              /\ OverAt(TurnOf(n))
              /\ \A m \in window.messages : TurnOf(m) = TurnOf(n) =>
                   \E i \in Before(window.conversation, seed.token) :
                     TurnOf(<<window.conversation, i>>) = TurnOf(n)

LEMMA ServiceKeepsOrder ==
  ASSUME TypeOK, TurnsInOrder, NEW c \in Conversations, Save(c) \/ End(c)
  PROVE  TurnsInOrder'
<1>1. PICK row \in Row :
        /\ Write(c, row)
        /\ \/ row.turn \in LiveIn(c) \cup {NoTurn}
           \/ LiveIn(c) = {} /\ row.turn = Cardinality(Begun(c)) + 1
  BY ServiceWrites
<1>2. log' = [log EXCEPT ![c] = Append(@, row)] /\ log \in [Conversations -> Seq(Row)]
  BY <1>1 DEF Write, TypeOK
<1>3. \A d \in Conversations : d # c => log'[d] = log[d]
  BY <1>2
<1> DEFINE n == Len(log[c])
<1>4. /\ n \in Nat /\ DOMAIN log[c] = 1 .. n /\ DOMAIN log'[c] = 1 .. n + 1
      /\ log'[c][n + 1] = row
      /\ \A i \in 1 .. n : log'[c][i] = log[c][i] /\ log[c][i] \in Row
  <2>1. log[c] \in Seq(Row) /\ log'[c] = Append(log[c], row)
    BY <1>2
  <2> QED
    BY <2>1
<1> HIDE DEF n
<1>5. PICK k \in Nat : Begun(c) = 1 .. k
  BY DEF TurnsInOrder
<1>6. Cardinality(Begun(c)) = k
  <2>1. 1 \in Int /\ k \in Int
    OBVIOUS
  <2>2. Cardinality(1 .. k) = IF 1 > k THEN 0 ELSE k - 1 + 1
    BY <2>1, FS_Interval
  <2> QED
    BY <1>5, <2>2
<1>7. \A i \in 1 .. n + 1 : i \in 1 .. n \/ i = n + 1
  BY <1>4
<1>8. Begun(c)' = (Begun(c) \cup {row.turn}) \ {NoTurn}
  <2>1. n + 1 \in 1 .. n + 1 /\ \A i \in 1 .. n : i \in 1 .. n + 1
    BY <1>4
  <2>2. {log'[c][i].turn : i \in 1 .. n + 1} = {log[c][i].turn : i \in 1 .. n} \cup {row.turn}
    BY <1>4, <1>7, <2>1
  <2> QED
    BY <1>4, <2>2 DEF Begun
<1>9. \E j \in Nat : Begun(c)' = 1 .. j
  <2>1. CASE row.turn \in LiveIn(c) \cup {NoTurn}
    <3>1. row.turn \in Begun(c) \/ row.turn = NoTurn
      BY <2>1 DEF LiveIn
    <3>2. Begun(c)' = Begun(c)
      BY <1>8, <3>1 DEF Begun
    <3> QED
      BY <1>5, <3>2
  <2>2. CASE row.turn = Cardinality(Begun(c)) + 1
    <3>1. Begun(c)' = 1 .. k + 1
      BY <1>5, <1>6, <1>8, <2>2 DEF NoTurn
    <3> QED
      BY <3>1
  <2> QED
    BY <1>1, <2>1, <2>2
<1>10. ASSUME NEW e \in 1 .. n, log[c][e].end
       PROVE  row.turn # log[c][e].turn
  <2> DEFINE t == log[c][e].turn
  <2>1. log[c][e] = [turn |-> t, end |-> TRUE] /\ t # NoTurn /\ t \in Turns
    BY <1>4, <1>10 DEF Row
  <2>2. e \in EndsAt(c, t)
    BY <1>4, <2>1 DEF EndsAt
  <2>3. t \notin LiveIn(c)
    BY <2>2 DEF LiveIn
  <2>4. t \in Begun(c)
    BY <1>4, <2>1 DEF Begun
  <2>5. t <= k /\ t \in Nat
    BY <1>5, <2>4
  <2> HIDE DEF t
  <2>6. row.turn # t
    BY <1>1, <1>6, <2>1, <2>3, <2>5
  <2> QED
    BY <2>6 DEF t
<1>11. ASSUME NEW e \in DOMAIN log'[c], NEW i \in DOMAIN log'[c], log'[c][e].end, e < i
       PROVE  log'[c][i].turn # log'[c][e].turn
  <2>1. e \in 1 .. n
    BY <1>4, <1>11
  <2>2. CASE i = n + 1
    BY <1>4, <1>10, <1>11, <2>1, <2>2
  <2>3. CASE i \in 1 .. n
    <3>1. log'[c][i] = log[c][i] /\ log'[c][e] = log[c][e]
      BY <1>4, <2>1, <2>3
    <3> QED
      BY <1>4, <1>11, <2>1, <2>3, <3>1 DEF TurnsInOrder
  <2> QED
    BY <1>4, <1>7, <1>11, <2>2, <2>3
<1>12. ASSUME NEW d \in Conversations, d # c
       PROVE  /\ \E j \in Nat : Begun(d)' = 1 .. j
              /\ \A e, i \in DOMAIN log'[d] :
                   log'[d][e].end /\ e < i => log'[d][i].turn # log'[d][e].turn
  <2>1. log'[d] = log[d]
    BY <1>3, <1>12
  <2>2. Begun(d)' = Begun(d)
    BY <2>1 DEF Begun
  <2> QED
    BY <2>1, <2>2 DEF TurnsInOrder
<1> QED
  BY <1>9, <1>11, <1>12 DEF TurnsInOrder

(* `enforceBounds` stops before the first message of a Turn not known to   *)
(* be over, and takes the other Turns as a whole.                          *)
LEMMA GoneIsOver ==
  ASSUME TypeOK, NEW w \in Window, NEW c \in Conversations, NEW from \in Nat,
         w.messages \subseteq Shown(c, from, w.cursor)
  PROVE  \A g \in w.messages \ Bounded(w).messages :
           /\ TurnOf(g) \in w.ended \cup {NoTurn}
           /\ TurnOf(g) # NoTurn => \A m \in Bounded(w).messages : TurnOf(m) # TurnOf(g)
<1> DEFINE S    == {i \in 0 .. w.cursor : StopsAt(w, i)}
           p    == Min(S)
           M    == w.messages
           gone == GoneWith(M, p)
           Open(m) == TurnOf(m) \notin w.ended \cup {NoTurn}
           opens == {i \in 1 .. w.cursor : <<c, i>> \in M /\ Open(<<c, i>>)}
<1>1. w.cursor \in Nat
  BY DEF Window
<1>2. Bounded(w).messages = M \ gone
  <2>1. Bounded(w) = [w EXCEPT !.messages = M \ gone, !.ended = @ \ {TurnOf(m) : m \in gone}]
    BY DEF Bounded
  <2> HIDE DEF gone, M
  <2> QED
    BY <2>1 DEF Window
<1>3. \A m \in M : m = <<c, m[2]>> /\ m[2] \in 1 .. w.cursor
  <2> SUFFICES ASSUME NEW m \in M PROVE m = <<c, m[2]>> /\ m[2] \in 1 .. w.cursor
    OBVIOUS
  <2>1. PICK i \in from .. w.cursor : m = <<c, i>> /\ IsMessage(c, i)
    BY DEF Shown
  <2>2. log[c] \in Seq(Row)
    BY DEF TypeOK
  <2>3. i \in 1 .. Len(log[c])
    BY <2>1, <2>2 DEF IsMessage
  <2> QED
    BY <1>1, <2>1, <2>3
<1>4. p \in Nat /\ \A k \in S : p <= k
  <2>1. IsFiniteSet(S) /\ S \subseteq Nat
    <3>1. 0 \in Int /\ w.cursor \in Int
      BY <1>1
    <3>2. IsFiniteSet(0 .. w.cursor)
      BY <3>1, FS_Interval
    <3>3. S \subseteq 0 .. w.cursor /\ S \subseteq Nat
      BY <1>1
    <3> HIDE DEF S
    <3> QED
      BY <3>2, <3>3, FS_Subset
  <2>2. w.cursor \in S
    <3>1. \A n \in M : n[2] <= w.cursor
      BY <1>1, <1>3
    <3>2. M \ GoneWith(M, w.cursor) = {}
      BY <3>1 DEF GoneWith
    <3>3. Cardinality({}) <= MaxMessages
      BY FS_EmptySet, WindowAssumption
    <3>4. StopsAt(w, w.cursor)
      BY <3>2, <3>3 DEF StopsAt
    <3> QED
      BY <1>1, <3>4
  <2> HIDE DEF S
  <2> QED
    BY <2>1, <2>2, LeastPlace
<1>5. ASSUME NEW x \in M, x[2] <= p, Open(x)
      PROVE  FALSE
  <2> DEFINE q == Min(opens)
  <2>1. q \in opens /\ \A k \in opens : q <= k
    <3>1. IsFiniteSet(opens) /\ opens \subseteq Nat
      <4>1. 1 \in Int /\ w.cursor \in Int
        BY <1>1
      <4>2. IsFiniteSet(1 .. w.cursor)
        BY <4>1, FS_Interval
      <4>3. opens \subseteq 1 .. w.cursor /\ opens \subseteq Nat
        BY <1>1
      <4> HIDE DEF opens
      <4> QED
        BY <4>2, <4>3, FS_Subset
    <3>2. x[2] \in opens
      BY <1>3, <1>5
    <3> HIDE DEF opens
    <3> QED
      BY <3>1, <3>2, LeastPlace
  <2>2. x[2] \in opens
    BY <1>3, <1>5
  <2> HIDE DEF q
  <2> DEFINE first == <<c, q>>
             left  == M \ GoneWith(M, q - 1)
  <2>3. q \in 1 .. w.cursor /\ first \in M /\ Open(first) /\ q <= p
    BY <1>1, <1>3, <1>4, <1>5, <2>1, <2>2
  <2> HIDE DEF Open, opens
  <2>4. first \in left
    <3> SUFFICES ASSUME NEW n \in M, n[2] <= q - 1,
                        n = first \/ TurnOf(n) = TurnOf(first)
                 PROVE  FALSE
      BY <2>3 DEF GoneWith
    <3>1. n[2] \in 1 .. w.cursor /\ n = <<c, n[2]>> /\ n[2] # q
      BY <1>1, <1>3, <2>3
    <3>2. n # first
      BY <3>1
    <3>3. TurnOf(n) = TurnOf(first)
      BY <3>2
    <3>4. Open(n)
      BY <2>3, <3>3 DEF Open
    <3>5. n[2] \in opens
      BY <3>1, <3>4 DEF opens
    <3> QED
      BY <1>1, <2>1, <2>3, <3>1, <3>5
  <2>5. \A m \in left : m[2] >= q /\ m = <<c, m[2]>>
    <3> SUFFICES ASSUME NEW m \in left PROVE m[2] >= q /\ m = <<c, m[2]>>
      OBVIOUS
    <3>1. m \in M /\ m \notin GoneWith(M, q - 1)
      OBVIOUS
    <3>2. ~(m[2] <= q - 1)
      BY <3>1 DEF GoneWith
    <3>3. m = <<c, m[2]>> /\ m[2] \in 1 .. w.cursor
      BY <1>3, <3>1
    <3> QED
      BY <1>1, <2>3, <3>2, <3>3
  <2> HIDE DEF left
  <2>6. Oldest(left) \in left /\ Oldest(left)[2] <= q
    <3>1. \A n \in left : first[2] <= n[2]
      BY <1>1, <2>3, <2>5
    <3>2. first[2] = q
      OBVIOUS
    <3> QED
      BY <2>4, <3>1, <3>2 DEF Oldest
  <2>7. Oldest(left) = first
    <3>1. Oldest(left)[2] >= q /\ Oldest(left) = <<c, Oldest(left)[2]>>
      BY <2>5, <2>6
    <3>2. Oldest(left)[2] \in Nat
      BY <1>1, <1>3, <2>6 DEF left
    <3>3. Oldest(left)[2] = q
      BY <2>3, <2>6, <3>1, <3>2
    <3> QED
      BY <3>1, <3>3
  <2>8. StopsAt(w, q - 1)
    <3>1. TurnOf(Oldest(left)) \notin w.ended \cup {NoTurn}
      BY <2>3, <2>7 DEF Open
    <3> QED
      BY <2>4, <3>1 DEF StopsAt, left
  <2>9. q - 1 \in S
    BY <1>1, <2>3, <2>8
  <2> HIDE DEF S, p
  <2> QED
    BY <1>1, <1>4, <2>3, <2>9
<1> HIDE DEF S, p
<1>6. ASSUME NEW g \in gone
      PROVE  /\ TurnOf(g) \in w.ended \cup {NoTurn}
             /\ TurnOf(g) # NoTurn => \A m \in M \ gone : TurnOf(m) # TurnOf(g)
  <2>1. PICK x \in M : x[2] <= p /\ (x = g \/ (TurnOf(x) = TurnOf(g) /\ TurnOf(g) # NoTurn))
    BY <1>6 DEF GoneWith
  <2>2. TurnOf(x) = TurnOf(g)
    BY <2>1
  <2>3. ~Open(x)
    BY <1>5, <2>1
  <2>4. TurnOf(g) \in w.ended \cup {NoTurn}
    BY <2>2, <2>3
  <2>5. ASSUME NEW m \in M, TurnOf(m) = TurnOf(g), TurnOf(g) # NoTurn
        PROVE  m \in gone
    BY <2>1, <2>2, <2>5 DEF GoneWith
  <2> QED
    BY <2>4, <2>5
<1> QED
  BY <1>2, <1>6

LEMMA BecomeKeepsWhole ==
  ASSUME TypeOK, NEW w \in Window, NEW c \in Conversations, NEW from \in Nat,
         w.messages \subseteq Shown(c, from, w.cursor),
         UNCHANGED log, Become(w), w.conversation = c, w.read, w.token <= seed'.token,
         \A t \in w.ended : \E e \in EndsAt(c, t) : e <= w.cursor,
         \A n \in evicted : TurnOf(n) # NoTurn =>
           /\ \E e \in EndsAt(c, TurnOf(n)) : e <= w.cursor
           /\ \A m \in w.messages : TurnOf(m) = TurnOf(n) =>
                \E i \in Before(c, seed'.token) : TurnOf(<<c, i>>) = TurnOf(n)
  PROVE  WholeInv'
<1>1. evicted \subseteq Message
  BY DEF TypeOK
<1>2. window' = [w EXCEPT !.messages = window'.messages, !.ended = window'.ended]
  BY <1>1, BecomeFacts
<1> DEFINE b == Bounded(w)
<1>3. window' = b /\ evicted' = evicted \cup (w.messages \ b.messages)
  BY DEF Become
<1>4. b.messages \subseteq w.messages /\ b.ended \subseteq w.ended
  BY BoundedFacts
<1>5. \A g \in w.messages \ b.messages :
        /\ TurnOf(g) \in w.ended \cup {NoTurn}
        /\ TurnOf(g) # NoTurn => \A m \in b.messages : TurnOf(m) # TurnOf(g)
  BY GoneIsOver
<1> HIDE DEF b
<1>6. /\ window'.conversation = c /\ window'.read /\ window'.cursor = w.cursor
      /\ window'.token = w.token
  BY <1>2 DEF Window
<1>7. ASSUME NEW n \in evicted', TurnOf(n) # NoTurn
      PROVE  /\ \E e \in EndsAt(c, TurnOf(n)) : e <= w.cursor
             /\ \A m \in window'.messages : TurnOf(m) = TurnOf(n) =>
                  \E i \in Before(c, seed'.token) : TurnOf(<<c, i>>) = TurnOf(n)
  <2>1. CASE n \in evicted
    BY <1>3, <1>4, <1>7, <2>1
  <2>2. CASE n \in w.messages \ b.messages
    <3>1. TurnOf(n) \in w.ended
      BY <1>5, <1>7, <2>2
    <3> QED
      BY <1>3, <1>5, <1>7, <2>2, <3>1
  <2> QED
    BY <1>3, <2>1, <2>2
<1>8. \A t \in window'.ended : \E e \in EndsAt(c, t) : e <= w.cursor
  BY <1>3, <1>4
<1>9. window'.token <= seed'.token
  BY <1>6
<1>10. log' = log
  OBVIOUS
<1> QED
  BY <1>6, <1>7, <1>8, <1>9, <1>10 DEF WholeInv, OverAt, EndsAt, TurnOf, Before, IsMessage

(* A step that changes nothing these speak of.                             *)
LEMMA WholeStays ==
  ASSUME WholeInv, UNCHANGED <<log, evicted, seed>>,
         window'.conversation = window.conversation, window'.read = window.read,
         window'.messages = window.messages, window'.ended = window.ended,
         window'.cursor = window.cursor, window'.token = window.token
  PROVE  WholeInv'
BY DEF WholeInv, OverAt, EndsAt, TurnOf, Before, IsMessage

LEMMA EmptyIsWhole ==
  ASSUME NEW c, \/ window' = Empty(c)
                \/ \E d : window' = [Empty(c) EXCEPT !.denied = d]
  PROVE  WholeInv'
<1>1. ~window'.read /\ window'.ended = {}
  BY DEF Empty
<1> QED
  BY <1>1 DEF WholeInv

LEMMA ServiceKeepsWhole ==
  ASSUME WindowInv, WholeInv, NEW c \in Conversations, Save(c) \/ End(c)
  PROVE  WholeInv'
<1> DEFINE v == window.conversation
<1>1. /\ TypeOK /\ UNCHANGED <<window, evicted, seed>>
      /\ log \in [Conversations -> Seq(Row)] /\ window \in Window /\ seed \in [at: Nat, token: Nat]
  BY DEF WindowInv, TypeOK, Save, End, Write
<1>2. \A d \in Conversations :
        /\ Len(log[d]) <= Len(log'[d]) /\ Len(log[d]) \in Nat
        /\ DOMAIN log[d] = 1 .. Len(log[d]) /\ DOMAIN log'[d] = 1 .. Len(log'[d])
        /\ \A i \in 1 .. Len(log[d]) : log'[d][i] = log[d][i]
        /\ Len(log'[d]) \in Nat
  <2>1. PICK row \in Row : Write(c, row)
    BY <1>1, ServiceWrites
  <2> QED
    BY <1>1, <2>1, LogGrows
<1>3. CASE ~window.read
  BY <1>1, <1>3 DEF WholeInv
<1>4. CASE window.read
  <2>1. /\ v \in Conversations /\ window.cursor \in Nat /\ window.cursor <= Len(log[v])
        /\ window.token \in Nat
    BY <1>1, <1>4 DEF WindowInv, Placed, Window
  <2>2. \A i \in DOMAIN log[v] : i \in DOMAIN log'[v] /\ log'[v][i] = log[v][i]
    <3> HIDE DEF v
    <3> QED
      BY <1>2, <2>1
  <2>3. ASSUME NEW m \in window.messages \cup evicted
        PROVE  \E i \in DOMAIN log[v] : m = <<v, i>>
    <3>1. m \in Shown(v, First(window.token), window.cursor)
      BY <1>4, <2>3, NothingMissingIsShown DEF WindowInv
    <3> QED
      BY <3>1 DEF Shown, IsMessage
  <2>4. \A m \in window.messages \cup evicted : TurnOf(m)' = TurnOf(m)
    BY <2>2, <2>3 DEF TurnOf
  <2>5. \A t : \A e \in EndsAt(v, t) : e \in DOMAIN log'[v] /\ log'[v][e] = [turn |-> t, end |-> TRUE]
    BY <2>2 DEF EndsAt
  <2>6. \A i \in Before(v, seed.token) : i \in Before(v, seed.token)'
                                        /\ TurnOf(<<v, i>>)' = TurnOf(<<v, i>>)
    BY <1>1, <2>2 DEF Before, IsMessage, TurnOf
  <2>7. ASSUME NEW n \in evicted, TurnOf(n) # NoTurn
        PROVE  /\ \E e \in EndsAt(v, TurnOf(n)) : e <= window.cursor
               /\ \A m \in window.messages : TurnOf(m) = TurnOf(n) =>
                    \E i \in Before(v, seed.token) : TurnOf(<<v, i>>) = TurnOf(n)
    BY <1>4, <2>7 DEF WholeInv, OverAt
  <2>8. ASSUME NEW n \in evicted, TurnOf(n)' # NoTurn
        PROVE  /\ \E e \in EndsAt(v, TurnOf(n))' : e <= window.cursor
               /\ \A m \in window.messages : TurnOf(m)' = TurnOf(n)' =>
                    \E i \in Before(v, seed.token)' : TurnOf(<<v, i>>)' = TurnOf(n)'
    <3>1. TurnOf(n)' = TurnOf(n)
      BY <2>4
    <3>2. \E e \in EndsAt(v, TurnOf(n))' : e <= window.cursor
      <4>1. EndsAt(v, TurnOf(n))' = {e \in DOMAIN log'[v] : log'[v][e] = [turn |-> TurnOf(n), end |-> TRUE]}
        BY <1>1, <3>1 DEF EndsAt
      <4> QED
        BY <2>5, <2>7, <2>8, <3>1, <4>1
    <3>3. ASSUME NEW m \in window.messages, TurnOf(m)' = TurnOf(n)'
          PROVE  \E i \in Before(v, seed.token)' : TurnOf(<<v, i>>)' = TurnOf(n)'
      <4>1. TurnOf(m) = TurnOf(n) /\ TurnOf(n) # NoTurn
        BY <2>4, <2>8, <3>1, <3>3
      <4>2. PICK i \in Before(v, seed.token) : TurnOf(<<v, i>>) = TurnOf(n)
        BY <2>7, <4>1
      <4>3. i \in Before(v, seed.token)' /\ TurnOf(<<v, i>>)' = TurnOf(n)'
        BY <2>6, <3>1, <4>2
      <4> QED
        BY <4>3
    <3> QED
      BY <3>2, <3>3
  <2>9. \A t \in window.ended : \E e \in DOMAIN log'[v] :
           log'[v][e] = [turn |-> t, end |-> TRUE] /\ e <= window.cursor
    BY <1>4, <2>5 DEF WholeInv, OverAt
  <2>10. window.token <= seed.token
    BY <1>4 DEF WholeInv
  <2>11. window' = window /\ evicted' = evicted /\ seed' = seed
    BY <1>1
  <2>12. \A n \in evicted : TurnOf(n)' # NoTurn =>
           /\ OverAt(TurnOf(n))'
           /\ \A m \in window.messages : TurnOf(m)' = TurnOf(n)' =>
                \E i \in Before(v, seed.token)' : TurnOf(<<v, i>>)' = TurnOf(n)'
    BY <2>8, <2>11 DEF OverAt
  <2>13. \A t \in window.ended : OverAt(t)'
    BY <2>9, <2>11 DEF OverAt, EndsAt
  <2> QED
    BY <1>4, <2>10, <2>11, <2>12, <2>13 DEF WholeInv
<1> QED
  BY <1>3, <1>4

LEMMA ReadTailKeepsWhole ==
  ASSUME WindowInv, WholeInv, ReadTail
  PROVE  WholeInv'
<1> DEFINE c  == window.conversation
           at == Len(log[c])
           token == NextToken(c, at + 1)
           w  == [window EXCEPT !.read = TRUE, !.messages = PageOf(c, at + 1),
                    !.cursor = at, !.token = token, !.full = FALSE]
<1>1. /\ c # Nowhere /\ ~window.read /\ Become(w)
      /\ seed' = [at |-> at, token |-> token] /\ log' = log
  BY DEF ReadTail
<1>2. TypeOK /\ window \in Window /\ log \in [Conversations -> Seq(Row)]
  BY DEF WindowInv, TypeOK
<1>3. c \in Conversations
  BY <1>1, <1>2 DEF Window
<1>4. at \in Nat
  BY <1>2, <1>3
<1>5. /\ token \in Nat
      /\ PageOf(c, at + 1) = Shown(c, First(token), at)
  <2> DEFINE place == at + 1
  <2> HIDE DEF c, at
  <2>1. place \in Nat /\ place - 1 = at
    BY <1>4
  <2> HIDE DEF place
  <2>2. /\ NextToken(c, place) \in Nat
        /\ PageOf(c, place) = Shown(c, First(NextToken(c, place)), place - 1)
    BY <1>3, <2>1, PageCovers
  <2> QED
    BY <2>1, <2>2 DEF place
<1>6. First(token) \in Nat
  BY <1>5 DEF First
<1>7. evicted = {} /\ window.ended = {}
  BY <1>1 DEF WindowInv, NothingUnread, WholeInv
<1>8. /\ w \in Window /\ w.messages = Shown(c, First(token), at) /\ w.cursor = at
      /\ w.token = token /\ w.read = TRUE /\ w.conversation = c /\ w.ended = {}
  <2> HIDE DEF token, at
  <2>1. PageOf(c, at + 1) \subseteq Message
    BY <1>3, <1>4, <1>5, <1>6, ShownIsMessages
  <2> QED
    BY <1>2, <1>3, <1>4, <1>5, <1>7, <2>1 DEF Window
<1>9. seed'.token = token /\ token <= token
  BY <1>1, <1>5
<1> HIDE DEF w, token, at, c
<1> QED
  BY <1>1, <1>2, <1>3, <1>6, <1>7, <1>8, <1>9, BecomeKeepsWhole

(* What a frame brings of a Turn comes before its end.                     *)
LEMMA ReceiveKeepsWhole ==
  ASSUME WindowInv, TurnsInOrder, WholeInv, NEW n \in Nat, Receive(n)
  PROVE  WholeInv'
<1> DEFINE c    == window.conversation
           from == First(window.token)
           to   == window.cursor + n
           rows == window.cursor + 1 .. to
           new  == {<<c, i>> : i \in {j \in rows : IsMessage(c, j)}}
           over == {log[c][i].turn : i \in {j \in rows : log[c][j].end}}
           messages == window.messages \cup new
           ended    == window.ended \cup over
           w == [window EXCEPT !.messages = messages, !.ended = ended, !.cursor = to]
<1>1. /\ window.read /\ to <= Len(log[c]) /\ Become(w)
      /\ log' = log /\ seed' = seed
  <2>1. w = [window EXCEPT
               !.messages = @ \cup {<<c, i>> : i \in {j \in rows : IsMessage(c, j)}},
               !.ended    = @ \cup {log[c][i].turn : i \in {j \in rows : log[c][j].end}},
               !.cursor   = @ + n]
    BY DEF WindowInv, TypeOK, Window
  <2> HIDE DEF w
  <2> QED
    BY <2>1 DEF Receive
<1>2. /\ TypeOK /\ window \in Window /\ log \in [Conversations -> Seq(Row)]
      /\ evicted \subseteq Message /\ seed \in [at : Nat, token : Nat]
  BY DEF WindowInv, TypeOK
<1>3. /\ c \in Conversations /\ window.cursor <= Len(log[c]) /\ window.token <= window.cursor
  BY <1>1, <1>2 DEF WindowInv, Placed, Window
<1>4. window.cursor \in Nat /\ window.token \in Nat /\ to \in Nat /\ Len(log[c]) \in Nat
  BY <1>2, <1>3 DEF Window
<1>5. from \in Nat /\ from <= window.cursor + 1 /\ 1 <= from
  BY <1>3, <1>4 DEF First, NoToken
<1>6. window.messages \cup evicted = Shown(c, from, window.cursor)
  BY <1>1, NothingMissingIsShown DEF WindowInv
<1>7. log[c] \in Seq(Row) /\ DOMAIN log[c] = 1 .. Len(log[c])
  BY <1>2, <1>3
<1>8. \A i \in rows : i \in DOMAIN log[c] /\ log[c][i] \in Row /\ i <= to /\ window.cursor < i
  <2> HIDE DEF c
  <2> QED
    BY <1>1, <1>4, <1>7
<1>9. \A t \in over : t \in Turns /\ \E e \in EndsAt(c, t) : e <= to
  <2> SUFFICES ASSUME NEW i \in rows, log[c][i].end
               PROVE  log[c][i].turn \in Turns /\ \E e \in EndsAt(c, log[c][i].turn) : e <= to
    OBVIOUS
  <2>1. log[c][i] \in Row /\ i \in DOMAIN log[c] /\ i <= to
    BY <1>8
  <2>2. log[c][i] = [turn |-> log[c][i].turn, end |-> TRUE] /\ log[c][i].turn \in Turns
    BY <2>1 DEF Row
  <2> QED
    BY <2>1, <2>2 DEF EndsAt
<1>10. new = Shown(c, window.cursor + 1, to) /\ new \subseteq Message
  <2>1. window.cursor + 1 \in Nat
    BY <1>4
  <2>2. new = Shown(c, window.cursor + 1, to)
    BY DEF Shown
  <2> HIDE DEF new, to
  <2> QED
    BY <1>3, <1>4, <2>1, <2>2, ShownIsMessages
<1>11. messages \subseteq Shown(c, from, to)
  <2>1. \A i : (i \in from .. window.cursor \/ i \in rows) => i \in from .. to
    <3> HIDE DEF c, from
    <3> QED
      BY <1>4, <1>5
  <2>2. Shown(c, from, window.cursor) \cup Shown(c, window.cursor + 1, to) \subseteq Shown(c, from, to)
    <3> HIDE DEF c, from, to
    <3> QED
      BY <2>1 DEF Shown, rows, to
  <2> HIDE DEF new, from, to, c
  <2> QED
    BY <1>6, <1>10, <2>2
(* A frame brings nothing of a Turn that is over.                          *)
<1>12. ASSUME NEW t, NEW e \in EndsAt(c, t), e <= window.cursor, NEW m \in new
       PROVE  TurnOf(m) # t
  <2>1. PICK i \in rows : m = <<c, i>>
    OBVIOUS
  <2>2. TurnOf(m) = log[c][i].turn
    BY <2>1 DEF TurnOf
  <2>3. /\ e \in DOMAIN log[c] /\ i \in DOMAIN log[c]
        /\ log[c][e].end /\ log[c][e].turn = t
    BY <1>8, <1>12 DEF EndsAt
  <2> HIDE DEF rows, c
  <2>4. e < i
    BY <1>4, <1>7, <1>8, <1>12, <2>1, <2>3
  <2> QED
    BY <1>3, <2>2, <2>3, <2>4 DEF TurnsInOrder
<1> HIDE DEF new, over
<1>13. messages \subseteq Message /\ ended \subseteq Turns
  BY <1>2, <1>9, <1>10 DEF Window
<1>14. \A t \in ended : \E e \in EndsAt(c, t) : e <= to
  <2> SUFFICES ASSUME NEW t \in window.ended PROVE \E e \in EndsAt(c, t) : e <= to
    BY <1>9
  <2>1. PICK e \in EndsAt(c, t) : e <= window.cursor
    BY <1>1 DEF WholeInv, OverAt
  <2>2. e \in Nat
    BY <1>7 DEF EndsAt
  <2> QED
    BY <1>4, <2>1, <2>2
<1>15. ASSUME NEW m \in evicted, TurnOf(m) # NoTurn
       PROVE  /\ \E e \in EndsAt(c, TurnOf(m)) : e <= to
              /\ \A k \in messages : TurnOf(k) = TurnOf(m) =>
                   \E i \in Before(c, seed.token) : TurnOf(<<c, i>>) = TurnOf(m)
  <2>1. PICK e \in EndsAt(c, TurnOf(m)) : e <= window.cursor
    BY <1>1, <1>15 DEF WholeInv, OverAt
  <2>2. e \in Nat
    BY <1>7 DEF EndsAt
  <2>3. e <= to
    BY <1>4, <2>1, <2>2
  <2>4. \A k \in new : TurnOf(k) # TurnOf(m)
    BY <1>12, <2>1
  <2>5. \A k \in window.messages : TurnOf(k) = TurnOf(m) =>
          \E i \in Before(c, seed.token) : TurnOf(<<c, i>>) = TurnOf(m)
    BY <1>1, <1>15 DEF WholeInv
  <2> QED
    BY <2>1, <2>3, <2>4, <2>5
<1> HIDE DEF messages, ended, to, rows
<1>16. /\ w \in Window /\ w.messages = messages /\ w.cursor = to /\ w.ended = ended
       /\ w.token = window.token /\ w.read /\ w.conversation = c
  BY <1>1, <1>2, <1>4, <1>13 DEF Window
<1>17. w.token <= seed'.token
  BY <1>1, <1>16 DEF WholeInv
<1> HIDE DEF c, from, w
<1>18. /\ w.messages \subseteq Shown(c, from, w.cursor)
       /\ \A t \in w.ended : \E e \in EndsAt(c, t) : e <= w.cursor
  BY <1>11, <1>14, <1>16
<1>19. \A m \in evicted : TurnOf(m) # NoTurn =>
         /\ \E e \in EndsAt(c, TurnOf(m)) : e <= w.cursor
         /\ \A k \in w.messages : TurnOf(k) = TurnOf(m) =>
              \E i \in Before(c, seed'.token) : TurnOf(<<c, i>>) = TurnOf(m)
  BY <1>1, <1>15, <1>16
<1> QED
  BY <1>1, <1>2, <1>3, <1>5, <1>16, <1>17, <1>18, <1>19, BecomeKeepsWhole

(* What a page of history brings was earlier than the window when it was   *)
(* read.                                                                   *)
LEMMA LoadedKeepsWhole ==
  ASSUME WindowInv, WholeInv, NEW l \in loads, Loaded(l)
  PROVE  WholeInv'
<1> DEFINE c     == window.conversation
           page  == PageOf(l.conversation, l.token)
           token == NextToken(l.conversation, l.token)
<1>1. /\ window' = IF l.conversation = c THEN Merge(window, l) ELSE window
      /\ log' = log /\ evicted' = evicted /\ seed' = seed
  BY DEF Loaded
<1>2. /\ window \in Window /\ loads \subseteq Load /\ seed \in [at : Nat, token : Nat]
  BY DEF WindowInv, TypeOK
<1>3. CASE l.conversation # c
  <2>1. window' = window
    BY <1>1, <1>3
  <2> QED
    BY <1>1, <2>1, WholeStays
<1>4. CASE l.conversation = c /\ ~Room(window, page)
  <2>1. window' = [window EXCEPT !.full = TRUE, !.loading = FALSE]
    BY <1>1, <1>4 DEF Merge
  <2>2. /\ window'.conversation = window.conversation /\ window'.read = window.read
        /\ window'.messages = window.messages /\ window'.ended = window.ended
        /\ window'.cursor = window.cursor /\ window'.token = window.token
    BY <1>2, <2>1 DEF Window
  <2> QED
    BY <1>1, <2>2, WholeStays
<1>5. CASE l.conversation = c /\ Room(window, page)
  <2>1. l \in Load /\ c \in Conversations /\ l.token \in Nat
    BY <1>2, <1>5 DEF Load
  <2>2. window.read /\ l.token = window.token /\ l.token # NoToken
    BY <1>5 DEF WindowInv, CurrentLoads
  <2>3. window' = [window EXCEPT !.messages = @ \cup page, !.loading = FALSE, !.token = token]
    BY <1>1, <1>5 DEF Merge
  <2>4. /\ token \in Nat /\ (token # NoToken => token \in 1 .. l.token - 1)
    BY <1>5, <2>1, PageCovers
  <2>5. l.token <= seed.token
    BY <2>2 DEF WholeInv
  <2>6. token <= seed.token
    BY <1>2, <2>1, <2>4, <2>5 DEF NoToken
  <2>7. \A m \in page : \E i \in Before(c, seed.token) : m = <<c, i>>
    <3> SUFFICES ASSUME NEW m \in page PROVE \E i \in Before(c, seed.token) : m = <<c, i>>
      OBVIOUS
    <3>1. PICK i \in Before(c, l.token) : m = <<c, i>>
      BY <1>5 DEF PageOf, Newest
    <3>2. i \in Before(c, seed.token)
      BY <1>2, <2>1, <2>5, <3>1 DEF Before
    <3> QED
      BY <3>1, <3>2
  <2> HIDE DEF page, token
  <2>8. /\ window'.conversation = c /\ window'.read = window.read
        /\ window'.messages = window.messages \cup page /\ window'.ended = window.ended
        /\ window'.cursor = window.cursor /\ window'.token = token
    BY <1>2, <2>3 DEF Window
  <2>9. ASSUME NEW n \in evicted, TurnOf(n) # NoTurn
        PROVE  \A m \in window'.messages : TurnOf(m) = TurnOf(n) =>
                 \E i \in Before(c, seed.token) : TurnOf(<<c, i>>) = TurnOf(n)
    <3> SUFFICES ASSUME NEW m \in window.messages \cup page, TurnOf(m) = TurnOf(n)
                 PROVE  \E i \in Before(c, seed.token) : TurnOf(<<c, i>>) = TurnOf(n)
      BY <2>8
    <3>1. CASE m \in page
      BY <2>7, <3>1
    <3>2. CASE m \in window.messages
      BY <2>2, <2>9, <3>2 DEF WholeInv
    <3> QED
      BY <3>1, <3>2
  <2>10. /\ \A t \in window.ended : \E e \in EndsAt(c, t) : e <= window.cursor
         /\ \A n \in evicted : TurnOf(n) # NoTurn =>
              \E e \in EndsAt(c, TurnOf(n)) : e <= window.cursor
    BY <2>2 DEF WholeInv, OverAt
  <2>11. /\ window'.read /\ window'.token <= seed'.token /\ window'.conversation = c
         /\ log' = log /\ evicted' = evicted /\ seed' = seed /\ window'.cursor = window.cursor
         /\ window'.ended = window.ended
    BY <1>1, <2>2, <2>6, <2>8
  <2>12. \A n \in evicted' : TurnOf(n) # NoTurn =>
           /\ \E e \in EndsAt(c, TurnOf(n)) : e <= window.cursor
           /\ \A m \in window'.messages : TurnOf(m) = TurnOf(n) =>
                \E i \in Before(c, seed'.token) : TurnOf(<<c, i>>) = TurnOf(n)
    BY <2>9, <2>10, <2>11
  <2> HIDE DEF c
  <2> QED
    BY <2>10, <2>11, <2>12 DEF WholeInv, OverAt, EndsAt, TurnOf, Before, IsMessage
<1> QED
  BY <1>3, <1>4, <1>5

LEMMA OrderAndWhole ==
  Spec => [](TurnsInOrder /\ WholeInv)
<1>1. Init => TurnsInOrder /\ WholeInv
  <2> SUFFICES ASSUME Init PROVE TurnsInOrder /\ WholeInv
    OBVIOUS
  <2>1. WholeInv
    BY DEF Init, Empty, WholeInv
  <2>2. ASSUME NEW c \in Conversations
        PROVE  /\ \E k \in Nat : Begun(c) = 1 .. k
               /\ \A e, i \in DOMAIN log[c] :
                    log[c][e].end /\ e < i => log[c][i].turn # log[c][e].turn
    <3>1. log[c] = <<>> /\ DOMAIN log[c] = {}
      BY DEF Init
    <3>2. Begun(c) = 1 .. 0
      BY <3>1 DEF Begun
    <3> QED
      BY <3>1, <3>2
  <2> QED
    BY <2>1, <2>2 DEF TurnsInOrder
<1>2. WindowInv /\ (TurnsInOrder /\ WholeInv) /\ [Next]_vars => (TurnsInOrder /\ WholeInv)'
  <2> SUFFICES ASSUME WindowInv, TurnsInOrder, WholeInv, [Next]_vars
               PROVE  TurnsInOrder' /\ WholeInv'
    OBVIOUS
  <2>1. TypeOK /\ window \in Window
    BY DEF WindowInv, TypeOK
  <2>2. UNCHANGED log => TurnsInOrder'
    BY DEF TurnsInOrder, Begun
  <2>3. ASSUME NEW c \in Conversations, Save(c) \/ End(c) PROVE TurnsInOrder' /\ WholeInv'
    BY <2>1, <2>3, ServiceKeepsOrder, ServiceKeepsWhole
  <2>4. CASE ReadTail
    BY <2>2, <2>4, ReadTailKeepsWhole DEF ReadTail
  <2>5. CASE LoadEarlier
    <3>1. window' = [window EXCEPT !.loading = TRUE] /\ UNCHANGED <<log, evicted, seed>>
      BY <2>5 DEF LoadEarlier
    <3>2. /\ window'.conversation = window.conversation /\ window'.read = window.read
          /\ window'.messages = window.messages /\ window'.ended = window.ended
          /\ window'.cursor = window.cursor /\ window'.token = window.token
      BY <2>1, <3>1 DEF Window
    <3> QED
      BY <2>2, <3>1, <3>2, WholeStays
  <2>6. CASE StartOver
    BY <2>2, <2>6, EmptyIsWhole DEF StartOver
  <2>7. ASSUME NEW n \in 1 .. MaxFrame, Receive(n) PROVE TurnsInOrder' /\ WholeInv'
    <3>1. n \in Nat
      BY WindowAssumption
    <3> QED
      BY <2>2, <2>7, <3>1, ReceiveKeepsWhole DEF Receive
  <2>8. ASSUME NEW l \in loads, Loaded(l) PROVE TurnsInOrder' /\ WholeInv'
    BY <2>2, <2>8, LoadedKeepsWhole DEF Loaded
  <2>9. ASSUME NEW l \in loads, NotLoaded(l) PROVE TurnsInOrder' /\ WholeInv'
    <3>1. PICK d : window' = [window EXCEPT !.loading = FALSE, !.denied = d]
      BY <2>9 DEF NotLoaded
    <3>2. /\ window'.conversation = window.conversation /\ window'.read = window.read
          /\ window'.messages = window.messages /\ window'.ended = window.ended
          /\ window'.cursor = window.cursor /\ window'.token = window.token
      BY <2>1, <3>1 DEF Window
    <3>3. UNCHANGED <<log, evicted, seed>>
      BY <2>9 DEF NotLoaded
    <3> QED
      BY <2>2, <3>2, <3>3, WholeStays
  <2>10. ASSUME NEW l \in loads, NotFound(l) PROVE TurnsInOrder' /\ WholeInv'
    BY <2>2, <2>10, EmptyIsWhole DEF NotFound
  <2>11. CASE UNCHANGED vars
    <3>1. UNCHANGED <<log, evicted, seed, window>>
      BY <2>11 DEF vars
    <3> QED
      BY <2>2, <3>1, WholeStays
  <2> QED
    BY <2>3, <2>4, <2>5, <2>6, <2>7, <2>8, <2>9, <2>10, <2>11 DEF Next, Page
<1> QED
  BY <1>1, <1>2, WindowInvariant, PTL DEF Spec

(* `enforceBounds` never cuts a Turn that still runs, and never shows one  *)
(* in part: what the window has of a Turn it evicted messages of was       *)
(* loaded again, from before the place the window was read from.           *)
THEOREM WholeEndedTurnsAreEvicted ==
  Spec => []EvictsWholeEndedTurns
<1>1. WindowInv /\ WholeInv => EvictsWholeEndedTurns
  <2> SUFFICES ASSUME WindowInv, WholeInv, NEW n \in evicted, TurnOf(n) # NoTurn
               PROVE  /\ EndsAt(n[1], TurnOf(n)) # {}
                      /\ {m \in window.messages : TurnOf(m) = TurnOf(n)} # {} =>
                           \E i \in Before(n[1], seed.token) : TurnOf(<<n[1], i>>) = TurnOf(n)
    BY DEF EvictsWholeEndedTurns
  <2>1. window.read
    BY DEF WindowInv, NothingUnread
  <2>2. n \in Shown(window.conversation, First(window.token), window.cursor)
    BY <2>1, NothingMissingIsShown DEF WindowInv
  <2>3. n[1] = window.conversation
    BY <2>2 DEF Shown
  <2> QED
    BY <2>1, <2>3 DEF WholeInv, OverAt
<1> QED
  BY <1>1, WindowInvariant, OrderAndWhole, PTL
=============================================================================
