------------------------- MODULE UdpListenerProofs -------------------------
(***************************************************************************)
(* Lemmas about the helpers of NodeState, and about those of UdpListener:  *)
(* what can be in an inbox after a datagram was taken out, lost or sent.   *)
(* Which datagrams there are is all that the proofs look at, never how     *)
(* many copies.                                                            *)
(***************************************************************************)
EXTENDS UdpListener, CollectionProofs

(* Removing position i moves the later entries up by one. *)
LEMMA RemoveAtProps ==
  ASSUME NEW S, NEW s \in Seq(S), NEW i \in 1..Len(s)
  PROVE  /\ RemoveAt(s, i) \in Seq(S)
         /\ Len(RemoveAt(s, i)) = Len(s) - 1
         /\ \A j \in 1..Len(s) - 1 :
              RemoveAt(s, i)[j] = IF j < i THEN s[j] ELSE s[j + 1]
<1> DEFINE a == SubSeq(s, 1, i - 1)
           b == SubSeq(s, i + 1, Len(s))
<1>1. Len(s) \in Nat /\ \A k \in 1..Len(s) : s[k] \in S
  BY LenProperties, ElementOfSeq
<1>2. /\ a \in Seq(S) /\ Len(a) = i - 1
      /\ \A k \in 1..i - 1 : a[k] = s[k]
  <2>1. \A k \in 1..i - 1 : s[k] \in S
    BY <1>1
  <2>2. /\ a \in Seq(S) /\ Len(a) = IF 1 <= i - 1 THEN (i - 1) - 1 + 1 ELSE 0
        /\ \A k \in 1..(i - 1) - 1 + 1 : a[k] = s[1 + k - 1]
    BY <1>1, <2>1, SubSeqProperties
  <2> QED BY <1>1, <2>2
<1>3. /\ b \in Seq(S) /\ Len(b) = Len(s) - i
      /\ \A k \in 1..Len(s) - i : b[k] = s[i + k]
  <2>1. \A k \in i + 1..Len(s) : s[k] \in S
    BY <1>1
  <2>2. /\ b \in Seq(S)
        /\ Len(b) = IF i + 1 <= Len(s) THEN Len(s) - (i + 1) + 1 ELSE 0
        /\ \A k \in 1..Len(s) - (i + 1) + 1 : b[k] = s[i + 1 + k - 1]
    BY <1>1, <2>1, SubSeqProperties
  <2> QED BY <1>1, <2>2
<1>4. /\ a \o b \in Seq(S) /\ Len(a \o b) = Len(a) + Len(b)
      /\ \A k \in 1..Len(a) + Len(b) :
           (a \o b)[k] = IF k <= Len(a) THEN a[k] ELSE b[k - Len(a)]
  BY <1>2, <1>3, ConcatProperties
<1> HIDE DEF a, b
<1>5. \A j \in 1..Len(s) - 1 : (a \o b)[j] = IF j < i THEN s[j] ELSE s[j + 1]
  <2> TAKE j \in 1..Len(s) - 1
  <2>1. CASE j < i
    BY <1>1, <1>2, <1>3, <1>4, <2>1
  <2>2. CASE j >= i
    <3>1. (a \o b)[j] = b[j - (i - 1)]
      BY <1>1, <1>2, <1>3, <1>4, <2>2
    <3>2. b[j - (i - 1)] = s[j + 1]
      BY <1>1, <1>3, <2>2
    <3> QED BY <2>2, <3>1, <3>2
  <2>3. j < i \/ (j >= i /\ ~(j < i))
    BY <1>1
  <2>4. CASE j >= i /\ ~(j < i)
    BY <2>2, <2>4
  <2> QED BY <2>1, <2>3, <2>4
<1>6. RemoveAt(s, i) = a \o b
  BY DEF RemoveAt, a, b
<1> QED BY <1>1, <1>2, <1>3, <1>4, <1>5, <1>6

(* idx_of returns the position of an entry equal to p, or -1 if there is   *)
(* none.                                                                   *)
LEMMA IdxOfProps ==
  ASSUME NEW s, Len(s) \in Nat, NEW p
  PROVE  /\ IdxOf(s, p) \in -1..Len(s) - 1
         /\ IdxOf(s, p) # -1 => s[IdxOf(s, p) + 1] = p
         /\ IdxOf(s, p) = -1 => \A i \in 1..Len(s) : s[i] # p
<1> DEFINE I == {i \in 1..Len(s) : s[i] = p}
<1>1. IdxOf(s, p) = (IF I # {} THEN Min(I) ELSE 0) - 1
  BY DEF IdxOf, SelectInSeq
<1>2. CASE I = {}
  BY <1>1, <1>2
<1>3. CASE I # {}
  <2>1. I \in SUBSET Nat
    OBVIOUS
  <2>2. \A x \in I : x \in 1..Len(s) /\ s[x] = p
    OBVIOUS
  <2> HIDE DEF I
  <2>3. \E x \in I : \A y \in I : x <= y
    BY <1>3, <2>1, LeastElement
  <2>4. Min(I) \in I
    BY <2>3 DEF Min
  <2>5. Min(I) \in 1..Len(s) /\ s[Min(I)] = p
    BY <2>2, <2>4
  <2>6. IdxOf(s, p) = Min(I) - 1
    BY <1>1, <1>3
  <2> QED BY <2>5, <2>6
<1> QED BY <1>2, <1>3

(* tidy_broadcast_list and fix_broadcast_list only leave news out. *)
LEMMA TidyProps ==
  ASSUME NEW S, NEW b \in Seq(S)
  PROVE  /\ TidyBroadcastList(b) \in Seq(S)
         /\ \A j \in 1..Len(TidyBroadcastList(b)) :
              \E i \in 1..Len(b) : TidyBroadcastList(b)[j] = b[i]
<1> DEFINE live == {i \in 1..Len(b) : b[i].rounds > 0}
<1>1. TidyBroadcastList(b) = Entries(b, live)
  BY DEF TidyBroadcastList, Filter
<1>2. live \in SUBSET (1..Len(b))
  OBVIOUS
<1> HIDE DEF live
<1> QED BY <1>1, <1>2, EntriesProps

(* The news that agrees with the peer list is news that was there. *)
LEMMA FixProps ==
  ASSUME NEW S, NEW b \in Seq(S), NEW list
  PROVE  /\ FixBroadcastList(b, list) \in Seq(S)
         /\ \A j \in 1..Len(FixBroadcastList(b, list)) :
              \E i \in 1..Len(b) : FixBroadcastList(b, list)[j] = b[i]
<1> DEFINE agreed == {i \in 1..Len(b) :
                        /\ ~(b[i].status = Removed /\ IdxOf(list, b[i].peer) > 0)
                        /\ ~(b[i].status = Joined /\ IdxOf(list, b[i].peer) = -1)}
<1>1. FixBroadcastList(b, list) = Entries(b, agreed)
  BY DEF FixBroadcastList, Filter
<1>2. agreed \in SUBSET (1..Len(b))
  OBVIOUS
<1> HIDE DEF agreed
<1> QED BY <1>1, <1>2, EntriesProps

(* remove_peer with a position that idx_of found. *)
LEMMA RemovePeerProps ==
  ASSUME NEW S, NEW list \in Seq(S), NEW idx \in 0..Len(list) - 1
  PROVE  /\ RemovePeer(list, idx) \in Seq(S)
         /\ Len(RemovePeer(list, idx)) = Len(list) - 1
         /\ \A j \in 1..Len(list) - 1 :
              \E i \in 1..Len(list) : RemovePeer(list, idx)[j] = list[i]
<1>1. idx + 1 \in 1..Len(list) /\ Len(list) \in Nat
  BY LenProperties
<1>2. \A j \in 1..Len(list) - 1 : j \in 1..Len(list) /\ j + 1 \in 1..Len(list)
  BY <1>1
<1>3. /\ RemovePeer(list, idx) \in Seq(S)
      /\ Len(RemovePeer(list, idx)) = Len(list) - 1
      /\ \A j \in 1..Len(list) - 1 : RemovePeer(list, idx)[j] =
           IF j < idx + 1 THEN list[j] ELSE list[j + 1]
  BY <1>1, RemoveAtProps DEF RemovePeer
<1> QED BY <1>2, <1>3

(* The number of rounds is a number. *)
LEMMA GossipRoundsType ==
  ASSUME NEW k
  PROVE  GossipRounds(k) \in Nat
<1> DEFINE L == {i \in {3, 8, 21, 55} : i <= k}
<1>1. L \in SUBSET (3..55)
  OBVIOUS
<1> HIDE DEF L
<1>2. IsFiniteSet(3..55)
  <2>1. \A a, b \in Int : IsFiniteSet(a..b)
    BY FS_Interval
  <2>2. 3 \in Int /\ 55 \in Int
    OBVIOUS
  <2> QED BY <2>1, <2>2, Zenon
<1>3. Cardinality(L) \in Nat
  BY <1>1, <1>2, FS_Subset, FS_CardinalityType
<1> QED BY <1>3 DEF GossipRounds, L

(* add_broadcast_to_list adds one piece of news, at the end. *)
LEMMA AddBroadcastProps ==
  ASSUME NEW b \in Seq(Broadcast), NEW p \in Peer, NEW status \in {Removed, Joined},
         NEW k
  PROVE  LET new == AddBroadcastToList(b, p, status, k)
         IN  /\ new \in Seq(Broadcast)
             /\ Len(new) = Len(b) + 1
             /\ \A j \in 1..Len(b) : new[j] = b[j]
             /\ new[Len(new)].peer = p /\ new[Len(new)].status = status
<1> DEFINE u == [peer |-> p, status |-> status, rounds |-> GossipRounds(k)]
<1>1. GossipRounds(k) \in Int
  BY GossipRoundsType
<1>2. u \in Broadcast
  BY <1>1 DEF Broadcast
<1>3. u.peer = p /\ u.status = status
  OBVIOUS
<1>4. AddBroadcastToList(b, p, status, k) = Append(b, u)
  BY DEF AddBroadcastToList
<1> HIDE DEF u
<1>5. Len(b) \in Nat
  BY LenProperties
<1> QED BY <1>2, <1>3, <1>4, <1>5, AppendProperties

(* The receivers that are drawn are entries of the list that pass the test.*)
LEMMA RandomPeersProps ==
  ASSUME NEW list, NEW k, NEW except, NEW chosen \in RandomPeers(list, k, except)
  PROVE  /\ chosen \subseteq 1..Len(list)
         /\ \A i \in chosen : list[i].udp # except
<1> DEFINE I == {i \in 1..Len(list) : list[i].udp # except}
<1>1. chosen \subseteq I
  BY DEF RandomPeers, kSubset
<1> QED BY <1>1

(* Somebody is chosen if anybody passes the test. *)
LEMMA RandomPeersSome ==
  ASSUME NEW S, NEW list \in Seq(S), NEW k \in Nat, k >= 1, NEW except,
         NEW i \in 1..Len(list), list[i].udp # except,
         NEW chosen \in RandomPeers(list, k, except)
  PROVE  chosen # {}
<1> DEFINE I == {j \in 1..Len(list) : list[j].udp # except}
<1>1. chosen = I \/ Cardinality(chosen) = k
  BY DEF RandomPeers, kSubset
<1>2. i \in I
  OBVIOUS
<1>3. Cardinality({}) # k
  BY FS_EmptySet
<1> QED BY <1>1, <1>2, <1>3

(* There are finitely many peers, as there are finitely many ports.        *)
LEMMA FinitePeers == IsFiniteSet(Peer)
<1>1. IsFiniteSet(Port \X Port)
  BY PortAssumption, FS_Product
<1>2. [t \in Port \X Port |-> [tcp |-> t[1], udp |-> t[2]]]
        \in Surjection(Port \X Port, Peer)
  <2> DEFINE f == [t \in Port \X Port |-> [tcp |-> t[1], udp |-> t[2]]]
  <2>1. f \in [Port \X Port -> Peer]
    BY DEF Peer
  <2>2. ASSUME NEW p \in Peer PROVE \E t \in Port \X Port : f[t] = p
    <3>1. <<p.tcp, p.udp>> \in Port \X Port /\ p = [tcp |-> p.tcp, udp |-> p.udp]
      BY DEF Peer
    <3> QED BY <3>1
  <2> QED BY <2>1, <2>2 DEF Surjection
<1> QED BY <1>1, <1>2, FS_Surjection

(* The orders of a set of peers are sequences of them. *)
LEMMA PeersInOrder ==
  ASSUME NEW S \in SUBSET Peer
  PROVE  /\ SetToSeq(S) \in Seq(S)
         /\ SetToSeqs(S) \subseteq Seq(S)
<1>1. IsFiniteSet(Peer)
  BY FinitePeers
<1>2. IsFiniteSet(S)
  BY <1>1, FS_Subset
<1>3. /\ Cardinality(S) \in Nat
      /\ ExistsBijection(1..Cardinality(S), S)
  BY <1>2, FS_CardinalityType
<1>4. \E f \in [1..Cardinality(S) -> S] : IsInjective(f)
  BY <1>3 DEF ExistsBijection, Bijection, Injection
<1>5. SetToSeq(S) \in [1..Cardinality(S) -> S]
  BY <1>4 DEF SetToSeq
<1>6. SetToSeqs(S) \subseteq [1..Cardinality(S) -> S]
  BY DEF SetToSeqs
<1> QED BY <1>3, <1>5, <1>6

(* What remains when entry idx is removed includes every other entry. *)
LEMMA RemovePeerKeeps ==
  ASSUME NEW S, NEW list \in Seq(S), NEW idx \in 0..Len(list) - 1,
         NEW k \in 1..Len(list), k # idx + 1
  PROVE  \E j \in 1..Len(RemovePeer(list, idx)) : RemovePeer(list, idx)[j] = list[k]
<1>1. idx + 1 \in 1..Len(list) /\ Len(list) \in Nat
  BY LenProperties
<1>2. /\ Len(RemovePeer(list, idx)) = Len(list) - 1
      /\ \A j \in 1..Len(list) - 1 : RemovePeer(list, idx)[j] =
           IF j < idx + 1 THEN list[j] ELSE list[j + 1]
  BY <1>1, RemoveAtProps DEF RemovePeer
<1>3. CASE k < idx + 1
  <2>1. k \in 1..Len(list) - 1
    BY <1>1, <1>3
  <2> QED BY <1>2, <1>3, <2>1
<1>4. CASE k > idx + 1
  <2>1. /\ k - 1 \in 1..Len(list) - 1 /\ ~(k - 1 < idx + 1)
        /\ (k - 1) + 1 = k
    BY <1>1, <1>4
  <2>2. RemovePeer(list, idx)[k - 1] = list[(k - 1) + 1]
    BY <1>2, <2>1
  <2> QED BY <1>2, <2>1, <2>2
<1> QED BY <1>1, <1>3, <1>4

(* remove_peer leaves the other entries, each once.                        *)
LEMMA RemovePeerDistinct ==
  ASSUME NEW S, NEW list \in Seq(S), IsInjective(list), NEW idx \in 0..Len(list) - 1
  PROVE  /\ IsInjective(RemovePeer(list, idx))
         /\ \A j \in 1..Len(RemovePeer(list, idx)) : \E k \in 1..Len(list) :
              k # idx + 1 /\ RemovePeer(list, idx)[j] = list[k]
<1> DEFINE new == RemovePeer(list, idx)
<1>1. /\ new \in Seq(S) /\ Len(new) = Len(list) - 1
      /\ \A j \in 1..Len(list) - 1 :
           new[j] = IF j < idx + 1 THEN list[j] ELSE list[j + 1]
  <2>1. idx + 1 \in 1..Len(list)
    BY LenProperties
  <2> QED BY <2>1, RemoveAtProps DEF RemovePeer
<1>2. Len(list) \in Nat /\ DOMAIN list = 1..Len(list) /\ DOMAIN new = 1..Len(new)
  BY <1>1
<1> HIDE DEF new
<1>3. ASSUME NEW a \in 1..Len(list) - 1, NEW b \in 1..Len(list) - 1, new[a] = new[b]
      PROVE  a = b
  <2> DEFINE at(j) == IF j < idx + 1 THEN j ELSE j + 1
  <2>1. at(a) \in 1..Len(list) /\ at(b) \in 1..Len(list)
    BY <1>2
  <2>2. new[a] = list[at(a)] /\ new[b] = list[at(b)]
    BY <1>1
  <2>3. at(a) = at(b)
    BY <1>2, <1>3, <2>1, <2>2 DEF IsInjective
  <2> QED BY <1>2, <2>3
<1>4. IsInjective(new)
  BY <1>1, <1>2, <1>3 DEF IsInjective
<1>5. ASSUME NEW j \in 1..Len(new)
      PROVE  \E k \in 1..Len(list) : k # idx + 1 /\ new[j] = list[k]
  <2>1. CASE j < idx + 1
    BY <1>1, <1>2, <2>1
  <2>2. CASE ~(j < idx + 1)
    <3>1. j + 1 \in 1..Len(list) /\ j + 1 # idx + 1
      BY <1>1, <1>2, <2>2
    <3> QED BY <1>1, <2>2, <3>1
  <2> QED BY <2>1, <2>2
<1> QED BY <1>4, <1>5 DEF new

(* A peer added to a list that does not have it is in it once.             *)
LEMMA AddPeerDistinct ==
  ASSUME NEW S, NEW list \in Seq(S), IsInjective(list), NEW p \in S,
         \A i \in 1..Len(list) : list[i] # p
  PROVE  IsInjective(AddPeer(list, p))
<1> DEFINE new == AddPeer(list, p)
<1>1. /\ new \in Seq(S) /\ Len(list) \in Nat /\ Len(new) = Len(list) + 1
      /\ new[Len(list) + 1] = p
      /\ \A i \in 1..Len(list) : new[i] = list[i]
  BY AppendProperties, LenProperties DEF AddPeer
<1>2. DOMAIN list = 1..Len(list) /\ DOMAIN new = 1..Len(new)
  BY <1>1
<1> HIDE DEF new
<1>3. \A i \in 1..Len(new) : i \in 1..Len(list) \/ i = Len(list) + 1
  BY <1>1
<1>4. ASSUME NEW a \in 1..Len(new), NEW b \in 1..Len(new), new[a] = new[b]
      PROVE  a = b
  <2>1. CASE a \in 1..Len(list) /\ b \in 1..Len(list)
    <3>1. list[a] = list[b]
      BY <1>1, <1>4, <2>1
    <3> QED BY <1>2, <2>1, <3>1 DEF IsInjective
  <2>2. CASE ~(a \in 1..Len(list) /\ b \in 1..Len(list))
    BY <1>1, <1>3, <1>4, <2>2
  <2> QED BY <2>1, <2>2
<1>5. IsInjective(new)
  BY <1>2, <1>4 DEF IsInjective
<1> QED BY <1>5 DEF new

(* An order of a set of peers has each of them once.                       *)
LEMMA PeersInOrderDistinct ==
  ASSUME NEW S \in SUBSET Peer
  PROVE  /\ IsInjective(SetToSeq(S))
         /\ \A s \in SetToSeqs(S) : IsInjective(s)
<1>1. IsFiniteSet(S)
  BY FinitePeers, FS_Subset
<1>2. \E f \in [1..Cardinality(S) -> S] : IsInjective(f)
  BY <1>1, FS_CardinalityType DEF ExistsBijection, Bijection, Injection, IsInjective
<1>3. IsInjective(SetToSeq(S))
  BY <1>2 DEF SetToSeq
<1>4. ASSUME NEW s \in SetToSeqs(S) PROVE IsInjective(s)
  BY DEF SetToSeqs, IsInjective
<1> QED BY <1>3, <1>4

(* Two lists that have each peer once and none in common, one after the    *)
(* other.                                                                  *)
LEMMA ConcatDistinct ==
  ASSUME NEW S, NEW a \in Seq(S), NEW b \in Seq(S), IsInjective(a), IsInjective(b),
         \A i \in 1..Len(a), j \in 1..Len(b) : a[i] # b[j]
  PROVE  IsInjective(a \o b)
<1> DEFINE c == a \o b
<1>1. /\ c \in Seq(S) /\ Len(a) \in Nat /\ Len(b) \in Nat /\ Len(c) = Len(a) + Len(b)
      /\ \A k \in 1..Len(c) : c[k] = IF k <= Len(a) THEN a[k] ELSE b[k - Len(a)]
  BY ConcatProperties, LenProperties
<1>2. /\ DOMAIN a = 1..Len(a) /\ DOMAIN b = 1..Len(b) /\ DOMAIN c = 1..Len(c)
  BY <1>1
<1> HIDE DEF c
<1>3. ASSUME NEW i \in 1..Len(c), NEW j \in 1..Len(c), c[i] = c[j]
      PROVE  i = j
  <2>1. CASE i <= Len(a) /\ j <= Len(a)
    <3>1. i \in 1..Len(a) /\ j \in 1..Len(a) /\ a[i] = a[j]
      BY <1>1, <1>3, <2>1
    <3> QED BY <1>2, <3>1 DEF IsInjective
  <2>2. CASE ~(i <= Len(a)) /\ ~(j <= Len(a))
    <3>1. i - Len(a) \in 1..Len(b) /\ j - Len(a) \in 1..Len(b)
      BY <1>1, <2>2
    <3>2. b[i - Len(a)] = b[j - Len(a)]
      BY <1>1, <1>3, <2>2
    <3>3. i - Len(a) = j - Len(a)
      BY <1>2, <3>1, <3>2 DEF IsInjective
    <3> QED BY <1>1, <3>3
  <2>3. CASE i <= Len(a) /\ ~(j <= Len(a))
    <3>1. i \in 1..Len(a) /\ j - Len(a) \in 1..Len(b)
      BY <1>1, <2>3
    <3>2. a[i] = b[j - Len(a)]
      BY <1>1, <1>3, <2>3
    <3> QED BY <3>1, <3>2
  <2>4. CASE ~(i <= Len(a)) /\ j <= Len(a)
    <3>1. j \in 1..Len(a) /\ i - Len(a) \in 1..Len(b)
      BY <1>1, <2>4
    <3>2. a[j] = b[i - Len(a)]
      BY <1>1, <1>3, <2>4
    <3> QED BY <3>1, <3>2
  <2> QED BY <2>1, <2>2, <2>3, <2>4
<1>4. IsInjective(c)
  BY <1>2, <1>3 DEF IsInjective
<1> QED BY <1>4 DEF c

(* A shuffled list has the entries of the list. *)
LEMMA ShufflesProps ==
  ASSUME NEW S, NEW list \in Seq(S), NEW order \in Shuffles(list)
  PROVE  /\ order \in Seq(S)
         /\ \A i \in 1..Len(order) : \E k \in 1..Len(list) : order[i] = list[k]
<1>1. Len(list) \in Nat /\ \A k \in 1..Len(list) : list[k] \in S
  BY LenProperties, ElementOfSeq
<1>2. PICK f \in [1..Len(list) -> 1..Len(list)] :
        order = [i \in 1..Len(list) |-> list[f[i]]]
  BY DEF Shuffles
<1>3. \A i \in 1..Len(list) : f[i] \in 1..Len(list) /\ list[f[i]] \in S
  BY <1>1
<1>4. order \in Seq(S) /\ Len(order) = Len(list)
  BY <1>1, <1>2, <1>3
<1> QED BY <1>2, <1>3, <1>4

(* All entries but the last. *)
LEMMA FrontProps ==
  ASSUME NEW S, NEW s \in Seq(S), s # <<>>
  PROVE  /\ SubSeq(s, 1, Len(s) - 1) \in Seq(S)
         /\ Len(s) \in 1..Len(s)
         /\ \A i \in 1..Len(SubSeq(s, 1, Len(s) - 1)) :
              i \in 1..Len(s) /\ SubSeq(s, 1, Len(s) - 1)[i] = s[i]
<1>1. Len(s) \in Nat /\ Len(s) # 0 /\ \A i \in 1..Len(s) : s[i] \in S
  BY LenProperties, ElementOfSeq, EmptySeq
<1> DEFINE k == Len(s) - 1
<1>2. Len(s) \in 1..Len(s) /\ k \in Nat /\ k <= Len(s)
  BY <1>1
<1> HIDE DEF k
<1>3. \A i \in 1..k : i \in 1..Len(s) /\ s[i] \in S
  BY <1>1, <1>2
<1>4. /\ SubSeq(s, 1, k) \in Seq(S)
      /\ Len(SubSeq(s, 1, k)) = IF 1 <= k THEN k - 1 + 1 ELSE 0
      /\ \A i \in 1..k - 1 + 1 : SubSeq(s, 1, k)[i] = s[1 + i - 1]
  BY <1>2, <1>3, SubSeqProperties
<1>5. Len(SubSeq(s, 1, k)) = k /\ \A i \in 1..k : SubSeq(s, 1, k)[i] = s[i]
  BY <1>2, <1>4
<1> QED BY <1>2, <1>3, <1>4, <1>5 DEF k

-----------------------------------------------------------------------------
(* What is in the sum of two bags is in one of them. *)
LEMMA BagSumDomain ==
  ASSUME NEW b, NEW c
  PROVE  DOMAIN (b (+) c) = DOMAIN b \cup DOMAIN c
BY DEF (+)

(* Taking one copy of m out of a bag leaves all the rest there. *)
LEMMA WithoutDomain ==
  ASSUME NEW b, NEW m
  PROVE  /\ DOMAIN Without(b, m) \subseteq DOMAIN b
         /\ DOMAIN b \ {m} \subseteq DOMAIN Without(b, m)
BY DEF Without

(* Send adds m and nothing else, at the receiver and nowhere else, and     *)
(* loses nothing.                                                          *)
LEMMA SendProps ==
  ASSUME NEW box, DOMAIN box = Node, NEW n, NEW to, NEW m
  PROVE  /\ DOMAIN Send(box, n, to, m) = Node
         /\ \A d \in Node :
              DOMAIN Send(box, n, to, m)[d] =
                DOMAIN box[d] \cup IF ~starved[n] /\ d = to /\ up[d] THEN {m} ELSE {}
<1>1. CASE starved[n]
  <2>1. Send(box, n, to, m) = box
    BY <1>1 DEF Send, SendEach
  <2> QED BY <1>1, <2>1
<1>2. CASE ~starved[n]
  <2>1. Send(box, n, to, m) =
          [d \in Node |-> IF d \in {to} /\ up[d]
                          THEN box[d] (+) [x \in {m} |-> 1] ELSE box[d]]
    BY <1>2 DEF Send, SendEach
  <2>2. ASSUME NEW d \in Node
        PROVE  DOMAIN Send(box, n, to, m)[d] =
                 DOMAIN box[d] \cup IF d = to /\ up[d] THEN {m} ELSE {}
    <3>1. DOMAIN (box[d] (+) [x \in {m} |-> 1]) = DOMAIN box[d] \cup {m}
      BY BagSumDomain
    <3>2. CASE d = to /\ up[d]
      BY <2>1, <3>1, <3>2
    <3>3. CASE ~(d = to /\ up[d])
      BY <2>1, <3>3
    <3> QED BY <3>2, <3>3
  <2> QED BY <1>2, <2>1, <2>2
<1> QED BY <1>1, <1>2

(* SendToPeers adds m and nothing else, to the inboxes of the chosen peers.*)
LEMMA SendToPeersProps ==
  ASSUME NEW box, DOMAIN box = Node, NEW n, NEW positions, NEW m
  PROVE  /\ DOMAIN SendToPeers(box, n, positions, m) = Node
         /\ \A d \in Node :
              DOMAIN SendToPeers(box, n, positions, m)[d] =
                DOMAIN box[d] \cup
                  IF ~starved[n] /\ up[d] /\ \E i \in positions : peers[n][i].udp = d
                  THEN {m} ELSE {}
<1> DEFINE dests == {peers[n][i].udp : i \in positions}
           count(d) == Cardinality({i \in positions : peers[n][i].udp = d})
<1>1. CASE starved[n]
  <2>1. SendToPeers(box, n, positions, m) = box
    BY <1>1 DEF SendToPeers, SendEach
  <2> QED BY <1>1, <2>1
<1>2. CASE ~starved[n]
  <2>1. SendToPeers(box, n, positions, m) =
          [d \in Node |-> IF d \in dests /\ up[d]
                          THEN box[d] (+) [x \in {m} |-> count(d)] ELSE box[d]]
    BY <1>2 DEF SendToPeers, SendEach
  <2>2. \A d : d \in dests <=> \E i \in positions : peers[n][i].udp = d
    OBVIOUS
  <2> HIDE DEF dests, count
  <2>3. ASSUME NEW d \in Node
        PROVE  DOMAIN SendToPeers(box, n, positions, m)[d] =
                 DOMAIN box[d] \cup IF d \in dests /\ up[d] THEN {m} ELSE {}
    <3>1. DOMAIN (box[d] (+) [x \in {m} |-> count(d)]) = DOMAIN box[d] \cup {m}
      BY BagSumDomain
    <3>2. CASE d \in dests /\ up[d]
      BY <2>1, <3>1, <3>2
    <3>3. CASE ~(d \in dests /\ up[d])
      BY <2>1, <3>3
    <3> QED BY <3>2, <3>3
  <2> QED BY <1>2, <2>1, <2>2, <2>3
<1> QED BY <1>1, <1>2

(* The fields of datagrams of each type, and of the states of the UDP      *)
(* thread.                                                                 *)
LEMMA MessageFields ==
  ASSUME NEW m \in Message
  PROVE  /\ m.from \in Port
         /\ m.type = "GOSSIP_UPDATE" => m.updates \in Seq(Update)
         /\ m.type = "REQUEST_PROBE" => m.target \in Port
BY DEF Message

(* What a state of the UDP thread carries with it. *)
LEMMA UdpFields ==
  ASSUME NEW t \in UdpState
  PROVE  /\ t.at = "handle" => t.msg \in Message
         /\ t.at = "fulfil" => t.acked \in Port
         /\ t.at = "update" => t.todo \in Seq(Update)
<1>1. t \in [at : {"recv", "reset"}] \/ t \in [at : {"handle"}, msg : Message]
        \/ t \in [at : {"fulfil"}, acked : Port] \/ t \in [at : {"update"}, todo : Seq(Update)]
  BY DEF UdpState
<1> QED BY <1>1

(* The states that the listener sets are states of it. *)
LEMMA UdpStates ==
  /\ Recv \in UdpState
  /\ [at |-> "reset"] \in UdpState
  /\ \A m \in Message : [at |-> "handle", msg |-> m] \in UdpState
  /\ \A p \in Port : [at |-> "fulfil", acked |-> p] \in UdpState
  /\ \A us \in Seq(Update) : [at |-> "update", todo |-> us] \in UdpState
BY DEF UdpState, Recv

(* The datagrams that the handlers send are datagrams. *)
LEMMA Messages ==
  /\ \A p \in Port, type \in {"PROBE", "ACK_PROBE", "NOT_A_PEER"} :
       [type |-> type, from |-> p] \in Message
  /\ \A p, q \in Port : [type |-> "REQUEST_PROBE", from |-> p, target |-> q] \in Message
  /\ \A p \in Port, us \in Seq(Update) :
       [type |-> "GOSSIP_UPDATE", from |-> p, updates |-> us] \in Message
BY DEF Message

(* Reading a datagram: it is handled next, or its sender is told that it   *)
(* is not a peer.                                                          *)
LEMMA ReceiveProps ==
  ASSUME UdpTypeOK, NEW n \in Node, Receive(n)
  PROVE  /\ UdpTypeOK'
         /\ peers' = peers
         /\ \A d \in Node : DOMAIN inbox'[d] \subseteq
              DOMAIN inbox[d] \cup {[type |-> "NOT_A_PEER", from |-> n]}
         /\ \/ udp' = udp
            \/ \E m \in DOMAIN inbox[n] :
                 udp' = [udp EXCEPT ![n] = [at |-> "handle", msg |-> m]]
<1>1. PICK m \in DOMAIN inbox[n] :
        LET rest == [inbox EXCEPT ![n] = Without(@, m)]
        IN  \/ /\ IsPeer(peers[n], m.from)
               /\ udp' = [udp EXCEPT ![n] = [at |-> "handle", msg |-> m]]
               /\ inbox' = rest
            \/ /\ ~IsPeer(peers[n], m.from)
               /\ inbox' = Send(rest, n, m.from, [type |-> "NOT_A_PEER", from |-> n])
               /\ UNCHANGED udp
  BY DEF Receive
<1> DEFINE rest == [inbox EXCEPT ![n] = Without(@, m)]
           note == [type |-> "NOT_A_PEER", from |-> n]
<1>2. DOMAIN rest = Node /\ \A d \in Node : DOMAIN rest[d] \subseteq DOMAIN inbox[d]
  BY WithoutDomain DEF UdpTypeOK
<1>3. m \in Message /\ note \in Message
  BY Messages, PortAssumption DEF UdpTypeOK
<1>4. up' = up /\ starved' = starved /\ peers' = peers
  BY DEF Receive
<1>5. CASE inbox' = rest /\ udp' = [udp EXCEPT ![n] = [at |-> "handle", msg |-> m]]
  <2>1. udp' \in [Node -> UdpState]
    BY <1>3, <1>5, UdpStates DEF UdpTypeOK
  <2>2. DOMAIN inbox' = Node /\ \A d \in Node : DOMAIN inbox'[d] \subseteq DOMAIN inbox[d]
    BY <1>2, <1>5
  <2> QED BY <1>4, <1>5, <2>1, <2>2 DEF UdpTypeOK
<1>6. CASE inbox' = Send(rest, n, m.from, note) /\ udp' = udp
  <2> HIDE DEF rest
  <2>1. DOMAIN inbox' = Node
    BY <1>2, <1>6, SendProps
  <2>2. \A d \in Node : DOMAIN inbox'[d] \subseteq DOMAIN rest[d] \cup {note}
    BY <1>2, <1>6, SendProps
  <2>3. \A d \in Node : DOMAIN inbox'[d] \subseteq DOMAIN inbox[d] \cup {note}
    BY <1>2, <2>2
  <2> HIDE DEF note
  <2>4. UdpTypeOK'
    BY <1>3, <1>4, <1>6, <2>1, <2>3 DEF UdpTypeOK
  <2> QED BY <1>4, <1>6, <2>3, <2>4 DEF note
<1> QED BY <1>1, <1>5, <1>6
=============================================================================
