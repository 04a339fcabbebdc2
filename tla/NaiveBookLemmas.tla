-------------------------- MODULE NaiveBookLemmas ---------------------------
(***************************************************************************)
(* Lemmas about the naive book's containers: the best price of a map, what *)
(* erase does to a list, and that unlisting an order, changing the figures *)
(* of listed orders and appending one keep index, lists and time order in  *)
(* agreement.                                                              *)
(***************************************************************************)
EXTENDS NaiveOrderBook, SequenceTheorems, WellFoundedInduction, TLAPS

(* The provers may spend twenty seconds on a leaf.                         *)
USE SMTT(20), Z3T(20), ZenonT(20)

-----------------------------------------------------------------------------
(* The best price of a set.                                                *)

(* Every non-empty set of level prices has a best one for either side:     *)
(* begin() of a non-empty map is a level.                                  *)
LEMMA BestExists ==
  ASSUME NEW s \in Side, NEW S \in SUBSET LevelPrice, S # {}
  PROVE  /\ Best(s, S) \in S
         /\ \A q \in S : ~Better(s, q, Best(s, S))
<1> USE MaxPriceAssumption DEF LevelPrice
<1>1. S \subseteq Nat
  OBVIOUS
<1>2. \E p \in S : \A q \in S : ~(q < p)
  <2>1. PICK p \in S : \A q \in S : ~(<<q, p>> \in OpToRel(<, Nat))
    BY <1>1, NatLessThanWellFounded, WFMin, Zenon
  <2>2. \A q \in S : ~(q < p)
    BY <2>1, <1>1, Zenon DEF OpToRel
  <2> QED BY <2>2
<1>3. \E p \in S : \A q \in S : ~(q > p)
  <2> DEFINE T == {MaxPrice - p : p \in S}
  <2>0. \A p \in S : MaxPrice - p \in Nat
    OBVIOUS
  <2>1. T \subseteq Nat /\ T # {}
    BY <2>0, Zenon
  <2>2. PICK t \in T : \A u \in T : ~(<<u, t>> \in OpToRel(<, Nat))
    <3> HIDE DEF T
    <3> QED BY <2>1, NatLessThanWellFounded, WFMin, Zenon
  <2>3. PICK p \in S : t = MaxPrice - p
    BY <2>2, Zenon
  <2>4. ASSUME NEW q \in S PROVE ~(q > p)
    <3>1. MaxPrice - q \in T
      OBVIOUS
    <3>2. ~(MaxPrice - q < MaxPrice - p)
      BY <3>1, <2>1, <2>2, <2>3, Zenon DEF OpToRel
    <3> QED BY <3>2, <1>1
  <2> QED BY <2>4
<1>4. \E p \in S : \A q \in S : ~Better(s, q, p)
  BY <1>2, <1>3, Zenon DEF Better, Side
<1> QED BY <1>4, Zenon DEF Best

(* list::erase at position i shifts the later nodes down by one.           *)
LEMMA EraseAtProperties ==
  ASSUME NEW S, NEW q \in Seq(S), NEW i \in 1 .. Len(q)
  PROVE  /\ EraseAt(q, i) \in Seq(S)
         /\ Len(EraseAt(q, i)) = Len(q) - 1
         /\ \A j \in 1 .. Len(q) - 1 :
               EraseAt(q, i)[j] = IF j < i THEN q[j] ELSE q[j + 1]
<1> DEFINE a == SubSeq(q, 1, i - 1)
           b == SubSeq(q, i + 1, Len(q))
<1>0. Len(q) \in Nat /\ \A k \in 1 .. Len(q) : q[k] \in S
  BY LenProperties, ElementOfSeq
<1>1. /\ a \in Seq(S) /\ Len(a) = i - 1
      /\ \A j \in 1 .. i - 1 : a[j] = q[j]
  BY <1>0, SubSeqProperties
<1>2. /\ b \in Seq(S) /\ Len(b) = Len(q) - i
      /\ \A j \in 1 .. Len(q) - i : b[j] = q[i + j]
  BY <1>0, SubSeqProperties
<1>3. /\ a \o b \in Seq(S) /\ Len(a \o b) = Len(q) - 1
      /\ \A j \in 1 .. Len(q) - 1 :
            (a \o b)[j] = IF j <= i - 1 THEN a[j] ELSE b[j - (i - 1)]
  <2> HIDE DEF a, b
  <2>1. /\ a \o b \in Seq(S) /\ Len(a \o b) = Len(a) + Len(b)
        /\ \A j \in 1 .. Len(a) + Len(b) :
              (a \o b)[j] = IF j <= Len(a) THEN a[j] ELSE b[j - Len(a)]
    BY <1>1, <1>2, ConcatProperties, Zenon
  <2>2. Len(a) + Len(b) = Len(q) - 1
    BY <1>0, <1>1, <1>2
  <2> QED BY <1>1, <2>1, <2>2
<1>4. EraseAt(q, i) = a \o b
  BY DEF EraseAt
<1>5. \A j \in 1 .. Len(q) - 1 : (a \o b)[j] = IF j < i THEN q[j] ELSE q[j + 1]
  <2> HIDE DEF a, b
  <2> TAKE j \in 1 .. Len(q) - 1
  <2>1. CASE j < i
    BY <2>1, <1>0, <1>1, <1>3
  <2>2. CASE ~(j < i)
    <3>1. /\ j - (i - 1) \in 1 .. Len(q) - i
          /\ i + (j - (i - 1)) = j + 1
      BY <2>2, <1>0
    <3>2. b[j - (i - 1)] = q[j + 1]
      BY <3>1, <1>2
    <3> QED BY <2>2, <3>2, <1>0, <1>3
  <2> QED BY <2>1, <2>2, Zenon
<1> QED BY <1>3, <1>4, <1>5, Zenon

-----------------------------------------------------------------------------
(* Changing one level of the book.                                         *)

LevelsOK(lv) ==
    /\ DOMAIN lv = Side
    /\ \A s \in Side : IsMap(lv[s], LevelPrice, PriceLevel)

MapsOK(lv, nd, ix) ==
    /\ LevelsOK(lv)
    /\ IsMap(nd, OrderIds, Order)
    /\ IsMap(ix, OrderIds, Locator)
    /\ DOMAIN nd = DOMAIN ix

(* lv2 is lv except for the list at side s and price p, which is now q; a  *)
(* level that is gone has an empty list.                                   *)
OnlyLevel(lv, lv2, s, p, q) ==
    /\ \A t \in Side : t # s => lv2[t] = lv[t]
    /\ DOMAIN lv2[s] \ {p} = DOMAIN lv[s] \ {p}
    /\ \A r \in DOMAIN lv[s] \ {p} : lv2[s][r] = lv[s][r]
    /\ p \in DOMAIN lv2[s] => lv2[s][p].orders = q
    /\ p \notin DOMAIN lv2[s] => q = << >>

(* map[price] = level, and what stays.                                     *)
LEMMA SetLevelOK ==
  ASSUME NEW lv, LevelsOK(lv), NEW s \in Side, NEW p \in LevelPrice,
         NEW l \in PriceLevel
  PROVE  /\ LevelsOK(SetLevel(lv, s, p, l))
         /\ OnlyLevel(lv, SetLevel(lv, s, p, l), s, p, l.orders)
         /\ SetLevel(lv, s, p, l)[s][p] = l
         /\ DOMAIN SetLevel(lv, s, p, l)[s] = DOMAIN lv[s] \cup {p}
BY DEF LevelsOK, SetLevel, OnlyLevel, IsMap, Put

(* map.erase(price) of a level without orders.                             *)
LEMMA EraseLevelOK ==
  ASSUME NEW lv, LevelsOK(lv), NEW s \in Side, NEW p \in LevelPrice
  PROVE  /\ LevelsOK(EraseLevel(lv, s, p))
         /\ OnlyLevel(lv, EraseLevel(lv, s, p), s, p, << >>)
         /\ DOMAIN EraseLevel(lv, s, p)[s] = DOMAIN lv[s] \ {p}
BY DEF LevelsOK, EraseLevel, OnlyLevel, IsMap, Erase

(* The levels beside the one that changed.                                 *)
LEMMA OtherLevels ==
  ASSUME NEW lv, NEW lv2, NEW s \in Side, NEW p, NEW q, OnlyLevel(lv, lv2, s, p, q),
         NEW t \in Side, NEW r, ~(t = s /\ r = p)
  PROVE  /\ r \in DOMAIN lv2[t] <=> r \in DOMAIN lv[t]
         /\ r \in DOMAIN lv[t] => lv2[t][r] = lv[t][r]
BY DEF OnlyLevel

LEMMA PutOK ==
  ASSUME NEW S, NEW T, NEW f, IsMap(f, S, T), NEW k \in S, NEW v \in T
  PROVE  /\ IsMap(Put(f, k, v), S, T)
         /\ DOMAIN Put(f, k, v) = DOMAIN f \cup {k}
         /\ \A x \in DOMAIN f \ {k} : Put(f, k, v)[x] = f[x]
         /\ Put(f, k, v)[k] = v
BY DEF IsMap, Put

(* The fields the components of a consistent book have.                    *)
LEMMA BookFields ==
  ASSUME NEW lv, NEW nd, NEW ix, MapsOK(lv, nd, ix)
  PROVE  /\ \A s \in Side : \A p \in DOMAIN lv[s] :
               /\ p \in LevelPrice
               /\ lv[s][p] \in PriceLevel
               /\ lv[s][p].total_quantity \in Quantity
               /\ lv[s][p].orders \in Seq(OrderIds)
               /\ Len(lv[s][p].orders) \in Nat
               /\ \A i \in 1 .. Len(lv[s][p].orders) :
                     lv[s][p].orders[i] \in OrderIds
         /\ \A id \in DOMAIN ix :
               /\ id \in OrderIds
               /\ nd[id] \in Order
               /\ ix[id] \in Locator
               /\ ix[id].side \in Side
               /\ ix[id].price \in LevelPrice
               /\ ix[id] = [side |-> ix[id].side, price |-> ix[id].price]
BY LenProperties, ElementOfSeq
   DEF MapsOK, LevelsOK, IsMap, PriceLevel, Locator

(* Taking one node out of a list, its order out of the index and its level *)
(* out of the map if the list is now empty keeps the rest consistent.      *)
LEMMA UnlistKeeps ==
  ASSUME NEW lv, NEW nd, NEW ix, MapsOK(lv, nd, ix),
         Located(lv, nd, ix), Indexed(lv, ix), Fifo(lv, nd),
         NEW s \in Side, NEW p \in DOMAIN lv[s],
         NEW k \in 1 .. Len(lv[s][p].orders), NEW id,
         id = lv[s][p].orders[k],
         NEW lv2, LevelsOK(lv2),
         OnlyLevel(lv, lv2, s, p, EraseAt(lv[s][p].orders, k))
  PROVE  /\ Located(lv2, Erase(nd, id), Erase(ix, id))
         /\ Indexed(lv2, Erase(ix, id))
         /\ Fifo(lv2, Erase(nd, id))
<1> DEFINE q == lv[s][p].orders
           q2 == EraseAt(q, k)
           nd2 == Erase(nd, id)
           ix2 == Erase(ix, id)
<1>0. q \in Seq(OrderIds) /\ Len(q) \in Nat /\ k \in 1 .. Len(q)
  BY BookFields
<1>1. /\ q2 \in Seq(OrderIds) /\ Len(q2) = Len(q) - 1
      /\ \A j \in 1 .. Len(q2) : q2[j] = IF j < k THEN q[j] ELSE q[j + 1]
  <2> HIDE DEF q
  <2> QED BY <1>0, EraseAtProperties
<1>2. /\ DOMAIN nd2 = DOMAIN nd \ {id} /\ DOMAIN ix2 = DOMAIN ix \ {id}
      /\ \A x \in DOMAIN ix2 : nd2[x] = nd[x] /\ ix2[x] = ix[x]
  BY DEF MapsOK, Erase
<1>3. /\ id \in DOMAIN ix /\ ix[id] = [side |-> s, price |-> p]
      /\ \A j \in 1 .. Len(q) : q[j] = id <=> j = k
  BY DEF Indexed
<1>4. ASSUME NEW t \in Side, NEW r \in DOMAIN lv2[t]
      PROVE  /\ t = s /\ r = p => lv2[t][r].orders = q2
             /\ ~(t = s /\ r = p) => r \in DOMAIN lv[t] /\ lv2[t][r] = lv[t][r]
  BY <1>4 DEF OnlyLevel
<1> HIDE DEF q, q2, nd2, ix2
<1>5. Located(lv2, nd2, ix2)
  <2> SUFFICES ASSUME NEW x \in DOMAIN ix2
               PROVE  /\ ix2[x].price \in DOMAIN lv2[ix2[x].side]
                      /\ \E i \in 1 .. Len(lv2[ix2[x].side][ix2[x].price].orders) :
                            lv2[ix2[x].side][ix2[x].price].orders[i] = x
                      /\ nd2[x].side = ix2[x].side
                      /\ nd2[x].price = ix2[x].price
    BY DEF Located
  <2>1. x \in DOMAIN ix /\ x # id /\ ix2[x] = ix[x] /\ nd2[x] = nd[x]
    BY <1>2
  <2>2. /\ ix[x].side \in Side
        /\ ix[x].price \in DOMAIN lv[ix[x].side]
        /\ nd[x].side = ix[x].side /\ nd[x].price = ix[x].price
    BY <2>1, BookFields DEF Located
  <2>3. PICK i \in 1 .. Len(lv[ix[x].side][ix[x].price].orders) :
            lv[ix[x].side][ix[x].price].orders[i] = x
    BY <2>1 DEF Located
  <2>4. CASE ix[x].side = s /\ ix[x].price = p
    <3>1. i \in 1 .. Len(q) /\ q[i] = x /\ i # k
      BY <2>1, <2>3, <2>4, <1>3 DEF q
    <3>2. PICK j \in 1 .. Len(q2) : q2[j] = x
      <4>1. CASE i < k
        BY <4>1, <3>1, <1>0, <1>1
      <4>2. CASE i > k
        <5>1. i - 1 \in 1 .. Len(q2) /\ ~(i - 1 < k) /\ (i - 1) + 1 = i
          BY <4>2, <3>1, <1>0, <1>1
        <5> QED BY <5>1, <3>1, <1>0, <1>1, Zenon
      <4> QED BY <4>1, <4>2, <3>1, <1>0, <1>1
    <3>3. p \in DOMAIN lv2[s]
      BY <3>2, <1>0, <1>1 DEF OnlyLevel, q2, q
    <3>4. lv2[s][p].orders = q2
      BY <3>3, <1>4
    <3> QED BY <2>1, <2>2, <2>4, <3>2, <3>3, <3>4
  <2>5. CASE ~(ix[x].side = s /\ ix[x].price = p)
    <3>1. /\ ix[x].price \in DOMAIN lv2[ix[x].side]
          /\ lv2[ix[x].side][ix[x].price] = lv[ix[x].side][ix[x].price]
      BY <2>2, <2>5 DEF OnlyLevel
    <3> QED BY <2>1, <2>2, <2>3, <3>1
  <2> QED BY <2>4, <2>5
<1>6. Indexed(lv2, ix2)
  <2> SUFFICES ASSUME NEW t \in Side, NEW r \in DOMAIN lv2[t],
                      NEW i \in 1 .. Len(lv2[t][r].orders)
               PROVE  /\ lv2[t][r].orders[i] \in DOMAIN ix2
                      /\ ix2[lv2[t][r].orders[i]] = [side |-> t, price |-> r]
                      /\ \A j \in 1 .. Len(lv2[t][r].orders) :
                            lv2[t][r].orders[i] = lv2[t][r].orders[j] => i = j
    BY Zenon DEF Indexed
  <2>1. CASE t = s /\ r = p
    <3>1. lv2[t][r].orders = q2
      BY <1>4, <2>1
    <3>2. \A m \in 1 .. Len(q) :
             /\ q[m] \in DOMAIN ix /\ ix[q[m]] = [side |-> s, price |-> p]
             /\ \A n \in 1 .. Len(q) : q[m] = q[n] => m = n
      BY DEF Indexed, q
    <3>3. \A m \in 1 .. Len(q2) :
             \E n \in 1 .. Len(q) : n = (IF m < k THEN m ELSE m + 1) /\ q2[m] = q[n]
      BY <1>0, <1>1, SMTT(30) DEF q
    <3>4. /\ q2[i] \in DOMAIN ix /\ q2[i] # id
          /\ ix[q2[i]] = [side |-> s, price |-> p]
      BY <3>1, <3>2, <3>3, <1>0, <1>1, <1>3
    <3>5. ASSUME NEW j \in 1 .. Len(q2), q2[i] = q2[j] PROVE i = j
      BY <3>1, <3>2, <3>3, <3>5, <1>0, <1>1
    <3> QED BY <2>1, <3>1, <3>4, <3>5, <1>2
  <2>2. CASE ~(t = s /\ r = p)
    <3>1. r \in DOMAIN lv[t] /\ lv2[t][r] = lv[t][r]
      BY <1>4, <2>2
    <3>2. /\ lv[t][r].orders[i] \in DOMAIN ix
          /\ ix[lv[t][r].orders[i]] = [side |-> t, price |-> r]
          /\ \A j \in 1 .. Len(lv[t][r].orders) :
                lv[t][r].orders[i] = lv[t][r].orders[j] => i = j
      BY <3>1, Zenon DEF Indexed
    <3>3. lv[t][r].orders[i] # id
      BY <3>2, <2>2, <1>3
    <3>4. lv[t][r].orders[i] \in DOMAIN ix2
      BY <3>2, <3>3, <1>2
    <3> QED BY <3>1, <3>2, <3>4, <1>2, Zenon
  <2> QED BY <2>1, <2>2
<1>7. Fifo(lv2, nd2)
  <2> SUFFICES ASSUME NEW t \in Side, NEW r \in DOMAIN lv2[t],
                      NEW i \in 1 .. Len(lv2[t][r].orders),
                      NEW j \in 1 .. Len(lv2[t][r].orders), i < j
               PROVE  nd2[lv2[t][r].orders[i]].sequence_number
                         < nd2[lv2[t][r].orders[j]].sequence_number
    BY DEF Fifo
  <2>0. /\ nd2[lv2[t][r].orders[i]] = nd[lv2[t][r].orders[i]]
        /\ nd2[lv2[t][r].orders[j]] = nd[lv2[t][r].orders[j]]
    BY <1>2, <1>6, Zenon DEF Indexed
  <2>1. CASE t = s /\ r = p
    <3>1. lv2[t][r].orders = q2
      BY <1>4, <2>1
    <3>2. PICK m \in 1 .. Len(q), n \in 1 .. Len(q) :
             m < n /\ q2[i] = q[m] /\ q2[j] = q[n]
      <4>1. \A x \in 1 .. Len(q2) :
               /\ (IF x < k THEN x ELSE x + 1) \in 1 .. Len(q)
               /\ q2[x] = q[IF x < k THEN x ELSE x + 1]
        BY <1>0, <1>1 DEF q
      <4>2. (IF i < k THEN i ELSE i + 1) < (IF j < k THEN j ELSE j + 1)
        BY <3>1, <1>0, <1>1
      <4> QED BY <4>1, <4>2, <3>1
    <3>3. nd[q[m]].sequence_number < nd[q[n]].sequence_number
      BY <3>2, Zenon DEF Fifo, q
    <3> QED BY <2>0, <3>1, <3>2, <3>3
  <2>2. CASE ~(t = s /\ r = p)
    BY <2>0, <2>2, <1>4, Zenon DEF Fifo
  <2> QED BY <2>1, <2>2
<1> QED BY <1>5, <1>6, <1>7 DEF nd2, ix2

(* Changing the quantities or the status of orders, the total of a level,  *)
(* or erasing a level without orders leaves lists and index as they were.  *)
LEMMA SameListsKeep ==
  ASSUME NEW lv, NEW nd, NEW ix, MapsOK(lv, nd, ix),
         Located(lv, nd, ix), Indexed(lv, ix), Fifo(lv, nd),
         NEW s \in Side, NEW p \in DOMAIN lv[s],
         NEW lv2, LevelsOK(lv2), OnlyLevel(lv, lv2, s, p, lv[s][p].orders),
         NEW nd2,
         \A x \in DOMAIN ix : /\ nd2[x].side = nd[x].side
                              /\ nd2[x].price = nd[x].price
                              /\ nd2[x].sequence_number = nd[x].sequence_number
  PROVE  /\ Located(lv2, nd2, ix)
         /\ Indexed(lv2, ix)
         /\ Fifo(lv2, nd2)
<1>1. ASSUME NEW t \in Side, NEW r \in DOMAIN lv2[t]
      PROVE  r \in DOMAIN lv[t] /\ lv2[t][r].orders = lv[t][r].orders
  BY <1>1 DEF OnlyLevel
<1>2. ASSUME NEW t \in Side, NEW r \in DOMAIN lv[t],
             lv[t][r].orders # << >>
      PROVE  r \in DOMAIN lv2[t] /\ lv2[t][r].orders = lv[t][r].orders
  BY <1>2 DEF OnlyLevel
<1>3. Indexed(lv2, ix)
  <2> SUFFICES ASSUME NEW t \in Side, NEW r \in DOMAIN lv2[t],
                      NEW i \in 1 .. Len(lv2[t][r].orders)
               PROVE  /\ lv2[t][r].orders[i] \in DOMAIN ix
                      /\ ix[lv2[t][r].orders[i]] = [side |-> t, price |-> r]
                      /\ \A j \in 1 .. Len(lv2[t][r].orders) :
                            lv2[t][r].orders[i] = lv2[t][r].orders[j] => i = j
    BY Zenon DEF Indexed
  <2>1. r \in DOMAIN lv[t] /\ lv2[t][r].orders = lv[t][r].orders
    BY <1>1
  <2>2. /\ lv[t][r].orders[i] \in DOMAIN ix
        /\ ix[lv[t][r].orders[i]] = [side |-> t, price |-> r]
        /\ \A j \in 1 .. Len(lv[t][r].orders) :
              lv[t][r].orders[i] = lv[t][r].orders[j] => i = j
    BY <2>1 DEF Indexed
  <2> QED BY <2>1, <2>2
<1>4. Fifo(lv2, nd2)
  <2> SUFFICES ASSUME NEW t \in Side, NEW r \in DOMAIN lv2[t],
                      NEW i \in 1 .. Len(lv2[t][r].orders),
                      NEW j \in 1 .. Len(lv2[t][r].orders), i < j
               PROVE  nd2[lv2[t][r].orders[i]].sequence_number
                         < nd2[lv2[t][r].orders[j]].sequence_number
    BY DEF Fifo
  <2>1. nd[lv2[t][r].orders[i]].sequence_number
           < nd[lv2[t][r].orders[j]].sequence_number
    BY <1>1 DEF Fifo
  <2>2. lv2[t][r].orders[i] \in DOMAIN ix /\ lv2[t][r].orders[j] \in DOMAIN ix
    BY <1>3, Zenon DEF Indexed
  <2> QED BY <2>1, <2>2
<1>5. Located(lv2, nd2, ix)
  <2> SUFFICES ASSUME NEW x \in DOMAIN ix
               PROVE  /\ ix[x].price \in DOMAIN lv2[ix[x].side]
                      /\ \E i \in 1 .. Len(lv2[ix[x].side][ix[x].price].orders) :
                            lv2[ix[x].side][ix[x].price].orders[i] = x
                      /\ nd2[x].side = ix[x].side
                      /\ nd2[x].price = ix[x].price
    BY DEF Located
  <2>1. /\ ix[x].side \in Side
        /\ ix[x].price \in DOMAIN lv[ix[x].side]
        /\ nd[x].side = ix[x].side /\ nd[x].price = ix[x].price
    BY BookFields DEF Located
  <2>2. PICK i \in 1 .. Len(lv[ix[x].side][ix[x].price].orders) :
            lv[ix[x].side][ix[x].price].orders[i] = x
    BY DEF Located
  <2>3. lv[ix[x].side][ix[x].price].orders # << >>
    BY <2>2
  <2> QED BY <1>2, <2>1, <2>2, <2>3
<1> QED BY <1>3, <1>4, <1>5

(* Appending a new, newest order to the list of its level.                 *)
LEMMA AppendKeeps ==
  ASSUME NEW lv, NEW nd, NEW ix, MapsOK(lv, nd, ix),
         Located(lv, nd, ix), Indexed(lv, ix), Fifo(lv, nd),
         NEW s \in Side, NEW p \in LevelPrice,
         NEW id \in OrderIds \ DOMAIN ix,
         NEW o \in Order, o.side = s, o.price = p,
         \A x \in DOMAIN nd : nd[x].sequence_number < o.sequence_number,
         NEW lv2, LevelsOK(lv2), p \in DOMAIN lv2[s],
         OnlyLevel(lv, lv2, s, p, Append(LevelAt(lv, s, p).orders, id))
  PROVE  /\ Located(lv2, Put(nd, id, o), Put(ix, id, [side |-> s, price |-> p]))
         /\ Indexed(lv2, Put(ix, id, [side |-> s, price |-> p]))
         /\ Fifo(lv2, Put(nd, id, o))
<1> DEFINE q == LevelAt(lv, s, p).orders
           q2 == Append(q, id)
           loc == [side |-> s, price |-> p]
           nd2 == Put(nd, id, o)
           ix2 == Put(ix, id, loc)
<1>0. q \in Seq(OrderIds) /\ Len(q) \in Nat
  BY BookFields DEF LevelAt
<1>1. /\ Len(q2) = Len(q) + 1 /\ q2[Len(q) + 1] = id
      /\ \A j \in 1 .. Len(q) : q2[j] = q[j]
  <2> HIDE DEF q
  <2> QED BY <1>0
<1>2. /\ DOMAIN nd2 = DOMAIN ix \cup {id} /\ DOMAIN ix2 = DOMAIN ix \cup {id}
      /\ nd2[id] = o /\ ix2[id] = loc
      /\ \A x \in DOMAIN ix : x # id /\ nd2[x] = nd[x] /\ ix2[x] = ix[x]
  BY DEF MapsOK, Put
<1>3. \A j \in 1 .. Len(q) :
         /\ q[j] \in DOMAIN ix /\ ix[q[j]] = loc
         /\ \A m \in 1 .. Len(q) : q[j] = q[m] => j = m
         /\ \A m \in 1 .. Len(q) :
               j < m => nd[q[j]].sequence_number < nd[q[m]].sequence_number
  <2>1. CASE p \in DOMAIN lv[s]
    <3>1. q = lv[s][p].orders
      BY <2>1 DEF LevelAt
    <3> HIDE DEF q
    <3>2. \A j \in 1 .. Len(q) :
             /\ q[j] \in DOMAIN ix /\ ix[q[j]] = [side |-> s, price |-> p]
             /\ \A m \in 1 .. Len(q) : q[j] = q[m] => j = m
      BY <2>1, <3>1 DEF Indexed
    <3>3. \A j, m \in 1 .. Len(q) :
             j < m => nd[q[j]].sequence_number < nd[q[m]].sequence_number
      BY <2>1, <3>1 DEF Fifo
    <3> QED BY <3>2, <3>3, Zenon
  <2>2. CASE p \notin DOMAIN lv[s]
    <3>1. q = << >>
      BY <2>2 DEF LevelAt
    <3> HIDE DEF q
    <3> QED BY <3>1
  <2> QED BY <2>1, <2>2
<1>4. ASSUME NEW t \in Side, NEW r \in DOMAIN lv2[t]
      PROVE  /\ t = s /\ r = p => lv2[t][r].orders = q2
             /\ ~(t = s /\ r = p) => r \in DOMAIN lv[t] /\ lv2[t][r] = lv[t][r]
  BY <1>4 DEF OnlyLevel
<1>5. \A t \in Side : \A r \in DOMAIN lv[t] :
         ~(t = s /\ r = p) => r \in DOMAIN lv2[t] /\ lv2[t][r] = lv[t][r]
  BY DEF OnlyLevel
<1>6. p \in DOMAIN lv[s] => q = lv[s][p].orders
  BY DEF LevelAt
<1> HIDE DEF q, q2, nd2, ix2, loc
<1>7. Located(lv2, nd2, ix2)
  <2> SUFFICES ASSUME NEW x \in DOMAIN ix2
               PROVE  /\ ix2[x].price \in DOMAIN lv2[ix2[x].side]
                      /\ \E i \in 1 .. Len(lv2[ix2[x].side][ix2[x].price].orders) :
                            lv2[ix2[x].side][ix2[x].price].orders[i] = x
                      /\ nd2[x].side = ix2[x].side
                      /\ nd2[x].price = ix2[x].price
    BY DEF Located
  <2>1. CASE x = id
    <3>1. lv2[s][p].orders = q2 /\ Len(q) + 1 \in 1 .. Len(q2)
      BY <1>0, <1>1, <1>4
    <3> QED BY <2>1, <3>1, <1>1, <1>2 DEF loc
  <2>2. CASE x # id
    <3>1. x \in DOMAIN ix /\ ix2[x] = ix[x] /\ nd2[x] = nd[x]
      BY <2>2, <1>2
    <3>2. /\ ix[x].side \in Side
          /\ ix[x].price \in DOMAIN lv[ix[x].side]
          /\ nd[x].side = ix[x].side /\ nd[x].price = ix[x].price
      BY <3>1, BookFields DEF Located
    <3>3. PICK i \in 1 .. Len(lv[ix[x].side][ix[x].price].orders) :
              lv[ix[x].side][ix[x].price].orders[i] = x
      BY <3>1 DEF Located
    <3>4. CASE ix[x].side = s /\ ix[x].price = p
      <4>1. i \in 1 .. Len(q) /\ q[i] = x
        BY <3>2, <3>3, <3>4, <1>6
      <4>2. lv2[s][p].orders = q2 /\ i \in 1 .. Len(q2) /\ q2[i] = x
        BY <4>1, <1>0, <1>1, <1>4
      <4> QED BY <3>1, <3>2, <3>4, <4>2
    <3>5. CASE ~(ix[x].side = s /\ ix[x].price = p)
      <4>1. /\ ix[x].price \in DOMAIN lv2[ix[x].side]
            /\ lv2[ix[x].side][ix[x].price] = lv[ix[x].side][ix[x].price]
        BY <3>2, <3>5, <1>5
      <4> QED BY <3>1, <3>2, <3>3, <4>1
    <3> QED BY <3>4, <3>5
  <2> QED BY <2>1, <2>2
<1>8. Indexed(lv2, ix2)
  <2> SUFFICES ASSUME NEW t \in Side, NEW r \in DOMAIN lv2[t],
                      NEW i \in 1 .. Len(lv2[t][r].orders)
               PROVE  /\ lv2[t][r].orders[i] \in DOMAIN ix2
                      /\ ix2[lv2[t][r].orders[i]] = [side |-> t, price |-> r]
                      /\ \A j \in 1 .. Len(lv2[t][r].orders) :
                            lv2[t][r].orders[i] = lv2[t][r].orders[j] => i = j
    BY Zenon DEF Indexed
  <2>1. CASE t = s /\ r = p
    <3>1. lv2[t][r].orders = q2
      BY <1>4, <2>1
    <3>2. \A m \in 1 .. Len(q2) : q2[m] = id \/ (m \in 1 .. Len(q) /\ q2[m] = q[m])
      BY <1>0, <1>1
    <3>3. q2[i] \in DOMAIN ix2 /\ ix2[q2[i]] = loc
      BY <3>1, <3>2, <1>2, <1>3
    <3>4. ASSUME NEW j \in 1 .. Len(q2), q2[i] = q2[j] PROVE i = j
      <4>1. \A m \in 1 .. Len(q) : q2[m] # id
        BY <1>1, <1>2, <1>3
      <4>2. \A m \in 1 .. Len(q2) : m \notin 1 .. Len(q) => m = Len(q) + 1
        BY <1>0, <1>1
      <4> QED BY <3>1, <3>4, <4>1, <4>2, <1>0, <1>1, <1>3
    <3> QED BY <2>1, <3>1, <3>3, <3>4 DEF loc
  <2>2. CASE ~(t = s /\ r = p)
    <3>1. r \in DOMAIN lv[t] /\ lv2[t][r] = lv[t][r]
      BY <1>4, <2>2
    <3>2. /\ lv[t][r].orders[i] \in DOMAIN ix
          /\ ix[lv[t][r].orders[i]] = [side |-> t, price |-> r]
          /\ \A j \in 1 .. Len(lv[t][r].orders) :
                lv[t][r].orders[i] = lv[t][r].orders[j] => i = j
      BY <3>1, Zenon DEF Indexed
    <3> QED BY <3>1, <3>2, <1>2
  <2> QED BY <2>1, <2>2
<1>9. Fifo(lv2, nd2)
  <2> SUFFICES ASSUME NEW t \in Side, NEW r \in DOMAIN lv2[t],
                      NEW i \in 1 .. Len(lv2[t][r].orders),
                      NEW j \in 1 .. Len(lv2[t][r].orders), i < j
               PROVE  nd2[lv2[t][r].orders[i]].sequence_number
                         < nd2[lv2[t][r].orders[j]].sequence_number
    BY DEF Fifo
  <2>1. CASE t = s /\ r = p
    <3>1. lv2[t][r].orders = q2
      BY <1>4, <2>1
    <3>2. /\ i \in 1 .. Len(q)
          /\ j \in 1 .. Len(q) \/ j = Len(q) + 1
      BY <3>1, <1>0, <1>1
    <3>3. CASE j \in 1 .. Len(q)
      BY <3>1, <3>2, <3>3, <1>1, <1>2, <1>3
    <3>4. CASE j = Len(q) + 1
      BY <3>1, <3>2, <3>4, <1>1, <1>2, <1>3 DEF MapsOK
    <3> QED BY <3>2, <3>3, <3>4
  <2>2. CASE ~(t = s /\ r = p)
    <3>1. r \in DOMAIN lv[t] /\ lv2[t][r] = lv[t][r]
      BY <1>4, <2>2
    <3>2. lv[t][r].orders[i] \in DOMAIN ix /\ lv[t][r].orders[j] \in DOMAIN ix
      BY <3>1, Zenon DEF Indexed
    <3>3. nd[lv[t][r].orders[i]].sequence_number
             < nd[lv[t][r].orders[j]].sequence_number
      BY <3>1, Zenon DEF Fifo
    <3> QED BY <3>1, <3>2, <3>3, <1>2
  <2> QED BY <2>1, <2>2
<1> QED BY <1>7, <1>8, <1>9 DEF nd2, ix2, loc

=============================================================================
