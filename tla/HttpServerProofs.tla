-------------------------- MODULE HttpServerProofs --------------------------
(* Proofs about HttpServer: its list of idle connections, for any number of *)
(* connections, any time-out and any steps of the clock; the answers of     *)
(* php, for any requests, replies and cuts of the stream they come in; and, *)
(* from HttpContext, the replies to any number of requests, with a body of  *)
(* any length and whatever an uninitialised body_lenth holds, however the   *)
(* stream is cut.                                                           *)
EXTENDS HttpContext, HttpServer, SequenceTheorems, TLAPS

-----------------------------------------------------------------------------
(* The list.                                                                *)

ListType ==
  /\ connectionList_ \in Seq(Conns)
  /\ \A i, j \in DOMAIN connectionList_ : connectionList_[i] = connectionList_[j] => i = j

(* Where an entry of the list after erase was before. *)
Before(c, i) == IF i < Position(c) THEN i ELSE i + 1

(* A listed connection is found where Position says.                        *)
LEMMA PositionType ==
  ASSUME NEW c \in Listed
  PROVE  Position(c) \in DOMAIN connectionList_ /\ connectionList_[Position(c)] = c
BY DEF Listed, Position

(* erase takes one entry out and keeps the order of the others. *)
LEMMA EraseType ==
  ASSUME ListType, NEW c \in Listed
  PROVE  /\ Erase(c) \in Seq(Conns)
         /\ Len(Erase(c)) = Len(connectionList_) - 1
         /\ \A i \in 1 .. Len(Erase(c)) :
              /\ Before(c, i) \in DOMAIN connectionList_
              /\ Before(c, i) # Position(c)
              /\ Erase(c)[i] = connectionList_[Before(c, i)]
         /\ \A i, j \in 1 .. Len(Erase(c)) : i < j => Before(c, i) < Before(c, j)
<1> DEFINE n == Len(connectionList_)
<1> DEFINE p == Position(c)
<1>1. n \in Nat /\ DOMAIN connectionList_ = 1 .. n
  BY DEF ListType
<1>2. p \in 1 .. n
  BY <1>1, PositionType
<1>3. \A i \in 1 .. n - 1 : Before(c, i) \in 1 .. n /\ Before(c, i) # p
  BY <1>1, <1>2 DEF Before
<1>4. Erase(c) = [i \in 1 .. n - 1 |-> connectionList_[Before(c, i)]]
  BY DEF Erase, Before
<1>5. \A i \in 1 .. n - 1 : connectionList_[Before(c, i)] \in Conns
  BY <1>1, <1>3 DEF ListType
<1> HIDE DEF n
<1>6. n - 1 \in Nat
  BY <1>1, <1>2
<1>7. Erase(c) \in [1 .. n - 1 -> Conns]
  BY <1>4, <1>5
<1>8. Erase(c) \in Seq(Conns) /\ Len(Erase(c)) = n - 1
  BY <1>6, <1>7
<1>9. \A i, j \in 1 .. n - 1 : i < j => Before(c, i) < Before(c, j)
  BY <1>1, <1>2 DEF Before
<1> QED BY <1>1, <1>3, <1>4, <1>8, <1>9 DEF n

(* What remains is what was there but c. *)
LEMMA EraseContent ==
  ASSUME ListType, NEW c \in Listed
  PROVE  /\ {Erase(c)[i] : i \in 1 .. Len(Erase(c))} = Listed \ {c}
         /\ \A i, j \in 1 .. Len(Erase(c)) : Erase(c)[i] = Erase(c)[j] => i = j
<1> DEFINE n == Len(connectionList_)
<1> DEFINE p == Position(c)
<1> DEFINE l == connectionList_
<1> DEFINE e == Erase(c)
<1>1. n \in Nat /\ DOMAIN l = 1 .. n /\ p \in 1 .. n /\ l[p] = c /\ Len(e) = n - 1
  BY PositionType, EraseType DEF ListType
<1>2. \A i \in 1 .. n - 1 : Before(c, i) \in 1 .. n /\ Before(c, i) # p /\ e[i] = l[Before(c, i)]
  BY <1>1, EraseType
<1>3. \A i, j \in 1 .. n - 1 : i < j => Before(c, i) < Before(c, j)
  BY <1>1, EraseType
<1>4. \A i, j \in 1 .. n : l[i] = l[j] => i = j
  BY <1>1 DEF ListType
<1>5. \A i \in 1 .. n - 1 : e[i] # c
  BY <1>1, <1>2, <1>4
<1>6. \A j \in 1 .. n : j # p => \E i \in 1 .. n - 1 : e[i] = l[j]
  <2> SUFFICES ASSUME NEW j \in 1 .. n, j # p PROVE \E i \in 1 .. n - 1 : e[i] = l[j]
    OBVIOUS
  <2>1. CASE j < p
    <3>1. j \in 1 .. n - 1 /\ Before(c, j) = j
      BY <1>1, <2>1 DEF Before
    <3> QED BY <1>2, <3>1
  <2>2. CASE j > p
    <3>1. j - 1 \in 1 .. n - 1 /\ Before(c, j - 1) = j
      BY <1>1, <2>2 DEF Before
    <3> QED BY <1>2, <3>1
  <2> QED BY <1>1, <2>1, <2>2
<1> HIDE DEF n, p, l, e
<1>7. \A i, j \in 1 .. n - 1 : e[i] = e[j] => i = j
  <2> SUFFICES ASSUME NEW i \in 1 .. n - 1, NEW j \in 1 .. n - 1, e[i] = e[j] PROVE i = j
    OBVIOUS
  <2>1. Before(c, i) = Before(c, j)
    BY <1>2, <1>4
  <2>2. Before(c, i) \in Int /\ Before(c, j) \in Int
    BY <1>1, <1>2
  <2>3. ~(i < j) /\ ~(j < i)
    BY <1>3, <2>1, <2>2
  <2> QED BY <1>1, <2>3
<1>8. {e[i] : i \in 1 .. n - 1} = {l[j] : j \in 1 .. n} \ {c}
  <2>1. ASSUME NEW x \in {e[i] : i \in 1 .. n - 1} PROVE x \in {l[j] : j \in 1 .. n} \ {c}
    <3>1. PICK i \in 1 .. n - 1 : x = e[i]
      BY <2>1
    <3>2. x = l[Before(c, i)] /\ Before(c, i) \in 1 .. n /\ x # c
      BY <1>2, <1>5, <3>1
    <3> QED BY <3>2
  <2>2. ASSUME NEW x \in {l[j] : j \in 1 .. n} \ {c} PROVE x \in {e[i] : i \in 1 .. n - 1}
    <3>1. PICK j \in 1 .. n : x = l[j] /\ x # c
      BY <2>2
    <3>2. j # p
      BY <1>1, <3>1
    <3> QED BY <1>6, <3>1, <3>2
  <2> QED BY <2>1, <2>2
<1> QED BY <1>1, <1>7, <1>8 DEF n, l, e, Listed

-----------------------------------------------------------------------------
(* Types, and the list as the set of the open connections.                  *)

(* What the order of the idle list needs of the types.                      *)
LEMMA TypeGivesList == TypeOK => ListType
BY DEF TypeOK, ListType

(* What the steps do to list and ages: all that the proofs need of them.    *)
Appended(c) ==
  /\ c \notin Listed
  /\ connectionList_' = Append(connectionList_, c)
  /\ age' = [age EXCEPT ![c] = 0]
  /\ UNCHANGED jumped

Moved(c) ==
  /\ c \in Listed
  /\ connectionList_' = Append(Erase(c), c)
  /\ \E late \in 0 .. Lag : age' = [age EXCEPT ![c] = late]
  /\ UNCHANGED jumped

Removed(c) ==
  /\ c \in Listed
  /\ connectionList_' = Erase(c)
  /\ UNCHANGED <<age, jumped>>

(* Append keeps a list of distinct entries distinct, and adds one entry.    *)
LEMMA AppendContent ==
  ASSUME NEW l \in Seq(Conns), NEW c \in Conns,
         \A i, j \in 1 .. Len(l) : l[i] = l[j] => i = j,
         c \notin {l[i] : i \in 1 .. Len(l)}
  PROVE  /\ Append(l, c) \in Seq(Conns)
         /\ Len(Append(l, c)) = Len(l) + 1
         /\ {Append(l, c)[i] : i \in 1 .. Len(Append(l, c))} = {l[i] : i \in 1 .. Len(l)} \cup {c}
         /\ \A i, j \in 1 .. Len(Append(l, c)) : Append(l, c)[i] = Append(l, c)[j] => i = j
<1> DEFINE n == Len(l)
<1> DEFINE m == Append(l, c)
<1>1. n \in Nat /\ m \in Seq(Conns) /\ Len(m) = n + 1
  OBVIOUS
<1>2. m[n + 1] = c /\ \A i \in 1 .. n : m[i] = l[i]
  OBVIOUS
<1>3. \A i \in 1 .. n : l[i] # c
  OBVIOUS
<1>4. \A i, j \in 1 .. n : l[i] = l[j] => i = j
  OBVIOUS
<1> HIDE DEF n, m
<1>5. \A i \in 1 .. n + 1 : i = n + 1 \/ i \in 1 .. n
  BY <1>1
<1>6. \A i, j \in 1 .. n + 1 : m[i] = m[j] => i = j
  BY <1>2, <1>3, <1>4, <1>5
<1>7. {m[i] : i \in 1 .. n + 1} = {l[i] : i \in 1 .. n} \cup {c}
  <2>1. ASSUME NEW x \in {m[i] : i \in 1 .. n + 1} PROVE x \in {l[i] : i \in 1 .. n} \cup {c}
    BY <1>2, <1>5
  <2>2. ASSUME NEW x \in {l[i] : i \in 1 .. n} PROVE x \in {m[i] : i \in 1 .. n + 1}
    <3>1. PICK i \in 1 .. n : x = l[i]
      BY <2>2
    <3>2. i \in 1 .. n + 1 /\ x = m[i]
      BY <1>1, <1>2, <3>1
    <3> QED BY <3>2
  <2>3. c \in {m[i] : i \in 1 .. n + 1}
    <3>1. n + 1 \in 1 .. n + 1
      BY <1>1
    <3> QED BY <1>2, <3>1
  <2> QED BY <2>1, <2>2, <2>3
<1> QED BY <1>1, <1>6, <1>7 DEF n, m

(* The list holds distinct connections after each kind of step.             *)
LEMMA ListAfter ==
  ASSUME TypeOK, NEW c \in Conns
  PROVE  /\ Appended(c) => ListType' /\ Listed' = Listed \cup {c}
         /\ Moved(c) => ListType' /\ Listed' = Listed
         /\ Removed(c) => ListType' /\ Listed' = Listed \ {c}
<1> USE TypeGivesList
<1>1. ASSUME Appended(c) PROVE ListType' /\ Listed' = Listed \cup {c}
  <2>1. connectionList_ \in Seq(Conns) /\ DOMAIN connectionList_ = 1 .. Len(connectionList_)
    BY DEF ListType
  <2>2. c \notin {connectionList_[i] : i \in 1 .. Len(connectionList_)}
    BY <1>1, <2>1 DEF Appended, Listed
  <2>3. \A i, j \in 1 .. Len(connectionList_) : connectionList_[i] = connectionList_[j] => i = j
    BY <2>1 DEF ListType
  <2>4. connectionList_' \in Seq(Conns) /\ DOMAIN connectionList_' = 1 .. Len(connectionList_')
    BY <1>1, <2>1 DEF Appended
  <2> QED BY <1>1, <2>1, <2>2, <2>3, <2>4, AppendContent DEF Appended, ListType, Listed
<1>2. ASSUME Removed(c) PROVE ListType' /\ Listed' = Listed \ {c}
  <2>1. connectionList_' = Erase(c) /\ Erase(c) \in Seq(Conns)
    BY <1>2, EraseType DEF Removed
  <2>2. DOMAIN connectionList_' = 1 .. Len(Erase(c))
    BY <2>1
  <2> DEFINE l == Erase(c)
  <2>3. {l[i] : i \in 1 .. Len(l)} = Listed \ {c} /\ \A i, j \in 1 .. Len(l) : l[i] = l[j] => i = j
    BY <1>2, EraseContent DEF Removed
  <2>4. connectionList_' = l /\ l \in Seq(Conns) /\ DOMAIN l = 1 .. Len(l)
    BY <2>1
  <2> HIDE DEF l
  <2>5. ListType'
    BY <2>3, <2>4 DEF ListType
  <2>6. Listed' = {l[i] : i \in 1 .. Len(l)}
    BY <2>4 DEF Listed
  <2> QED BY <2>3, <2>5, <2>6
<1>3. ASSUME Moved(c) PROVE ListType' /\ Listed' = Listed
  <2>1. Erase(c) \in Seq(Conns)
    BY <1>3, EraseType DEF Moved
  <2>2. c \notin {Erase(c)[i] : i \in 1 .. Len(Erase(c))}
    BY <1>3, EraseContent DEF Moved
  <2>3. \A i, j \in 1 .. Len(Erase(c)) : Erase(c)[i] = Erase(c)[j] => i = j
    BY <1>3, EraseContent DEF Moved
  <2>4. connectionList_' = Append(Erase(c), c) /\ DOMAIN connectionList_' = 1 .. Len(connectionList_')
    BY <1>3, <2>1 DEF Moved
  <2>5. (Listed \ {c}) \cup {c} = Listed
    BY <1>3 DEF Moved
  <2>6. {Erase(c)[i] : i \in 1 .. Len(Erase(c))} = Listed \ {c}
    BY <1>3, EraseContent DEF Moved
  <2> DEFINE l == Erase(c)
  <2> DEFINE m == Append(l, c)
  <2>7. /\ m \in Seq(Conns) /\ {m[i] : i \in 1 .. Len(m)} = {l[i] : i \in 1 .. Len(l)} \cup {c}
        /\ \A i, j \in 1 .. Len(m) : m[i] = m[j] => i = j
    BY <2>1, <2>2, <2>3, AppendContent
  <2>8. connectionList_' = m /\ DOMAIN m = 1 .. Len(m)
    BY <2>1, <2>4
  <2>9. {m[i] : i \in 1 .. Len(m)} = Listed
    BY <2>5, <2>6, <2>7
  <2> HIDE DEF m
  <2>10. ListType'
    BY <2>7, <2>8 DEF ListType
  <2>11. Listed' = {m[i] : i \in 1 .. Len(m)}
    BY <2>8 DEF Listed
  <2> QED BY <2>9, <2>10, <2>11
<1> QED BY <1>1, <1>2, <1>3

(* Every step of the server, its timer and the CGI connection keeps the     *)
(* types.                                                                   *)
LEMMA TypeInductive == TypeOK /\ [Next]_vars => TypeOK'
<1> SUFFICES ASSUME TypeOK, [Next]_vars PROVE TypeOK'
  OBVIOUS
<1> USE HttpServerAssumption
<1>1. ASSUME NEW c \in Conns, Up(c) PROVE TypeOK'
  <2>1. Appended(c)
    BY <1>1 DEF Up, Appended, TypeOK, Open
  <2>2. ListType' /\ Listed' = Listed \cup {c}
    BY <2>1, ListAfter
  <2>3. Listed' = {d \in Conns : state_'[d] \in Open}
    BY <1>1, <2>2 DEF Up, TypeOK, Open
  <2> QED BY <1>1, <2>2, <2>3 DEF Up, TypeOK, ListType, Open
<1>2. ASSUME NEW c \in Conns, Down(c), again' \subseteq again \cup {c} PROVE TypeOK'
  <2>1. Removed(c)
    BY <1>2 DEF Down, Removed, TypeOK
  <2>2. ListType' /\ Listed' = Listed \ {c}
    BY <2>1, ListAfter
  <2>3. Listed' = {d \in Conns : state_'[d] \in Open}
    BY <1>2, <2>2 DEF Down, TypeOK, Open
  <2>4. again' \subseteq {d \in Conns : state_'[d] = "kDisconnected"}
    BY <1>2 DEF Down, TypeOK, Open
  <2> QED BY <1>2, <2>2, <2>3, <2>4 DEF Down, TypeOK, ListType, Open
<1>3. ASSUME NEW c \in Conns, Heard(c), MayShutdown(c) PROVE TypeOK'
  <2>1. Moved(c)
    BY <1>3 DEF Heard, Moved, MoveToEnd, TypeOK
  <2>2. ListType' /\ Listed' = Listed
    BY <2>1, ListAfter
  <2>3. state_' \in [Conns -> {"new", "kDisconnected", "freed"} \cup Open]
    BY <1>3 DEF MayShutdown, TypeOK, Open
  <2>4. \A d \in Conns : state_'[d] \in Open <=> state_[d] \in Open
    BY <1>3 DEF Heard, MayShutdown, TypeOK, Open
  <2>5. age' \in [Conns -> Int]
    BY <2>1 DEF Moved, TypeOK
  <2>6. again' \subseteq {d \in Conns : state_'[d] = "kDisconnected"}
    BY <1>3 DEF Heard, MayShutdown, TypeOK, Open
  <2> QED BY <1>3, <2>2, <2>3, <2>4, <2>5, <2>6 DEF Heard, TypeOK, ListType
<1>4. ASSUME NEW c \in Conns, Free(c) PROVE TypeOK'
  <2>1. \A d \in Conns : state_'[d] \in Open <=> state_[d] \in Open
    BY <1>4 DEF Free, TypeOK, Open
  <2>2. state_' \in [Conns -> {"new", "kDisconnected", "freed"} \cup Open]
    BY <1>4 DEF Free, TypeOK, Open
  <2>3. Listed' = Listed
    BY <1>4 DEF Free, listVars, Listed
  <2> QED BY <1>4, <2>1, <2>2, <2>3 DEF Free, listVars, TypeOK
<1>5. ASSUME CheckTimer PROVE TypeOK'
  <2>1. \A d \in Conns : state_'[d] \in Open <=> state_[d] \in Open
    BY <1>5 DEF CheckTimer, Idle, TypeOK, Open
  <2>2. state_' \in [Conns -> {"new", "kDisconnected", "freed"} \cup Open]
    BY <1>5 DEF CheckTimer, TypeOK, Open
  <2>3. Listed' = Listed
    BY <1>5 DEF CheckTimer, Listed
  <2>4. closing' \subseteq Listed
    BY <1>5 DEF CheckTimer, Idle, TypeOK, Open
  <2>5. age' \in [Conns -> Int]
    BY <1>5 DEF CheckTimer, TypeOK
  <2>6. again' \subseteq {d \in Conns : state_'[d] = "kDisconnected"}
    BY <1>5 DEF CheckTimer, Idle, TypeOK
  <2> QED BY <1>5, <2>1, <2>2, <2>3, <2>4, <2>5, <2>6 DEF CheckTimer, TypeOK
<1>6. ASSUME Tick \/ JumpBack PROVE TypeOK'
  <2>1. Listed' = Listed
    BY <1>6 DEF Tick, JumpBack, Listed
  <2>2. age' \in [Conns -> Int]
    BY <1>6 DEF Tick, JumpBack, TypeOK
  <2>3. jumped' \in 0 .. MaxJumps
    BY <1>6 DEF Tick, JumpBack, TypeOK
  <2> QED BY <1>6, <2>1, <2>2, <2>3 DEF Tick, JumpBack, TypeOK
<1>7. ASSUME UNCHANGED <<state_, listVars>> PROVE TypeOK'
  <2>1. Listed' = Listed
    BY <1>7 DEF listVars, Listed
  <2> QED BY <1>7, <2>1 DEF listVars, TypeOK
<1>8. ASSUME NEW c \in Conns, DownAgain(c) PROVE TypeOK'
  <2>1. Listed' = Listed
    BY <1>8 DEF DownAgain, Listed
  <2> QED BY <1>8, <2>1 DEF DownAgain, TypeOK
<1>9. ASSUME NEW c \in Conns, PeerClose(c) \/ ForceClose(c) PROVE TypeOK'
  <2>1. Down(c) /\ again' \subseteq again \cup {c}
    BY <1>9 DEF PeerClose, ForceClose
  <2> QED BY <1>2, <2>1
<1> QED BY <1>1, <1>3, <1>4, <1>5, <1>6, <1>7, <1>8, <1>9
        DEF Next, ConnNext, Message, CgiRequest, ServerCgi,
            CgiUp, CgiDown, PhpReply, CgiRead, OnCgiMessage, vars

(* The server before its first connection.                                  *)
LEMMA TypeInit == Init => TypeOK
<1> SUFFICES ASSUME Init PROVE TypeOK
  OBVIOUS
<1>1. connectionList_ \in Seq(Conns) /\ Listed = {} /\ DOMAIN connectionList_ = {}
  BY DEF Init, Listed
<1>2. \A c \in Conns : state_[c] \notin Open
  BY DEF Init, Open
<1> QED BY <1>1, <1>2, HttpServerAssumption DEF Init, TypeOK

(* HttpServer's list holds the open connections, once each; the other       *)
(* theorems rest on it.                                                     *)
LEMMA TypeCorrect == Spec => []TypeOK
BY TypeInit, TypeInductive, PTL DEF Spec

-----------------------------------------------------------------------------
(* The order of the list.                                                   *)

(* NearlySorted for a list l of connections with ages a, and a slack k.     *)
Sorted(l, a, k) ==
  /\ \A i \in 1 .. Len(l) : a[l[i]] >= -k
  /\ \A i, j \in 1 .. Len(l) : i < j => a[l[j]] <= a[l[i]] + Lag + k

(* The run's property in terms of the list's parts.                         *)
LEMMA SortedIs ==
  ASSUME TypeOK
  PROVE  NearlySorted <=> Sorted(connectionList_, age, jumped)
<1>1. DOMAIN connectionList_ = 1 .. Len(connectionList_)
  BY DEF TypeOK
<1> QED BY <1>1 DEF NearlySorted, Sorted, Listed

(* A list is as sorted without one of its entries.                          *)
LEMMA SortedErase ==
  ASSUME TypeOK, NEW c \in Listed, NearlySorted
  PROVE  Sorted(Erase(c), age, jumped)
<1> DEFINE n == Len(connectionList_)
<1> DEFINE e == Erase(c)
<1>1. Sorted(connectionList_, age, jumped) /\ ListType
  BY SortedIs, TypeGivesList
<1>2. \A i \in 1 .. Len(e) : Before(c, i) \in 1 .. n /\ e[i] = connectionList_[Before(c, i)]
  BY <1>1, EraseType DEF ListType
<1>3. \A i, j \in 1 .. Len(e) : i < j => Before(c, i) < Before(c, j)
  BY <1>1, EraseType
<1> HIDE DEF e
<1>4. \A i \in 1 .. Len(e) : age[e[i]] >= -jumped
  BY <1>1, <1>2 DEF Sorted
<1>5. \A i, j \in 1 .. Len(e) : i < j => age[e[j]] <= age[e[i]] + Lag + jumped
  BY <1>1, <1>2, <1>3 DEF Sorted
<1> QED BY <1>4, <1>5 DEF Sorted, e

(* A connection heard from just now may go to the end.                      *)
LEMMA SortedAppend ==
  ASSUME NEW l \in Seq(Conns), NEW c \in Conns, NEW a \in [Conns -> Int], NEW k \in Nat,
         NEW late \in 0 .. Lag, Sorted(l, a, k), \A i \in 1 .. Len(l) : l[i] # c
  PROVE  Sorted(Append(l, c), [a EXCEPT ![c] = late], k)
<1> USE HttpServerAssumption
<1> DEFINE n == Len(l)
<1> DEFINE m == Append(l, c)
<1> DEFINE b == [a EXCEPT ![c] = late]
<1>1. n \in Nat /\ Len(m) = n + 1 /\ m[n + 1] = c /\ \A i \in 1 .. n : m[i] = l[i] /\ l[i] \in Conns
  OBVIOUS
<1>2. b[c] = late /\ \A i \in 1 .. n : b[l[i]] = a[l[i]]
  BY <1>1
<1>3. \A i \in 1 .. n : a[l[i]] \in Int
  BY <1>1
<1> HIDE DEF b, m
<1>4. late \in Int /\ 0 <= late /\ late <= Lag
  OBVIOUS
<1>5. \A i \in 1 .. n + 1 : i \in 1 .. n \/ i = n + 1
  BY <1>1
<1>6. \A i \in 1 .. n + 1 : b[m[i]] >= -k
  <2>1. \A i \in 1 .. n : b[m[i]] >= -k
    BY <1>1, <1>2 DEF Sorted
  <2>2. b[m[n + 1]] >= -k
    BY <1>1, <1>2, <1>4
  <2> QED BY <1>5, <2>1, <2>2
<1>7. ASSUME NEW i \in 1 .. n + 1, NEW j \in 1 .. n + 1, i < j
      PROVE  b[m[j]] <= b[m[i]] + Lag + k
  <2>1. i \in 1 .. n
    BY <1>1, <1>7
  <2>2. CASE j \in 1 .. n
    BY <1>1, <1>2, <1>7, <2>1, <2>2 DEF Sorted
  <2>3. CASE j = n + 1
    <3>1. b[m[j]] = late /\ b[m[i]] = a[l[i]] /\ a[l[i]] >= -k /\ a[l[i]] \in Int
      BY <1>1, <1>2, <1>3, <2>1, <2>3 DEF Sorted
    <3> QED BY <1>4, <3>1
  <2> QED BY <1>5, <2>2, <2>3
<1> QED BY <1>1, <1>6, <1>7 DEF Sorted, m, b

SInv == TypeOK /\ NearlySorted

(* Two ages a second later, capped alike, are as far apart as they were, or *)
(* closer: a tick keeps the order of the list.                              *)
LEMMA TickKeepsOrder ==
  ASSUME NEW a \in Int, NEW b \in Int, NEW c \in Nat, NEW cap \in Int, b <= a + c
  PROVE  (IF b < cap THEN b + 1 ELSE b) <= (IF a < cap THEN a + 1 ELSE a) + c
OBVIOUS

(* Both ages and the allowance move by one when the clock goes back.        *)
LEMMA JumpKeepsOrder ==
  ASSUME NEW a \in Int, NEW b \in Int, NEW c \in Int, NEW k \in Int, b <= a + c + k
  PROVE  b - 1 <= a - 1 + c + (k + 1)
OBVIOUS

(* onConnection, onMessage's renewal and onTimer keep the idle list in      *)
(* order while the clock does not jump.                                     *)
LEMMA SortedInductive == SInv /\ [Next]_vars => SInv'
<1> SUFFICES ASSUME SInv, [Next]_vars PROVE NearlySorted'
  BY TypeInductive DEF SInv
<1> USE HttpServerAssumption
<1>1. TypeOK /\ TypeOK' /\ ListType
  BY TypeInductive, TypeGivesList DEF SInv
<1>2. Sorted(connectionList_, age, jumped)
  BY <1>1, SortedIs DEF SInv
<1>3. SUFFICES Sorted(connectionList_', age', jumped')
  <2>1. (DOMAIN connectionList_)' = 1 .. Len(connectionList_')
    BY <1>1 DEF TypeOK
  <2> QED BY <2>1 DEF NearlySorted, Sorted, Listed
<1>4. jumped \in Nat /\ age \in [Conns -> Int] /\ connectionList_ \in Seq(Conns)
      /\ \A i \in 1 .. Len(connectionList_) : connectionList_[i] \in Conns
  BY <1>1 DEF TypeOK
<1>5. ASSUME NEW c \in Conns, Up(c) PROVE Sorted(connectionList_', age', jumped')
  <2>1. \A i \in 1 .. Len(connectionList_) : connectionList_[i] # c
    BY <1>1, <1>4, <1>5 DEF Up, TypeOK, Listed, Open
  <2>2. 0 \in 0 .. Lag
    OBVIOUS
  <2> QED BY <1>2, <1>4, <1>5, <2>1, <2>2, SortedAppend DEF Up
<1>6. ASSUME NEW c \in Conns, Down(c) PROVE Sorted(connectionList_', age', jumped')
  <2>1. c \in Listed
    BY <1>1, <1>6 DEF Down, TypeOK
  <2> QED BY <1>1, <1>6, <2>1, SortedErase DEF Down, SInv
<1>7. ASSUME NEW c \in Conns, Heard(c) PROVE Sorted(connectionList_', age', jumped')
  <2>1. c \in Listed
    BY <1>1, <1>7 DEF Heard, TypeOK
  <2>2. Sorted(Erase(c), age, jumped) /\ Erase(c) \in Seq(Conns)
    BY <1>1, <2>1, SortedErase, EraseType DEF SInv
  <2>3. \A i \in 1 .. Len(Erase(c)) : Erase(c)[i] # c
    BY <1>1, <2>1, EraseContent
  <2>4. PICK late \in 0 .. Lag : age' = [age EXCEPT ![c] = late]
    BY <1>7 DEF Heard
  <2>5. Sorted(Append(Erase(c), c), [age EXCEPT ![c] = late], jumped)
    BY <1>4, <2>2, <2>3, SortedAppend
  <2> QED BY <1>7, <2>4, <2>5 DEF Heard, MoveToEnd
<1> DEFINE l == connectionList_
<1> DEFINE n == Len(connectionList_)
<1>20. \A i \in 1 .. n : l[i] \in Listed /\ age[l[i]] \in Int
  BY <1>1, <1>4 DEF Listed, TypeOK
<1>21. n \in Nat /\ DOMAIN l = 1 .. n
  BY <1>4
<1>8. ASSUME CheckTimer PROVE Sorted(connectionList_', age', jumped')
  <2>1. \A i \in 1 .. n : l[i] \in Walked <=> \A h \in 1 .. i : ~StopsAt(l[h])
    BY <1>1, <1>21 DEF Walked, ListType
  <2>2. \A i, j \in 1 .. n : i < j /\ l[j] \in Walked => l[i] \in Walked
    BY <1>21, <2>1
  <2>3. \A i \in 1 .. n : age'[l[i]] = IF l[i] \in Walked /\ age[l[i]] < 0 THEN 0 ELSE age[l[i]]
    BY <1>4, <1>8 DEF CheckTimer
  <2>4. l' = l /\ jumped' = jumped
    BY <1>8 DEF CheckTimer
  <2> HIDE DEF l, n
  <2>5. \A i \in 1 .. n : age'[l[i]] >= -jumped
    BY <1>2, <1>4, <1>20, <2>3 DEF Sorted, l, n
  <2>6. ASSUME NEW i \in 1 .. n, NEW j \in 1 .. n, i < j
        PROVE  age'[l[j]] <= age'[l[i]] + Lag + jumped
    <3>1. age[l[j]] <= age[l[i]] + Lag + jumped
      BY <1>2, <2>6 DEF Sorted, l, n
    <3>2. l[j] \in Walked => l[i] \in Walked
      BY <2>2, <2>6
    <3> QED BY SMTT(30), <1>4, <1>20, <2>3, <3>1, <3>2
  <2> QED BY <2>4, <2>5, <2>6 DEF Sorted, l, n
<1>9. ASSUME Tick PROVE Sorted(connectionList_', age', jumped')
  <2>1. \A i \in 1 .. n : age'[l[i]] = IF age[l[i]] < AgeCap THEN age[l[i]] + 1 ELSE age[l[i]]
    BY <1>4, <1>9, <1>20 DEF Tick
  <2>2. l' = l /\ jumped' = jumped
    BY <1>9 DEF Tick
  <2> HIDE DEF l, n
  <2>3. \A i \in 1 .. n : age'[l[i]] >= -jumped
    BY <1>2, <1>4, <1>20, <2>1 DEF Sorted, l, n
  <2>4. ASSUME NEW i \in 1 .. n, NEW j \in 1 .. n, i < j
        PROVE  age'[l[j]] <= age'[l[i]] + Lag + jumped
    <3>1. age[l[j]] <= age[l[i]] + (Lag + jumped)
      BY <1>2, <1>4, <1>20, <2>4 DEF Sorted, l, n
    <3>2. age[l[i]] \in Int /\ age[l[j]] \in Int /\ Lag + jumped \in Nat /\ AgeCap \in Int
      BY <1>4, <1>20
    <3>3. /\ age'[l[i]] = IF age[l[i]] < AgeCap THEN age[l[i]] + 1 ELSE age[l[i]]
          /\ age'[l[j]] = IF age[l[j]] < AgeCap THEN age[l[j]] + 1 ELSE age[l[j]]
      BY <2>1
    <3>4. age'[l[j]] <= age'[l[i]] + (Lag + jumped)
      BY <3>1, <3>2, <3>3, TickKeepsOrder
    <3> QED BY <1>4, <3>2, <3>3, <3>4
  <2> QED BY <2>2, <2>3, <2>4 DEF Sorted, l, n
<1>10. ASSUME JumpBack PROVE Sorted(connectionList_', age', jumped')
  <2>1. \A i \in 1 .. n : age'[l[i]] = age[l[i]] - 1
    BY <1>4, <1>10, <1>20 DEF JumpBack
  <2>2. l' = l /\ jumped' = jumped + 1
    BY <1>10 DEF JumpBack
  <2> HIDE DEF l, n
  <2>3. \A i \in 1 .. n : age'[l[i]] >= -jumped'
    BY <1>2, <1>4, <1>20, <2>1, <2>2 DEF Sorted, l, n
  <2>4. ASSUME NEW i \in 1 .. n, NEW j \in 1 .. n, i < j
        PROVE  age'[l[j]] <= age'[l[i]] + Lag + jumped'
    <3>1. age[l[j]] <= age[l[i]] + Lag + jumped
      BY <1>2, <2>4 DEF Sorted, l, n
    <3>2. age[l[i]] \in Int /\ age[l[j]] \in Int
      BY <1>20
    <3>3. age'[l[i]] = age[l[i]] - 1 /\ age'[l[j]] = age[l[j]] - 1
      BY <2>1
    <3>4. jumped' = jumped + 1
      BY <2>2
    <3>5. age[l[j]] - 1 <= age[l[i]] - 1 + Lag + (jumped + 1)
      <4>1. Lag \in Int /\ jumped \in Int
        BY <1>4
      <4> QED BY <3>1, <3>2, <4>1, JumpKeepsOrder
    <3> QED BY <3>3, <3>4, <3>5
  <2> QED BY <2>2, <2>3, <2>4 DEF Sorted, l, n
<1>11. ASSUME UNCHANGED <<connectionList_, age, jumped>>
       PROVE  Sorted(connectionList_', age', jumped')
  BY <1>2, <1>11
<1> QED BY <1>5, <1>6, <1>7, <1>8, <1>9, <1>10, <1>11
        DEF Next, ConnNext, PeerClose, ForceClose, DownAgain, Free, Message, CgiRequest, ServerCgi,
            CgiUp, CgiDown, PhpReply, CgiRead, OnCgiMessage, listVars, vars

(* HttpServer's list stays ordered by the last receive time, up to Lag and  *)
(* what the clock went back, whatever is heard from, closed and checked.    *)
THEOREM ListStaysSorted == Spec => []NearlySorted
<1>1. Init => SInv
  <2> SUFFICES ASSUME Init PROVE NearlySorted
    BY TypeInit DEF SInv
  <2> QED BY DEF Init, NearlySorted, Listed
<1>2. SInv => NearlySorted
  BY DEF SInv
<1> QED BY <1>1, <1>2, SortedInductive, PTL DEF Spec

(* What onCheckTimer relies on: its walk reaches every connection that has  *)
(* been idle for longer than time_out and the slack of the order.           *)
THEOREM CheckKicksAll == Spec => []KicksAll
<1>1. SInv => KicksAll
  <2> SUFFICES ASSUME SInv, NEW c \in Conns, state_[c] = "kConnected",
                      age[c] > TimeOut + Lag + jumped
               PROVE  Idle(c)
    BY DEF KicksAll
  <2> USE HttpServerAssumption
  <2>1. DOMAIN connectionList_ = 1 .. Len(connectionList_) /\ jumped \in Nat
    BY DEF SInv, TypeOK
  <2>2. PICK i \in 1 .. Len(connectionList_) : connectionList_[i] = c
    BY <2>1 DEF SInv, TypeOK, Listed, Open
  <2>3. \A h \in 1 .. i : age[connectionList_[h]] > TimeOut
    <3> SUFFICES ASSUME NEW h \in 1 .. i PROVE age[connectionList_[h]] > TimeOut
      OBVIOUS
    <3>1. h \in 1 .. Len(connectionList_) /\ age[connectionList_[h]] \in Int /\ age[c] \in Int
      BY <2>1, <2>2 DEF SInv, TypeOK
    <3>2. CASE h = i
      BY <2>1, <2>2, <3>1, <3>2
    <3>3. CASE h < i
      <4>1. age[c] <= age[connectionList_[h]] + Lag + jumped
        BY <2>1, <2>2, <3>1, <3>3 DEF SInv, NearlySorted
      <4> QED BY <2>1, <3>1, <4>1
    <3> QED BY <3>1, <3>2, <3>3
  <2>4. \A h \in 1 .. i : age[connectionList_[h]] \in Int /\ ~StopsAt(connectionList_[h])
    BY <2>1, <2>2, <2>3 DEF SInv, TypeOK, StopsAt
  <2>5. c \in Walked
    BY <2>1, <2>2, <2>4 DEF Walked
  <2>6. age[c] \in Int
    BY DEF SInv, TypeOK
  <2> QED BY <2>1, <2>5, <2>6 DEF Idle
<1>2. Init => SInv
  <2> SUFFICES ASSUME Init PROVE NearlySorted
    BY TypeInit DEF SInv
  <2> QED BY DEF Init, NearlySorted, Listed
<1> QED BY <1>1, <1>2, SortedInductive, PTL DEF Spec

-----------------------------------------------------------------------------
(* The answers of php.                                                      *)

(* What php works on and what it sent.  A unit carries its record's header  *)
(* and the number of the request it answers, 0 for the first one of         *)
(* onCGIConnection, which has no connection.                                *)
Ids == 0 .. ByteValues - 1

Jobs == [k : Nat, requestIdB1 : Ids, requestIdB0 : Ids]

Headers ==
  [type : {"FCGI_STDOUT", "FCGI_STDERR", "FCGI_END_REQUEST"}, length : Nat,
   padding : Nat, requestIdB1 : Ids, requestIdB0 : Ids]

CgiUnit ==
  [part : {"first", "second", "content"}, header : Headers, text : Seq(Pieces), k : Nat]

(* What php may put into a record, FCGI_END_REQUEST with its fixed length. *)
RecordTypes == {"FCGI_STDOUT", "FCGI_STDERR", "FCGI_END_REQUEST"}

Outputs == [type : RecordTypes, text : Seq(Pieces), padding : Nat]

CgiTypeOK ==
  /\ requests \in Seq(Conns)
  /\ functors \in Seq(Nat)
  /\ \A i \in 1 .. Len(functors) : functors[i] \in 1 .. Len(requests)
  /\ ReqCGIId_ \in Nat
  /\ DOMAIN ReqCGIConnMap_ \subseteq 1 .. ReqCGIId_
  /\ ReqCGIConnMap_ \in [DOMAIN ReqCGIConnMap_ -> Conns]
  /\ CGIConn_ \in {"null", "kConnected", "kDisconnected"}
  /\ php \subseteq Jobs
  /\ unread \in Seq(CgiUnit) /\ buf \in Seq(CgiUnit)
  /\ answers \in [Conns -> Seq(Nat)]

(* A stream of whole records: it begins with a header, and so does what is  *)
(* left when a record is taken off at a header.                             *)
Framed(s) ==
  /\ s # <<>> => s[1].part = "first"
  /\ \A i \in 1 .. Len(s) :
       s[i].part = "first" =>
         /\ i + Size(s[i].header) <= Len(s) + 1
         /\ i + Size(s[i].header) <= Len(s) => s[i + Size(s[i].header)].part = "first"

(* The unread units continue the buffer, and together they are whole        *)
(* records, until a record was taken in part or the connection went down,   *)
(* with at most half a header in the buffer.                                *)
InFrame ==
  cut \/ Framed(buf \o unread)
      \/ /\ CGIConn_ = "kDisconnected" /\ unread = <<>> /\ Len(buf) < 2
         /\ buf # <<>> => buf[1].part = "first"

(* The two id bytes b1 and b0 lead to the k-th request, of the requests in  *)
(* reqs: the map, as long as it knows the id, has that request's            *)
(* connection.  No id above last was given out.                             *)
Leads(b1, b0, k, reqs, last, map) ==
  LET id == b1 * ByteValues + b0
  IN \/ id = 0 /\ k = 0
     \/ /\ id \in 1 .. last /\ k \in 1 .. Len(reqs)
        /\ id \in DOMAIN map => map[id] = reqs[k]

JobsLead(jobs, reqs, last, map) ==
  \A job \in jobs : Leads(job.requestIdB1, job.requestIdB0, job.k, reqs, last, map)

UnitsLead(s, reqs, last, map) ==
  \A i \in 1 .. Len(s) :
    Leads(s[i].header.requestIdB1, s[i].header.requestIdB0, s[i].k, reqs, last, map)

SentRight(answered, reqs) ==
  \A c \in Conns : \A i \in 1 .. Len(answered[c]) :
    answered[c][i] \in 1 .. Len(reqs) /\ reqs[answered[c][i]] = c

(* AnswersRight speaks of answers sent; those on their way, in php, on the  *)
(* connection and in the buffer, must lead to the right connection too.     *)
IdsLead ==
  ReqCGIId_ < ByteValues * ByteValues =>
    /\ JobsLead(php, requests, ReqCGIId_, ReqCGIConnMap_)
    /\ UnitsLead(unread, requests, ReqCGIId_, ReqCGIConnMap_)
    /\ UnitsLead(buf, requests, ReqCGIId_, ReqCGIConnMap_)
    /\ SentRight(answers, requests)

(* The id bytes makeHeader writes.                                          *)
LEMMA IdBytes ==
  ASSUME NEW id \in Nat
  PROVE  /\ (id \div ByteValues) % ByteValues \in Ids /\ id % ByteValues \in Ids
         /\ id < ByteValues * ByteValues =>
              ((id \div ByteValues) % ByteValues) * ByteValues + (id % ByteValues) = id
<1> USE HttpServerAssumption
<1> DEFINE q == id \div ByteValues
<1>1. /\ q \in Nat /\ id % ByteValues \in Ids
      /\ id = q * ByteValues + (id % ByteValues)
  BY SMTT(30) DEF Ids
<1>2. q % ByteValues \in Ids
  BY <1>1 DEF Ids
<1>3. ASSUME id < ByteValues * ByteValues PROVE q % ByteValues = q
  <2>1. q < ByteValues
    <3>1. SUFFICES ASSUME q >= ByteValues PROVE FALSE
      BY <1>1
    <3>2. q * ByteValues >= ByteValues * ByteValues
      BY <1>1, <3>1
    <3> QED BY <1>1, <1>3, <3>2 DEF Ids
  <2> QED BY <1>1, <2>1
<1> QED BY <1>1, <1>2, <1>3

(* A record takes two units at least off the buffer.                        *)
LEMMA SizeType ==
  ASSUME NEW header \in Headers
  PROVE  Size(header) \in Nat /\ Size(header) >= 2
BY DEF Headers, Size

(* What a concatenation consists of.                                        *)
LEMMA ConcatIs ==
  ASSUME NEW S, NEW s \in Seq(S), NEW t \in Seq(S)
  PROVE  /\ s \o t \in Seq(S) /\ Len(s \o t) = Len(s) + Len(t)
         /\ \A i \in 1 .. Len(s) : (s \o t)[i] = s[i]
         /\ \A i \in Len(s) + 1 .. Len(s) + Len(t) : (s \o t)[i] = t[i - Len(s)]
OBVIOUS

(* The records php sends carry its job's id bytes, and ParseFromPhp takes   *)
(* off exactly what was sent.                                               *)
LEMMA RecordIs ==
  ASSUME NEW job \in Jobs, NEW output \in Outputs, NEW length \in Nat,
         output.type = "FCGI_END_REQUEST" => length = 2 /\ output.padding = 0
  PROVE  /\ Record(output, length, job) \in Seq(CgiUnit)
         /\ Framed(Record(output, length, job))
         /\ \A i \in 1 .. Len(Record(output, length, job)) :
              /\ Record(output, length, job)[i].k = job.k
              /\ Record(output, length, job)[i].header.requestIdB1 = job.requestIdB1
              /\ Record(output, length, job)[i].header.requestIdB0 = job.requestIdB0
<1>1. PICK h \in Headers :
        /\ h.requestIdB1 = job.requestIdB1 /\ h.requestIdB0 = job.requestIdB0
        /\ h.length + h.padding + 2 = Size(h)
        /\ Record(output, length, job) = Units(h, output.text, job.k)
  <2> DEFINE m == MakeHeader(output.type, 0, length, output.padding)
  <2> DEFINE h == [m EXCEPT !.requestIdB1 = job.requestIdB1, !.requestIdB0 = job.requestIdB0]
  <2>1. output.type \in RecordTypes /\ output.padding \in Nat
    BY DEF Outputs
  <2>2. m \in Headers /\ m.type = output.type /\ m.length = length /\ m.padding = output.padding
    BY <2>1, IdBytes DEF MakeHeader, Headers, RecordTypes
  <2>3. job.requestIdB1 \in Ids /\ job.requestIdB0 \in Ids
    BY DEF Jobs
  <2>4. Record(output, length, job) = Units(h, output.text, job.k)
    BY DEF Record
  <2> HIDE DEF m
  <2>5. /\ h \in Headers
        /\ h.type = output.type /\ h.length = length /\ h.padding = output.padding
        /\ h.requestIdB1 = job.requestIdB1 /\ h.requestIdB0 = job.requestIdB0
    BY <2>2, <2>3 DEF Headers
  <2> HIDE DEF h
  <2>6. h.length + h.padding + 2 = Size(h)
    BY <2>1, <2>5 DEF Size, RecordTypes
  <2> QED BY <2>4, <2>5, <2>6
<1> DEFINE n == h.length + h.padding
<1> DEFINE front == <<[part |-> "first", header |-> h, text |-> output.text, k |-> job.k],
                      [part |-> "second", header |-> h, text |-> output.text, k |-> job.k]>>
<1> DEFINE back == [i \in 1 .. n |->
                      [part |-> "content", header |-> h, text |-> output.text, k |-> job.k]]
<1> DEFINE r == front \o back
<1>2. job.k \in Nat /\ n \in Nat /\ output.text \in Seq(Pieces)
  BY DEF Jobs, Headers, Outputs
<1>3. front \in Seq(CgiUnit) /\ Len(front) = 2
  BY <1>2 DEF CgiUnit
<1>4. back \in Seq(CgiUnit) /\ Len(back) = n
  <2>1. \A i \in 1 .. n : back[i] \in CgiUnit
    BY <1>2 DEF CgiUnit
  <2> HIDE DEF n
  <2> QED BY <1>2, <2>1
<1>5. Record(output, length, job) = r
  BY <1>1 DEF Units
<1>6. /\ r \in Seq(CgiUnit) /\ Len(r) = n + 2
      /\ r[1] = front[1] /\ r[2] = front[2]
      /\ \A i \in 3 .. n + 2 : r[i] = back[i - 2]
  <2>1. /\ r \in Seq(CgiUnit) /\ Len(r) = Len(front) + Len(back)
        /\ \A i \in 1 .. Len(front) : r[i] = front[i]
        /\ \A i \in Len(front) + 1 .. Len(front) + Len(back) : r[i] = back[i - Len(front)]
    <3> HIDE DEF front, back
    <3> QED BY <1>3, <1>4, ConcatIs
  <2> HIDE DEF r, front, back, n
  <2> QED BY <1>2, <1>3, <1>4, <2>1
<1>7. /\ r[1].part = "first" /\ r[2].part = "second"
      /\ \A i \in 3 .. n + 2 : r[i].part = "content"
      /\ \A i \in 1 .. n + 2 : r[i].header = h /\ r[i].k = job.k
  <2>1. /\ front[1].part = "first" /\ front[2].part = "second"
        /\ front[1].header = h /\ front[2].header = h
        /\ front[1].k = job.k /\ front[2].k = job.k
    OBVIOUS
  <2>2. \A i \in 3 .. n + 2 : i - 2 \in 1 .. n
    BY <1>2
  <2>3. \A i \in 1 .. n : back[i].part = "content" /\ back[i].header = h /\ back[i].k = job.k
    OBVIOUS
  <2>4. \A i \in 1 .. n + 2 : i = 1 \/ i = 2 \/ i \in 3 .. n + 2
    BY <1>2
  <2> HIDE DEF r, front, back, n
  <2> QED BY <1>6, <2>1, <2>2, <2>3, <2>4
<1> HIDE DEF r
<1>8. Framed(r)
  <2>1. \A i \in 1 .. Len(r) : r[i].part = "first" => i = 1
    BY <1>2, <1>6, <1>7
  <2>2. Size(r[1].header) = n + 2
    BY <1>1, <1>2, <1>6, <1>7
  <2> QED BY <1>2, <1>6, <1>7, <2>1, <2>2 DEF Framed
<1> QED BY <1>1, <1>5, <1>6, <1>7, <1>8

(* Whole records after whole records.                                       *)
LEMMA FramedConcat ==
  ASSUME NEW s \in Seq(CgiUnit), NEW t \in Seq(CgiUnit), Framed(s), Framed(t)
  PROVE  Framed(s \o t)
<1> DEFINE u == s \o t
<1>1. /\ u \in Seq(CgiUnit) /\ Len(u) = Len(s) + Len(t)
      /\ \A i \in 1 .. Len(s) : u[i] = s[i]
      /\ \A i \in Len(s) + 1 .. Len(u) : u[i] = t[i - Len(s)]
  OBVIOUS
<1>2. Len(s) \in Nat /\ Len(t) \in Nat /\ (s # <<>> <=> Len(s) > 0) /\ (t # <<>> <=> Len(t) > 0)
  OBVIOUS
<1>3. \A i \in 1 .. Len(u) : u[i].header \in Headers /\ Size(u[i].header) \in Nat
  <2>1. \A i \in 1 .. Len(u) : u[i] \in CgiUnit
    BY <1>1
  <2>2. \A i \in 1 .. Len(u) : u[i].header \in Headers
    BY <2>1 DEF CgiUnit
  <2> QED BY <2>2, SizeType
<1> HIDE DEF u
<1>4. u # <<>> => u[1].part = "first"
  <2>1. CASE s # <<>>
    BY <1>1, <1>2, <2>1 DEF Framed
  <2>2. CASE s = <<>> /\ t # <<>>
    BY <1>1, <1>2, <2>2 DEF Framed
  <2>3. CASE s = <<>> /\ t = <<>>
    BY <1>1, <2>3
  <2> QED BY <2>1, <2>2, <2>3
<1>5. ASSUME NEW i \in 1 .. Len(u), u[i].part = "first"
      PROVE  /\ i + Size(u[i].header) <= Len(u) + 1
             /\ i + Size(u[i].header) <= Len(u) => u[i + Size(u[i].header)].part = "first"
  <2> DEFINE z == Size(u[i].header)
  <2>0. z \in Nat /\ i \in Nat /\ z >= 2
    BY <1>3, SizeType
  <2>1. CASE i \in 1 .. Len(s)
    <3>1. u[i] = s[i]
      BY <1>1, <2>1
    <3>2. /\ i + z <= Len(s) + 1
          /\ i + z <= Len(s) => s[i + z].part = "first"
      BY <1>5, <2>1, <3>1 DEF Framed
    <3>3. CASE i + z <= Len(s)
      <4>1. i + z \in 1 .. Len(s)
        BY <1>2, <2>0, <3>3
      <4> QED BY <1>1, <1>2, <2>0, <3>2, <3>3, <4>1
    <3>4. CASE i + z = Len(s) + 1
      <4>1. i + z <= Len(u) => t # <<>> /\ u[i + z] = t[1]
        BY <1>1, <1>2, <2>0, <3>4
      <4> QED BY <1>1, <1>2, <2>0, <3>4, <4>1 DEF Framed
    <3> QED BY SMTT(30), <1>2, <2>0, <3>2, <3>3, <3>4
  <2>2. CASE i \in Len(s) + 1 .. Len(u)
    <3> DEFINE j == i - Len(s)
    <3>1. u[i] = t[j] /\ j \in 1 .. Len(t)
      BY <1>1, <1>2, <2>2
    <3>2. j + z <= Len(t) + 1 /\ (j + z <= Len(t) => t[j + z].part = "first")
      BY <1>5, <3>1 DEF Framed
    <3>3. i + z <= Len(u) => u[i + z] = t[j + z]
      <4>1. i + z <= Len(u) => i + z \in Len(s) + 1 .. Len(u)
        BY <1>1, <1>2, <2>0, <2>2
      <4>2. (i + z) - Len(s) = j + z
        BY <1>2, <2>0
      <4> QED BY <1>1, <4>1, <4>2
    <3> QED BY SMTT(30), <1>1, <1>2, <2>0, <3>1, <3>2, <3>3
  <2> QED BY <1>1, <1>2, <2>1, <2>2
<1> QED BY <1>4, <1>5 DEF Framed, u

(* Taking the first record off leaves whole records.                        *)
LEMMA FramedDrop ==
  ASSUME NEW s \in Seq(CgiUnit), NEW n \in Nat, Framed(s), s # <<>>,
         n = Size(s[1].header)
  PROVE  n <= Len(s) /\ Framed(SubSeq(s, n + 1, Len(s)))
<1> DEFINE u == SubSeq(s, n + 1, Len(s))
<1>1. Len(s) \in Nat /\ Len(s) >= 1
  OBVIOUS
<1>2. n <= Len(s) /\ (n + 1 <= Len(s) => s[n + 1].part = "first")
  BY <1>1 DEF Framed
<1>3. u \in Seq(CgiUnit) /\ Len(u) = Len(s) - n /\ \A i \in 1 .. Len(u) : u[i] = s[n + i]
  BY SMTT(30), <1>1, <1>2
<1> HIDE DEF u
<1>4. u # <<>> => u[1].part = "first"
  <2>1. u # <<>> => Len(u) >= 1
    BY <1>3
  <2> QED BY <1>1, <1>2, <1>3, <2>1
<1>5. ASSUME NEW i \in 1 .. Len(u), u[i].part = "first"
      PROVE  /\ i + Size(u[i].header) <= Len(u) + 1
             /\ i + Size(u[i].header) <= Len(u) => u[i + Size(u[i].header)].part = "first"
  <2> DEFINE z == Size(u[i].header)
  <2>1. u[i] = s[n + i] /\ n + i \in 1 .. Len(s) /\ u[i].header \in Headers
    <3>1. u[i] = s[n + i] /\ n + i \in 1 .. Len(s)
      BY <1>1, <1>2, <1>3
    <3>2. u[i] \in CgiUnit
      BY <1>3
    <3> QED BY <3>1, <3>2 DEF CgiUnit
  <2>2. z \in Nat /\ z >= 2
    BY <2>1, SizeType
  <2>3. /\ n + i + z <= Len(s) + 1
        /\ n + i + z <= Len(s) => s[n + i + z].part = "first"
    BY <1>5, <2>1 DEF Framed
  <2>4. i + z <= Len(u) => u[i + z] = s[n + (i + z)]
    BY <1>1, <1>2, <1>3, <2>2
  <2> QED BY SMTT(30), <1>1, <1>2, <1>3, <2>2, <2>3, <2>4
<1> QED BY <1>2, <1>4, <1>5 DEF Framed, u

(* All units of s answer the request of job, under the id it came with.     *)
Carries(s, job) ==
  \A i \in 1 .. Len(s) :
    /\ s[i].k = job.k
    /\ s[i].header.requestIdB1 = job.requestIdB1
    /\ s[i].header.requestIdB0 = job.requestIdB0

(* A reply of php is whole records, all of its job.                         *)
LEMMA ReplyIs ==
  ASSUME NEW job \in Jobs, NEW outputs \in Replies
  PROVE  /\ ReplyUnits(outputs, job) \in Seq(CgiUnit)
         /\ Framed(ReplyUnits(outputs, job)) /\ Carries(ReplyUnits(outputs, job), job)
<1> DEFINE Good(s) == s \in Seq(CgiUnit) /\ Framed(s) /\ Carries(s, job)
<1>1. ASSUME NEW output \in Outputs, NEW length \in Nat,
             output.type = "FCGI_END_REQUEST" => length = 2 /\ output.padding = 0
      PROVE  Good(Record(output, length, job))
  BY <1>1, RecordIs DEF Carries
<1>2. Good(<<>>)
  BY DEF Framed, Carries
<1>3. ASSUME NEW s, NEW t, Good(s), Good(t) PROVE Good(s \o t)
  <2>1. s \in Seq(CgiUnit) /\ t \in Seq(CgiUnit)
    BY <1>3
  <2>2. Framed(s \o t)
    BY <1>3, FramedConcat
  <2>3. Carries(s \o t, job)
    <3> SUFFICES ASSUME NEW i \in 1 .. Len(s \o t)
                 PROVE  \/ i \in 1 .. Len(s) /\ (s \o t)[i] = s[i]
                        \/ i - Len(s) \in 1 .. Len(t) /\ (s \o t)[i] = t[i - Len(s)]
      BY SMTT(30), <1>3 DEF Carries
    <3>1. Len(s) \in Nat /\ Len(t) \in Nat
      BY <2>1
    <3>2. i \in 1 .. Len(s) \/ i \in Len(s) + 1 .. Len(s) + Len(t)
      BY <2>1, <3>1, ConcatIs
    <3> QED BY <2>1, <3>1, <3>2, ConcatIs
  <2> QED BY <2>1, <2>2, <2>3
<1> DEFINE part(i) == IF i <= Len(outputs) THEN Content(outputs[i], job) ELSE <<>>
<1> DEFINE last == Record(EndOfRequest, 2, job)
<1>4. ASSUME NEW i \in {1, 2} PROVE Good(part(i))
  <2>1. CASE i <= Len(outputs)
    <3>1. outputs \in Seq([type : {"FCGI_STDOUT", "FCGI_STDERR"}, text : Seq(Pieces), padding : Nat])
      BY HttpServerAssumption
    <3>2. outputs[i] \in Outputs /\ outputs[i].type # "FCGI_END_REQUEST"
      <4>1. outputs[i] \in [type : {"FCGI_STDOUT", "FCGI_STDERR"}, text : Seq(Pieces), padding : Nat]
        <5>1. i \in 1 .. Len(outputs)
          BY <2>1, <3>1
        <5> QED BY <3>1, <5>1, ElementOfSeq
      <4> QED BY <4>1 DEF Outputs, RecordTypes
    <3>3. (IF outputs[i].text = <<>> THEN 0 ELSE 1) \in Nat
      OBVIOUS
    <3> HIDE DEF Good
    <3>4. Good(Content(outputs[i], job))
      BY <1>1, <3>2, <3>3 DEF Content
    <3> QED BY <2>1, <3>4
  <2>2. CASE ~(i <= Len(outputs))
    BY <1>2, <2>2
  <2> QED BY <2>1, <2>2
<1>5. ReplyUnits(outputs, job) = part(1) \o part(2) \o last
  BY DEF ReplyUnits
<1>6. EndOfRequest \in Outputs /\ EndOfRequest.padding = 0
  BY DEF EndOfRequest, Outputs, RecordTypes
<1>7. Good(last)
  <2> HIDE DEF Good
  <2> QED BY <1>1, <1>6
<1>8. Good(part(1)) /\ Good(part(2))
  BY <1>4
<1> HIDE DEF Good, part, last
<1>9. Good(part(1) \o part(2) \o last)
  BY <1>3, <1>7, <1>8
<1> QED BY <1>5, <1>9 DEF Good

(* ConcatAssociative for the units of the CGI stream.                       *)
LEMMA StreamsJoin ==
  ASSUME NEW s \in Seq(CgiUnit), NEW t \in Seq(CgiUnit), NEW u \in Seq(CgiUnit)
  PROVE  (s \o t) \o u = s \o (t \o u)
BY ConcatAssociative

(* A read takes nothing away from the stream.                               *)
LEMMA ReadKeeps ==
  ASSUME NEW b \in Seq(CgiUnit), NEW u \in Seq(CgiUnit), NEW n \in 1 .. Len(u)
  PROVE  (b \o SubSeq(u, 1, n)) \o SubSeq(u, n + 1, Len(u)) = b \o u
<1> DEFINE p == SubSeq(u, 1, n)
<1> DEFINE q == SubSeq(u, n + 1, Len(u))
<1>1. p \in Seq(CgiUnit) /\ q \in Seq(CgiUnit)
  OBVIOUS
<1>2. p \o q = u
  <2>1. /\ 1 \in 1 .. Len(u) + 1 /\ n \in 1 - 1 .. Len(u) /\ Len(u) \in n .. Len(u)
    OBVIOUS
  <2>2. SubSeq(u, 1, n) \o SubSeq(u, n + 1, Len(u)) = SubSeq(u, 1, Len(u))
    BY <2>1, ConcatAdjacentSubSeq
  <2> QED BY <2>2, SubSeqFull
<1> HIDE DEF p, q
<1>3. (b \o p) \o q = b \o (p \o q)
  BY <1>1, StreamsJoin
<1> QED BY <1>2, <1>3, Zenon DEF p, q

(* A read moves units from the front of unread to the end of the buffer.    *)
LEMMA ReadIs ==
  ASSUME NEW b \in Seq(CgiUnit), NEW u \in Seq(CgiUnit), NEW n \in 1 .. Len(u)
  PROVE  /\ SubSeq(u, n + 1, Len(u)) \in Seq(CgiUnit)
         /\ b \o SubSeq(u, 1, n) \in Seq(CgiUnit)
         /\ \A i \in 1 .. Len(SubSeq(u, n + 1, Len(u))) :
              n + i \in 1 .. Len(u) /\ SubSeq(u, n + 1, Len(u))[i] = u[n + i]
         /\ \A i \in 1 .. Len(b \o SubSeq(u, 1, n)) :
              \/ i \in 1 .. Len(b) /\ (b \o SubSeq(u, 1, n))[i] = b[i]
              \/ i - Len(b) \in 1 .. Len(u) /\ (b \o SubSeq(u, 1, n))[i] = u[i - Len(b)]
<1> DEFINE p == SubSeq(u, 1, n)
<1> DEFINE u2 == SubSeq(u, n + 1, Len(u))
<1> DEFINE b2 == b \o p
<1>1. /\ p \in Seq(CgiUnit) /\ Len(p) = n /\ \A i \in 1 .. n : p[i] = u[i]
      /\ Len(b) \in Nat /\ Len(u) \in Nat /\ n \in Nat /\ n <= Len(u)
  OBVIOUS
<1>2. u2 \in Seq(CgiUnit) /\ Len(u2) = Len(u) - n /\ \A i \in 1 .. Len(u2) : u2[i] = u[n + i]
  OBVIOUS
<1> HIDE DEF p, u2
<1>3. /\ b2 \in Seq(CgiUnit) /\ Len(b2) = Len(b) + n
      /\ \A i \in 1 .. Len(b) + n : b2[i] = IF i <= Len(b) THEN b[i] ELSE p[i - Len(b)]
  BY <1>1, ConcatProperties
<1>4. \A i \in 1 .. Len(u2) : n + i \in 1 .. Len(u) /\ u2[i] = u[n + i]
  BY <1>1, <1>2
<1> HIDE DEF b2
<1>5. ASSUME NEW i \in 1 .. Len(b2)
      PROVE  \/ i \in 1 .. Len(b) /\ b2[i] = b[i]
             \/ i - Len(b) \in 1 .. Len(u) /\ b2[i] = u[i - Len(b)]
  <2>1. CASE i <= Len(b)
    BY <1>1, <1>3, <2>1
  <2>2. CASE ~(i <= Len(b))
    <3>1. i - Len(b) \in 1 .. n
      BY <1>1, <1>3, <2>2
    <3> QED BY <1>1, <1>3, <2>2, <3>1
  <2> QED BY <2>1, <2>2
<1> QED BY <1>2, <1>3, <1>4, <1>5 DEF b2, p, u2

(* Taking units off the first of two sequences takes them off both.         *)
LEMMA DropOfConcat ==
  ASSUME NEW b \in Seq(CgiUnit), NEW u \in Seq(CgiUnit), NEW n \in Nat, n <= Len(b)
  PROVE  SubSeq(b, n + 1, Len(b)) \o u = SubSeq(b \o u, n + 1, Len(b \o u))
<1> DEFINE d == SubSeq(b, n + 1, Len(b))
<1> DEFINE s == b \o u
<1> DEFINE x == d \o u
<1> DEFINE y == SubSeq(s, n + 1, Len(s))
<1>1. /\ d \in Seq(CgiUnit) /\ Len(d) = Len(b) - n /\ \A i \in 1 .. Len(b) - n : d[i] = b[n + i]
      /\ Len(b) \in Nat /\ Len(u) \in Nat
  OBVIOUS
<1>2. /\ s \in Seq(CgiUnit) /\ Len(s) = Len(b) + Len(u)
      /\ \A i \in 1 .. Len(b) + Len(u) : s[i] = IF i <= Len(b) THEN b[i] ELSE u[i - Len(b)]
  BY ConcatProperties
<1> HIDE DEF d, s
<1>3. /\ x \in Seq(CgiUnit) /\ Len(x) = Len(d) + Len(u)
      /\ \A i \in 1 .. Len(d) + Len(u) : x[i] = IF i <= Len(d) THEN d[i] ELSE u[i - Len(d)]
  BY <1>1, ConcatProperties
<1>4. /\ y \in Seq(CgiUnit) /\ Len(y) = Len(s) - n /\ \A i \in 1 .. Len(s) - n : y[i] = s[n + i]
  <2>1. \A i \in n + 1 .. Len(s) : s[i] \in CgiUnit
    BY <1>2
  <2>2. Len(s) - (n + 1) + 1 = Len(s) - n /\ (n + 1 <= Len(s) \/ Len(s) - n = 0)
    BY <1>1, <1>2
  <2>3. /\ y \in Seq(CgiUnit) /\ Len(y) = Len(s) - n
        /\ \A i \in 1 .. Len(s) - (n + 1) + 1 : y[i] = s[n + 1 + i - 1]
    BY <1>1, <1>2, <2>1, <2>2, SubSeqProperties
  <2>4. \A i \in 1 .. Len(s) - n : n + 1 + i - 1 = n + i
    BY <1>1, <1>2
  <2> QED BY <2>2, <2>3, <2>4
<1> HIDE DEF x, y
<1>5. ASSUME NEW i \in 1 .. Len(x) PROVE x[i] = y[i]
  <2>1. n + i \in 1 .. Len(b) + Len(u) /\ i \in 1 .. Len(s) - n /\ i \in 1 .. Len(d) + Len(u)
    BY <1>1, <1>2, <1>3
  <2>2. CASE i <= Len(b) - n
    <3>1. i \in 1 .. Len(b) - n /\ n + i <= Len(b)
      BY <1>1, <2>1, <2>2
    <3> QED BY <1>1, <1>2, <1>3, <1>4, <2>1, <2>2, <3>1
  <2>3. CASE ~(i <= Len(b) - n)
    <3>1. ~(n + i <= Len(b)) /\ (n + i) - Len(b) = i - Len(d)
      BY <1>1, <2>1, <2>3
    <3>2. x[i] = u[i - Len(d)]
      BY <1>1, <1>3, <2>1, <2>3
    <3>3. y[i] = s[n + i]
      BY <1>4, <2>1
    <3>4. s[n + i] = u[(n + i) - Len(b)]
      BY <1>2, <2>1, <3>1
    <3> QED BY <3>1, <3>2, <3>3, <3>4
  <2> QED BY <2>2, <2>3
<1>6. Len(x) = Len(y)
  BY <1>1, <1>2, <1>3, <1>4
<1>7. x = y
  BY <1>3, <1>4, <1>5, <1>6, SeqEqual
<1> QED BY <1>7 DEF x, y, d, s

(* Every action of the FastCGI path keeps its variables in their types.     *)
LEMMA CgiTypeStep ==
  ASSUME TypeOK, CgiTypeOK, [Next]_vars
  PROVE  CgiTypeOK'
<1> USE HttpServerAssumption
<1>1. ASSUME UNCHANGED cgiVars PROVE CgiTypeOK'
  BY <1>1 DEF cgiVars, CgiTypeOK
<1>2. ASSUME NEW c \in Conns, CgiRequest(c) PROVE CgiTypeOK'
  <2>1. /\ requests' \in Seq(Conns) /\ Len(requests') = Len(requests) + 1
        /\ Len(requests) \in Nat
    BY <1>2 DEF CgiRequest, CgiTypeOK
  <2>2. functors' \in Seq(Nat) /\ \A i \in 1 .. Len(functors') : functors'[i] \in 1 .. Len(requests')
    <3>1. functors' = Append(functors, Len(requests) + 1) /\ functors \in Seq(Nat)
      BY <1>2 DEF CgiRequest, CgiTypeOK
    <3>2. \A i \in 1 .. Len(functors) : functors[i] \in 1 .. Len(requests)
      BY DEF CgiTypeOK
    <3> QED BY <2>1, <3>1, <3>2
  <2> QED BY <1>2, <2>1, <2>2 DEF CgiRequest, CgiTypeOK
<1>3. ASSUME ServerCgi PROVE CgiTypeOK'
  <2>1. /\ functors \in Seq(Nat) /\ functors # <<>> /\ functors' = Tail(functors)
        /\ \A i \in 1 .. Len(functors) : functors[i] \in 1 .. Len(requests)
    BY <1>3 DEF ServerCgi, CgiTypeOK
  <2>2. /\ functors' \in Seq(Nat) /\ Head(functors) \in 1 .. Len(requests)
        /\ \A i \in 1 .. Len(functors') : functors'[i] \in 1 .. Len(requests)
    BY <2>1
  <2>3. requests[Head(functors)] \in Conns
    <3>1. requests \in Seq(Conns)
      BY DEF CgiTypeOK
    <3> QED BY <2>2, <3>1, ElementOfSeq
  <2>4. ReqCGIId_' \in Nat /\ ReqCGIId_' = ReqCGIId_ + 1
    BY <1>3 DEF ServerCgi, CgiTypeOK
  <2>5. /\ DOMAIN ReqCGIConnMap_' \subseteq 1 .. ReqCGIId_'
        /\ ReqCGIConnMap_' \in [DOMAIN ReqCGIConnMap_' -> Conns]
    <3>1. ReqCGIConnMap_' =
            [i \in DOMAIN ReqCGIConnMap_ \cup {ReqCGIId_'} |->
               IF i = ReqCGIId_' THEN requests[Head(functors)] ELSE ReqCGIConnMap_[i]]
      BY <1>3 DEF ServerCgi
    <3>2. DOMAIN ReqCGIConnMap_' = DOMAIN ReqCGIConnMap_ \cup {ReqCGIId_'}
      BY <3>1
    <3>3. DOMAIN ReqCGIConnMap_' \subseteq 1 .. ReqCGIId_'
      BY <2>4, <3>2 DEF CgiTypeOK
    <3>4. \A i \in DOMAIN ReqCGIConnMap_ : ReqCGIConnMap_[i] \in Conns
      BY DEF CgiTypeOK
    <3> QED BY <2>3, <3>1, <3>2, <3>3, <3>4
  <2>6. Job(ReqCGIId_', Head(functors)) \in Jobs
    BY SMTT(30), <2>2, <2>4, IdBytes DEF Job, MakeHeader, Jobs, CgiTypeOK
  <2>7. php' \subseteq Jobs
    BY <1>3, <2>6 DEF ServerCgi, CgiTypeOK
  <2> QED BY <1>3, <2>2, <2>4, <2>5, <2>7 DEF ServerCgi, CgiTypeOK
<1>4. ASSUME CgiUp PROVE CgiTypeOK'
  <2>1. Job(0, 0) \in Jobs
    BY IdBytes DEF Job, MakeHeader, Jobs
  <2> QED BY <1>4, <2>1 DEF CgiUp, CgiTypeOK
<1>5. ASSUME CgiDown PROVE CgiTypeOK'
  BY <1>5 DEF CgiDown, CgiTypeOK
<1>6. ASSUME PhpReply PROVE CgiTypeOK'
  <2>1. PICK job \in php, outputs \in Replies :
          php' = php \ {job} /\ unread' = unread \o ReplyUnits(outputs, job)
    BY <1>6 DEF PhpReply
  <2>2. ReplyUnits(outputs, job) \in Seq(CgiUnit)
    BY <2>1, ReplyIs DEF CgiTypeOK
  <2>3. unread' \in Seq(CgiUnit)
    BY <2>1, <2>2, ConcatProperties DEF CgiTypeOK
  <2> QED BY <1>6, <2>1, <2>3 DEF PhpReply, CgiTypeOK
<1>7. ASSUME CgiRead PROVE CgiTypeOK'
  <2>1. PICK n \in 1 .. Len(unread) :
          buf' = buf \o SubSeq(unread, 1, n) /\ unread' = SubSeq(unread, n + 1, Len(unread))
    BY <1>7 DEF CgiRead
  <2>2. buf' \in Seq(CgiUnit) /\ unread' \in Seq(CgiUnit)
    BY <2>1, ReadIs DEF CgiTypeOK
  <2> QED BY <1>7, <2>2 DEF CgiRead, CgiTypeOK
<1>8. ASSUME OnCgiMessage PROVE CgiTypeOK'
  <2>1. buf[1] \in CgiUnit /\ buf[1].k \in Nat /\ buf[1].header \in Headers
    <3>1. buf[1] \in CgiUnit
      BY <1>8 DEF OnCgiMessage, CgiTypeOK
    <3> QED BY <3>1 DEF CgiUnit
  <2>2. buf' \in Seq(CgiUnit)
    <3>1. Size(buf[1].header) \in Nat /\ buf \in Seq(CgiUnit)
      BY <2>1, SizeType DEF CgiTypeOK
    <3>2. buf' = SubSeq(buf, Size(buf[1].header) + 1, Len(buf))
      BY <1>8 DEF OnCgiMessage, Retrieve
    <3>3. \A i \in Size(buf[1].header) + 1 .. Len(buf) : buf[i] \in CgiUnit
      BY <3>1
    <3> QED BY <3>1, <3>2, <3>3, SubSeqProperties
  <2>3. answers' \in [Conns -> Seq(Nat)]
    <3>1. \A c \in Conns : answers[c] \in Seq(Nat) /\ Append(answers[c], buf[1].k) \in Seq(Nat)
      BY <2>1 DEF CgiTypeOK
    <3>2. /\ answers' = [c \in Conns |-> answers'[c]]
          /\ \A c \in Conns : answers'[c] \in {answers[c], Append(answers[c], buf[1].k)}
      BY <1>8 DEF OnCgiMessage
    <3> QED BY <3>1, <3>2
  <2>4. /\ DOMAIN ReqCGIConnMap_' \subseteq 1 .. ReqCGIId_
        /\ ReqCGIConnMap_' \in [DOMAIN ReqCGIConnMap_' -> Conns]
    <3>1. \/ ReqCGIConnMap_' = ReqCGIConnMap_
          \/ ReqCGIConnMap_' = [i \in DOMAIN ReqCGIConnMap_ \ {GetRequestId(buf[1].header)}
                                  |-> ReqCGIConnMap_[i]]
      BY <1>8 DEF OnCgiMessage
    <3> QED BY <3>1 DEF CgiTypeOK
  <2> QED BY <1>8, <2>2, <2>3, <2>4 DEF OnCgiMessage, CgiTypeOK
<1>9. ASSUME NEW c \in Conns, DownAgain(c) PROVE CgiTypeOK'
  BY <1>9 DEF DownAgain, CgiTypeOK
<1> QED BY <1>1, <1>2, <1>3, <1>4, <1>5, <1>6, <1>7, <1>8, <1>9
        DEF Next, ConnNext, Up, PeerClose, ForceClose, Down, Free, Message,
            CheckTimer, Tick, JumpBack, vars

(* The loop of onCGIMessage finds a header each time, however the stream is *)
(* cut into reads, until a record is taken in part.                         *)
LEMMA FrameStep ==
  ASSUME CgiTypeOK, InFrame, [Next]_vars
  PROVE  InFrame'
<1> DEFINE s == buf \o unread
<1>0. /\ buf \in Seq(CgiUnit) /\ unread \in Seq(CgiUnit) /\ s \in Seq(CgiUnit)
      /\ Len(buf) \in Nat /\ Len(s) = Len(buf) + Len(unread)
      /\ \A i \in 1 .. Len(buf) : s[i] = buf[i]
  BY ConcatIs DEF CgiTypeOK
<1>1. ASSUME UNCHANGED <<buf, unread, cut, CGIConn_>> PROVE InFrame'
  BY <1>1 DEF InFrame
<1>2. ASSUME CgiUp PROVE InFrame'
  <2>1. cut \/ Framed(s)
    BY <1>2 DEF CgiUp, InFrame
  <2> QED BY <1>2, <2>1 DEF CgiUp, InFrame, Framed
<1>3. ASSUME CgiDown PROVE InFrame'
  <2>1. cut \/ (buf # <<>> => buf[1].part = "first")
    <3>1. ASSUME Framed(s), buf # <<>> PROVE buf[1].part = "first"
      <4>1. Len(buf) >= 1
        BY <1>0, <3>1
      <4>2. s # <<>> /\ s[1] = buf[1]
        BY <1>0, <4>1
      <4> QED BY <3>1, <4>2 DEF Framed
    <3> QED BY <3>1 DEF InFrame
  <2> QED BY <1>3, <2>1 DEF CgiDown, BaseLoopFree, InFrame
<1>4. ASSUME PhpReply PROVE InFrame'
  <2>1. PICK job \in php, outputs \in Replies : unread' = unread \o ReplyUnits(outputs, job)
    BY <1>4 DEF PhpReply
  <2>2. ReplyUnits(outputs, job) \in Seq(CgiUnit) /\ Framed(ReplyUnits(outputs, job))
    BY <2>1, ReplyIs, HttpServerAssumption DEF CgiTypeOK
  <2>3. buf \o unread' = s \o ReplyUnits(outputs, job)
    BY <1>0, <2>1, <2>2, StreamsJoin
  <2>4. cut \/ Framed(s)
    BY <1>4 DEF PhpReply, InFrame
  <2>5. cut \/ Framed(buf \o unread')
    BY <1>0, <2>2, <2>3, <2>4, FramedConcat
  <2>6. buf' = buf /\ cut' = cut
    BY <1>4 DEF PhpReply
  <2> QED BY <2>5, <2>6 DEF InFrame, Framed
<1>5. ASSUME CgiRead PROVE InFrame'
  <2>1. PICK n \in 1 .. Len(unread) :
          buf' = buf \o SubSeq(unread, 1, n) /\ unread' = SubSeq(unread, n + 1, Len(unread))
    BY <1>5 DEF CgiRead
  <2>2. buf' \o unread' = s
    <3>1. (buf \o SubSeq(unread, 1, n)) \o SubSeq(unread, n + 1, Len(unread)) = s
      BY <1>0, ReadKeeps
    <3> QED BY <2>1, <3>1, Zenon
  <2>3. unread # <<>>
    BY <1>0, <2>1
  <2>4. cut \/ Framed(s)
    BY <2>3 DEF InFrame
  <2>5. cut' = cut
    BY <1>5 DEF CgiRead
  <2> QED BY <2>2, <2>4, <2>5 DEF InFrame, Framed
<1>6. ASSUME OnCgiMessage PROVE InFrame'
  <2> DEFINE n == Size(buf[1].header)
  <2>1. Len(buf) >= 2 /\ ~cut /\ buf[1].header \in Headers
    <3>1. Len(buf) >= 2 /\ ~cut
      BY <1>6 DEF OnCgiMessage
    <3>2. buf[1] \in CgiUnit
      BY <1>0, <3>1
    <3> QED BY <3>1, <3>2 DEF CgiUnit
  <2>2. n \in Nat
    BY <2>1, SizeType
  <2>3. Framed(s)
    BY <1>0, <2>1 DEF InFrame
  <2>4. /\ buf' = SubSeq(buf, n + 1, Len(buf)) /\ unread' = unread
        /\ cut' = ~(Len(buf) >= n)
    BY <1>6 DEF OnCgiMessage, Retrieve
  <2>5. CASE Len(buf) < n
    <3>1. ~(Len(buf) >= n)
      BY <1>0, <2>2, <2>5
    <3>2. cut'
      BY <2>4, <3>1, Zenon
    <3> QED BY <3>2 DEF InFrame
  <2>6. CASE n <= Len(buf)
    <3>1. s # <<>> /\ n = Size(s[1].header)
      BY <1>0, <2>1
    <3> HIDE DEF n, s
    <3>2. Framed(SubSeq(s, n + 1, Len(s)))
      BY <1>0, <2>2, <2>3, <3>1, FramedDrop
    <3>3. SubSeq(buf, n + 1, Len(buf)) \o unread = SubSeq(s, n + 1, Len(s))
      BY <1>0, <2>2, <2>6, DropOfConcat DEF s
    <3> QED BY <2>4, <3>2, <3>3 DEF InFrame, Framed
  <2> QED BY <1>0, <2>2, <2>5, <2>6
<1> QED BY <1>1, <1>2, <1>3, <1>4, <1>5, <1>6
        DEF Next, ConnNext, Up, PeerClose, ForceClose, Down, DownAgain, Free, Message, CgiRequest,
            ServerCgi, CheckTimer, Tick, JumpBack, vars, cgiVars

(* Requests are only added, an id that was given out is not given again,    *)
(* and the map forgets ids but does not change its mind: what leads to a    *)
(* request goes on leading to it.                                           *)
Later(reqs, last, map, reqs2, last2, map2) ==
  /\ last <= last2 /\ Len(reqs) <= Len(reqs2)
  /\ \A k \in 1 .. Len(reqs) : reqs2[k] = reqs[k]
  /\ \A id \in DOMAIN map2 : id <= last => id \in DOMAIN map /\ map2[id] = map[id]

(* An answer on its way leads to the same connection when requests are      *)
(* added, ...                                                               *)
LEMMA LeadsLater ==
  ASSUME NEW reqs \in Seq(Conns), NEW reqs2 \in Seq(Conns), NEW last \in Nat,
         NEW last2 \in Nat, NEW map, NEW map2, Later(reqs, last, map, reqs2, last2, map2),
         NEW b1, NEW b0, NEW k, Leads(b1, b0, k, reqs, last, map)
  PROVE  Leads(b1, b0, k, reqs2, last2, map2)
<1> DEFINE id == b1 * ByteValues + b0
<1>1. CASE id = 0 /\ k = 0
  BY <1>1 DEF Leads
<1>2. CASE /\ id \in 1 .. last /\ k \in 1 .. Len(reqs)
           /\ id \in DOMAIN map => map[id] = reqs[k]
  <2> HIDE DEF id
  <2>1. id \in 1 .. last2 /\ k \in 1 .. Len(reqs2) /\ id <= last
    <3>1. Len(reqs) \in Nat /\ Len(reqs2) \in Nat
      OBVIOUS
    <3> QED BY <1>2, <3>1 DEF Later
  <2>2. id \in DOMAIN map2 => map2[id] = reqs2[k]
    BY <1>2, <2>1 DEF Later
  <2> QED BY <2>1, <2>2 DEF Leads, id
<1> QED BY <1>1, <1>2 DEF Leads

(* ... and so do all jobs and all units on their way.                       *)
LEMMA AllLeadLater ==
  ASSUME NEW reqs \in Seq(Conns), NEW reqs2 \in Seq(Conns), NEW last \in Nat,
         NEW last2 \in Nat, NEW map, NEW map2, Later(reqs, last, map, reqs2, last2, map2)
  PROVE  /\ \A jobs : JobsLead(jobs, reqs, last, map) => JobsLead(jobs, reqs2, last2, map2)
         /\ \A s : UnitsLead(s, reqs, last, map) => UnitsLead(s, reqs2, last2, map2)
BY LeadsLater DEF JobsLead, UnitsLead

(* Answers sent stay right when requests are added.                         *)
LEMMA SentLater ==
  ASSUME NEW reqs \in Seq(Conns), NEW reqs2 \in Seq(Conns), Len(reqs) <= Len(reqs2),
         \A k \in 1 .. Len(reqs) : reqs2[k] = reqs[k], NEW answered, SentRight(answered, reqs)
  PROVE  SentRight(answered, reqs2)
<1> SUFFICES ASSUME NEW c \in Conns, NEW i \in 1 .. Len(answered[c])
             PROVE  answered[c][i] \in 1 .. Len(reqs2) /\ reqs2[answered[c][i]] = c
  BY DEF SentRight
<1>1. answered[c][i] \in 1 .. Len(reqs) /\ reqs[answered[c][i]] = c
  BY DEF SentRight
<1>2. Len(reqs) \in Nat /\ Len(reqs2) \in Nat
  OBVIOUS
<1> QED BY <1>1, <1>2

(* A job's bytes lead to the request it is made for.                        *)
LEMMA JobLeads ==
  ASSUME NEW id \in Nat, NEW k, id < ByteValues * ByteValues,
         NEW reqs, NEW last, NEW map,
         \/ id = 0 /\ k = 0
         \/ /\ id \in 1 .. last /\ k \in 1 .. Len(reqs)
            /\ id \in DOMAIN map => map[id] = reqs[k]
  PROVE  Leads(Job(id, k).requestIdB1, Job(id, k).requestIdB0, Job(id, k).k, reqs, last, map)
<1>1. /\ Job(id, k).requestIdB1 = (id \div ByteValues) % ByteValues
      /\ Job(id, k).requestIdB0 = id % ByteValues
      /\ Job(id, k).k = k
  BY DEF Job, MakeHeader
<1>2. Job(id, k).requestIdB1 * ByteValues + Job(id, k).requestIdB0 = id
  BY <1>1, IdBytes
<1> QED BY <1>1, <1>2 DEF Leads

(* Units taken from two streams lead where they led.                        *)
LEMMA UnitsOf ==
  ASSUME NEW s, NEW t, NEW u, NEW reqs, NEW last, NEW map,
         UnitsLead(s, reqs, last, map), UnitsLead(t, reqs, last, map),
         \A i \in 1 .. Len(u) :
           \/ \E j \in 1 .. Len(s) : u[i] = s[j]
           \/ \E j \in 1 .. Len(t) : u[i] = t[j]
  PROVE  UnitsLead(u, reqs, last, map)
<1> SUFFICES ASSUME NEW i \in 1 .. Len(u)
             PROVE  Leads(u[i].header.requestIdB1, u[i].header.requestIdB0, u[i].k, reqs, last, map)
  BY DEF UnitsLead
<1>1. PICK x : /\ u[i] = x
               /\ Leads(x.header.requestIdB1, x.header.requestIdB0, x.k, reqs, last, map)
  BY DEF UnitsLead
<1> QED BY <1>1

(* server_cgi gives each request an id of its own, and what comes back with *)
(* it goes to the connection the map has for it.                            *)
LEMMA LeadStep ==
  ASSUME CgiTypeOK, CgiTypeOK', IdsLead, [Next]_vars
  PROVE  IdsLead'
<1> DEFINE L(x) == UnitsLead(x, requests, ReqCGIId_, ReqCGIConnMap_)
<1> DEFINE bound == ByteValues * ByteValues
<1>1. SUFFICES ASSUME ReqCGIId_' < bound
               PROVE  /\ JobsLead(php', requests', ReqCGIId_', ReqCGIConnMap_')
                      /\ UnitsLead(unread', requests', ReqCGIId_', ReqCGIConnMap_')
                      /\ UnitsLead(buf', requests', ReqCGIId_', ReqCGIConnMap_')
                      /\ SentRight(answers', requests')
  BY DEF IdsLead, JobsLead, UnitsLead, SentRight, Leads
<1> DEFINE Goal ==
      /\ JobsLead(php', requests', ReqCGIId_', ReqCGIConnMap_')
      /\ UnitsLead(unread', requests', ReqCGIId_', ReqCGIConnMap_')
      /\ UnitsLead(buf', requests', ReqCGIId_', ReqCGIConnMap_')
      /\ SentRight(answers', requests')
<1>2. /\ requests \in Seq(Conns) /\ requests' \in Seq(Conns) /\ Len(requests) \in Nat
      /\ ReqCGIId_ \in Nat /\ ReqCGIId_' \in Nat
      /\ unread \in Seq(CgiUnit) /\ buf \in Seq(CgiUnit)
  BY DEF CgiTypeOK
<1>3. ReqCGIId_' = ReqCGIId_ \/ ReqCGIId_' = ReqCGIId_ + 1
  BY DEF Next, ConnNext, Up, PeerClose, ForceClose, Down, DownAgain, Free, Message, CgiRequest,
         ServerCgi, CgiUp, CgiDown, PhpReply, CgiRead, OnCgiMessage, CheckTimer, Tick,
         JumpBack, vars, cgiVars
<1>4. ReqCGIId_ < bound /\ bound \in Nat
  <2>1. bound \in Nat
    BY HttpServerAssumption
  <2> HIDE DEF bound
  <2> QED BY <1>1, <1>2, <1>3, <2>1
<1>5. /\ JobsLead(php, requests, ReqCGIId_, ReqCGIConnMap_)
      /\ L(unread) /\ L(buf) /\ SentRight(answers, requests)
  BY <1>4 DEF IdsLead
<1> HIDE DEF bound
<1>6. ASSUME UNCHANGED <<requests, ReqCGIId_, ReqCGIConnMap_, php, unread, buf, answers>>
      PROVE  Goal
  BY <1>5, <1>6
<1>7. ASSUME NEW c \in Conns, CgiRequest(c) PROVE Goal
  <2>1. /\ UNCHANGED <<ReqCGIId_, ReqCGIConnMap_, php, unread, buf, answers>>
        /\ requests' = Append(requests, c)
    BY <1>7 DEF CgiRequest
  <2>2. Len(requests) <= Len(requests') /\ \A k \in 1 .. Len(requests) : requests'[k] = requests[k]
    BY <1>2, <2>1
  <2>3. Later(requests, ReqCGIId_, ReqCGIConnMap_, requests', ReqCGIId_', ReqCGIConnMap_')
    BY <1>2, <2>1, <2>2 DEF Later
  <2>4. SentRight(answers, requests')
    BY <1>2, <1>5, <2>2, SentLater
  <2> QED BY <1>2, <1>5, <2>1, <2>3, <2>4, AllLeadLater
<1>8. ASSUME ServerCgi PROVE Goal
  <2> DEFINE k == Head(functors)
  <2>1. /\ UNCHANGED <<requests, unread, buf, answers>>
        /\ ReqCGIId_' = ReqCGIId_ + 1
        /\ ReqCGIConnMap_' =
             [i \in DOMAIN ReqCGIConnMap_ \cup {ReqCGIId_'} |->
                IF i = ReqCGIId_' THEN requests[k] ELSE ReqCGIConnMap_[i]]
        /\ php' \subseteq php \cup {Job(ReqCGIId_', k)}
    BY <1>8 DEF ServerCgi
  <2>2. k \in 1 .. Len(requests)
    <3>1. functors \in Seq(Nat) /\ functors # <<>>
      BY <1>8 DEF ServerCgi, CgiTypeOK
    <3>2. 1 \in 1 .. Len(functors) /\ k = functors[1]
      BY <3>1
    <3> QED BY <3>2 DEF CgiTypeOK
  <2> HIDE DEF k
  <2>3. /\ DOMAIN ReqCGIConnMap_' = DOMAIN ReqCGIConnMap_ \cup {ReqCGIId_'}
        /\ ReqCGIConnMap_'[ReqCGIId_'] = requests[k]
        /\ \A i \in DOMAIN ReqCGIConnMap_' :
             i <= ReqCGIId_ => i \in DOMAIN ReqCGIConnMap_ /\ ReqCGIConnMap_'[i] = ReqCGIConnMap_[i]
    <3>1. DOMAIN ReqCGIConnMap_' = DOMAIN ReqCGIConnMap_ \cup {ReqCGIId_'}
      BY <2>1
    <3>2. \A i \in DOMAIN ReqCGIConnMap_' :
            ReqCGIConnMap_'[i] = IF i = ReqCGIId_' THEN requests[k] ELSE ReqCGIConnMap_[i]
      BY <2>1
    <3>3. ~(ReqCGIId_' <= ReqCGIId_)
      BY <1>2, <2>1
    <3> QED BY <3>1, <3>2, <3>3
  <2>4. Later(requests, ReqCGIId_, ReqCGIConnMap_, requests', ReqCGIId_', ReqCGIConnMap_')
    BY <1>2, <2>1, <2>3 DEF Later
  <2>5. /\ JobsLead(php, requests', ReqCGIId_', ReqCGIConnMap_')
        /\ UnitsLead(unread, requests', ReqCGIId_', ReqCGIConnMap_')
        /\ UnitsLead(buf, requests', ReqCGIId_', ReqCGIConnMap_')
    BY <1>2, <1>5, <2>4, AllLeadLater
  <2>6. ReqCGIId_' \in 1 .. ReqCGIId_'
    BY <1>2, <2>1
  <2> DEFINE job == Job(ReqCGIId_', k)
  <2>7. Leads(job.requestIdB1, job.requestIdB0, job.k, requests', ReqCGIId_', ReqCGIConnMap_')
    BY <1>1, <1>2, <2>1, <2>2, <2>3, <2>6, JobLeads DEF bound
  <2>8. JobsLead(php', requests', ReqCGIId_', ReqCGIConnMap_')
    <3> HIDE DEF job
    <3>1. \A j \in php' : j \in php \/ j = job
      BY <2>1 DEF job
    <3> QED BY <2>5, <2>7, <3>1 DEF JobsLead
  <2> QED BY <1>5, <2>1, <2>5, <2>8
<1>9. ASSUME CgiUp PROVE Goal
  <2>1. /\ UNCHANGED <<requests, ReqCGIId_, ReqCGIConnMap_, unread, buf, answers>>
        /\ php' = php \cup {Job(0, 0)}
    BY <1>9 DEF CgiUp
  <2> DEFINE job == Job(0, 0)
  <2>2. Leads(job.requestIdB1, job.requestIdB0, job.k, requests, ReqCGIId_, ReqCGIConnMap_)
    <3>1. 0 \in Nat /\ 0 < ByteValues * ByteValues
      <4>1. 0 < bound
        BY <1>2, <1>4
      <4> QED BY <4>1 DEF bound
    <3> QED BY <3>1, JobLeads
  <2>3. JobsLead(php', requests, ReqCGIId_, ReqCGIConnMap_)
    <3> HIDE DEF job
    <3>1. \A j \in php' : j \in php \/ j = job
      BY <2>1 DEF job
    <3> QED BY <1>5, <2>2, <3>1 DEF JobsLead
  <2> QED BY <1>5, <2>1, <2>3
<1>10. ASSUME CgiDown PROVE Goal
  <2>1. /\ UNCHANGED <<requests, ReqCGIId_, ReqCGIConnMap_, buf, answers>>
        /\ php' = {} /\ unread' = <<>>
    BY <1>10 DEF CgiDown
  <2>2. JobsLead({}, requests, ReqCGIId_, ReqCGIConnMap_) /\ L(<<>>)
    BY DEF JobsLead, UnitsLead
  <2> QED BY <1>5, <2>1, <2>2
<1>11. ASSUME PhpReply PROVE Goal
  <2>1. UNCHANGED <<requests, ReqCGIId_, ReqCGIConnMap_, buf, answers>>
    BY <1>11 DEF PhpReply
  <2>2. PICK job \in php, outputs \in Replies :
          php' = php \ {job} /\ unread' = unread \o ReplyUnits(outputs, job)
    BY <1>11 DEF PhpReply
  <2> DEFINE reply == ReplyUnits(outputs, job)
  <2>3. reply \in Seq(CgiUnit) /\ Carries(reply, job)
    BY ReplyIs, HttpServerAssumption DEF CgiTypeOK
  <2>4. L(reply)
    <3>1. Leads(job.requestIdB1, job.requestIdB0, job.k, requests, ReqCGIId_, ReqCGIConnMap_)
      BY <1>5 DEF JobsLead
    <3> HIDE DEF reply
    <3> QED BY <2>3, <3>1 DEF Carries, UnitsLead
  <2>5. L(unread \o reply)
    <3> HIDE DEF reply, L
    <3>1. \A i \in 1 .. Len(unread \o reply) :
            \/ \E j \in 1 .. Len(unread) : (unread \o reply)[i] = unread[j]
            \/ \E j \in 1 .. Len(reply) : (unread \o reply)[i] = reply[j]
      <4> SUFFICES ASSUME NEW i \in 1 .. Len(unread \o reply)
                   PROVE  \/ i \in 1 .. Len(unread) /\ (unread \o reply)[i] = unread[i]
                          \/ /\ i - Len(unread) \in 1 .. Len(reply)
                             /\ (unread \o reply)[i] = reply[i - Len(unread)]
        OBVIOUS
      <4>1. Len(unread) \in Nat /\ Len(reply) \in Nat /\ i \in 1 .. Len(unread) + Len(reply)
        BY <1>2, <2>3, ConcatProperties
      <4>2. (unread \o reply)[i] = IF i <= Len(unread) THEN unread[i] ELSE reply[i - Len(unread)]
        BY <1>2, <2>3, <4>1, ConcatProperties
      <4> QED BY <4>1, <4>2
    <3> QED BY <1>5, <2>4, <3>1, UnitsOf DEF L
  <2>6. JobsLead(php', requests, ReqCGIId_, ReqCGIConnMap_)
    BY <1>5, <2>2 DEF JobsLead
  <2> QED BY <1>5, <2>1, <2>2, <2>5, <2>6
<1>12. ASSUME CgiRead PROVE Goal
  <2>1. UNCHANGED <<requests, ReqCGIId_, ReqCGIConnMap_, php, answers>>
    BY <1>12 DEF CgiRead
  <2>2. PICK n \in 1 .. Len(unread) :
          buf' = buf \o SubSeq(unread, 1, n) /\ unread' = SubSeq(unread, n + 1, Len(unread))
    BY <1>12 DEF CgiRead
  <2>3. \A i \in 1 .. Len(unread') : n + i \in 1 .. Len(unread) /\ unread'[i] = unread[n + i]
    BY <1>2, <2>2, ReadIs
  <2>4. \A i \in 1 .. Len(buf') :
          \/ i \in 1 .. Len(buf) /\ buf'[i] = buf[i]
          \/ i - Len(buf) \in 1 .. Len(unread) /\ buf'[i] = unread[i - Len(buf)]
    BY <1>2, <2>2, ReadIs
  <2>5. L(unread')
    BY <1>5, <2>3, UnitsOf
  <2>6. L(buf')
    BY <1>5, <2>4, UnitsOf
  <2> QED BY <1>5, <2>1, <2>5, <2>6
<1>13. ASSUME OnCgiMessage PROVE Goal
  <2> DEFINE unit == buf[1]
  <2> DEFINE id == GetRequestId(unit.header)
  <2> DEFINE n == Size(unit.header)
  <2>1. /\ UNCHANGED <<requests, ReqCGIId_, php, unread>>
        /\ Len(buf) >= 2
        /\ buf' = SubSeq(buf, n + 1, Len(buf))
        /\ \A c \in Conns :
             \/ answers'[c] = answers[c]
             \/ /\ answers'[c] = Append(answers[c], unit.k)
                /\ id # 0 /\ id \in DOMAIN ReqCGIConnMap_ /\ ReqCGIConnMap_[id] = c
        /\ \/ ReqCGIConnMap_' = ReqCGIConnMap_
           \/ ReqCGIConnMap_' = [i \in DOMAIN ReqCGIConnMap_ \ {id} |-> ReqCGIConnMap_[i]]
    BY <1>13 DEF OnCgiMessage, Retrieve
  <2>2. unit \in CgiUnit /\ unit.header \in Headers /\ n \in Nat /\ Len(buf) \in Nat
    <3>1. unit \in CgiUnit /\ Len(buf) \in Nat
      BY <1>2, <2>1
    <3> QED BY <3>1, SizeType DEF CgiUnit
  <2>3. Leads(unit.header.requestIdB1, unit.header.requestIdB0, unit.k,
              requests, ReqCGIId_, ReqCGIConnMap_)
    <3>1. 1 \in 1 .. Len(buf)
      BY <2>1, <2>2
    <3> QED BY <1>5, <3>1 DEF UnitsLead
  <2>4. id = unit.header.requestIdB1 * ByteValues + unit.header.requestIdB0
    BY DEF GetRequestId
  <2> HIDE DEF id, n, unit
  <2>5. id # 0 /\ id \in DOMAIN ReqCGIConnMap_ =>
          unit.k \in 1 .. Len(requests) /\ requests[unit.k] = ReqCGIConnMap_[id]
    BY <2>3, <2>4 DEF Leads
  <2>6. SentRight(answers', requests)
    <3> SUFFICES ASSUME NEW c \in Conns, NEW i \in 1 .. Len(answers'[c])
                 PROVE  answers'[c][i] \in 1 .. Len(requests) /\ requests[answers'[c][i]] = c
      BY DEF SentRight
    <3>1. CASE answers'[c] = answers[c]
      BY <1>5, <3>1 DEF SentRight
    <3>2. CASE /\ answers'[c] = Append(answers[c], unit.k)
               /\ id # 0 /\ id \in DOMAIN ReqCGIConnMap_ /\ ReqCGIConnMap_[id] = c
      <4>1. answers[c] \in Seq(Nat)
        BY DEF CgiTypeOK
      <4>2. \/ i \in 1 .. Len(answers[c]) /\ answers'[c][i] = answers[c][i]
            \/ answers'[c][i] = unit.k
        BY <3>2, <4>1
      <4> QED BY <1>5, <2>5, <3>2, <4>2 DEF SentRight
    <3> QED BY <2>1, <3>1, <3>2
  <2>7. Later(requests, ReqCGIId_, ReqCGIConnMap_, requests, ReqCGIId_, ReqCGIConnMap_')
    <3>1. \A i \in DOMAIN ReqCGIConnMap_' :
            i \in DOMAIN ReqCGIConnMap_ /\ ReqCGIConnMap_'[i] = ReqCGIConnMap_[i]
      BY <2>1
    <3> QED BY <1>2, <3>1 DEF Later
  <2>8. L(buf')
    <3>1. \A i \in n + 1 .. Len(buf) : buf[i] \in CgiUnit
      BY <1>2, <2>2
    <3>2. /\ Len(buf') = IF n + 1 <= Len(buf) THEN Len(buf) - (n + 1) + 1 ELSE 0
          /\ \A i \in 1 .. Len(buf) - (n + 1) + 1 : buf'[i] = buf[n + 1 + i - 1]
      BY <2>1, <2>2, <3>1, SubSeqProperties
    <3>3. ASSUME NEW i \in 1 .. Len(buf') PROVE n + i \in 1 .. Len(buf) /\ buf'[i] = buf[n + i]
      <4>1. i \in 1 .. Len(buf) - (n + 1) + 1 /\ n + i \in 1 .. Len(buf) /\ n + 1 + i - 1 = n + i
        BY <2>2, <3>2
      <4> QED BY <3>2, <4>1
    <3>4. \A i \in 1 .. Len(buf') : \E j \in 1 .. Len(buf) : buf'[i] = buf[j]
      BY <3>3
    <3> QED BY <1>5, <3>4, UnitsOf
  <2> QED BY <1>2, <1>5, <2>1, <2>6, <2>7, <2>8, AllLeadLater
<1> QED BY <1>6, <1>7, <1>8, <1>9, <1>10, <1>11, <1>12, <1>13
        DEF Next, ConnNext, Up, PeerClose, ForceClose, Down, DownAgain, Free, Message,
            CheckTimer, Tick, JumpBack, vars, cgiVars

CgiInv == CgiTypeOK /\ InFrame /\ IdsLead

(* HttpServer's answers: as long as the ids fit in two bytes, what php      *)
(* answers is sent to the connection that asked, and until a record is cut  *)
(* the loop of onCGIMessage finds a header at the front of the buffer, for  *)
(* any requests, replies, reads and order of the answers.                   *)
THEOREM AnswersReachAskers == Spec => []AnswersRight
<1>1. Init => CgiInv
  <2> SUFFICES ASSUME Init PROVE CgiInv
    OBVIOUS
  <2>1. CgiTypeOK
    BY DEF Init, CgiTypeOK
  <2>2. InFrame
    BY DEF Init, InFrame, Framed
  <2>3. IdsLead
    BY DEF Init, IdsLead, JobsLead, UnitsLead, SentRight
  <2> QED BY <2>1, <2>2, <2>3 DEF CgiInv
<1>2. TypeOK /\ CgiInv /\ [Next]_vars => CgiInv'
  BY CgiTypeStep, FrameStep, LeadStep DEF CgiInv
<1>3. CgiInv => AnswersRight
  <2> SUFFICES ASSUME CgiInv PROVE AnswersRight
    OBVIOUS
  <2>1. ASSUME ReqCGIId_ < ByteValues * ByteValues, NEW c \in Conns,
               NEW i \in DOMAIN answers[c]
        PROVE  requests[answers[c][i]] = c
    <3>1. i \in 1 .. Len(answers[c])
      BY DEF CgiInv, CgiTypeOK
    <3> QED BY <2>1, <3>1 DEF CgiInv, IdsLead, SentRight
  <2>2. ASSUME buf # <<>>, ~cut PROVE buf[1].part = "first"
    <3>1. CASE Framed(buf \o unread)
      <4>1. buf \in Seq(CgiUnit) /\ unread \in Seq(CgiUnit)
        BY DEF CgiInv, CgiTypeOK
      <4>2. 1 \in 1 .. Len(buf)
        BY <2>2, <4>1
      <4>3. (buf \o unread)[1] = buf[1] /\ buf \o unread # <<>>
        BY <4>1, <4>2, ConcatIs
      <4> QED BY <3>1, <4>3 DEF Framed
    <3> QED BY <2>2, <3>1 DEF CgiInv, InFrame
  <2> QED BY <2>1, <2>2 DEF AnswersRight
<1> QED BY <1>1, <1>2, <1>3, TypeCorrect, PTL DEF Spec

-----------------------------------------------------------------------------
(* HttpContext: requests, their pieces and their replies.                   *)

Word == {CRLF, Byte} \cup {RequestLine(k) : k \in Kinds}
          \cup {Header[k] : k \in DOMAIN Header}

Bytes == [i \in 1 .. BodyLen |-> Byte]

(* The tokens of the requests q. *)
Tokens(q) ==
  {t \in [of : 1 .. Len(q), at : Nat, word : Word] :
     t.at \in 1 .. Len(Text(q[t.of])) /\ t.word = Text(q[t.of])[t.at]}

(* b comes n places behind a. *)
Behind(a, b, n) == a.of <= b.of /\ (a.of = b.of => b.at = a.at + n)

(* b is the token behind a. *)
Follows(a, b, q) ==
  a.of # b.of => b.of = a.of + 1 /\ b.at = 1 /\ a.at = Len(Text(q[a.of]))

(* A part of the stream. *)
Linked(s, q) ==
  /\ s \in Seq(Tokens(q))
  /\ \A x, y \in 1 .. Len(s) : x <= y => Behind(s[x], s[y], y - x)
  /\ \A x \in 1 .. Len(s) : x < Len(s) => Follows(s[x], s[x + 1], q)

(* The place behind j. *)
IsNext(j, m) == m = j + 1

Stream == inputBuffer_ \o arrived

(* The next token of the client, with n tokens of the last request sent. *)
NextOf(q, n) == IF n = IF q = <<>> THEN 0 ELSE Len(Text(q[Len(q)])) THEN Len(q) + 1 ELSE Len(q)
NextAt(q, n) == IF n = IF q = <<>> THEN 0 ELSE Len(Text(q[Len(q)])) THEN 1 ELSE n + 1

(* s, with what comes behind it, begins at place j of request i. *)
StartsAt(s, q, n, i, j) ==
  IF s # <<>> THEN s[1].of = i /\ s[1].at = j
  ELSE NextOf(q, n) = i /\ NextAt(q, n) = j

WireInv ==
  /\ sent \in Seq(Kinds) /\ at \in Nat
  /\ IF sent = <<>> THEN at = 0 ELSE at \in 1 .. Len(Text(sent[Len(sent)]))
  /\ arrived \in Seq(Tokens(sent)) /\ inputBuffer_ \in Seq(Tokens(sent))
  /\ Linked(Stream, sent)
  /\ Stream # <<>> => Stream[Len(Stream)].of = Len(sent) /\ Stream[Len(Stream)].at = at
  /\ pc # "idle" => arrived = <<>>
  /\ pieces \in {"whole", "single", "crossing"}

Requests ==
  [method : Methods \cup {"kInvalid"}, path : DOMAIN Files \cup {""},
   version : {"kUnknown", "kHttp10", "kHttp11"},
   headers : UNION {[D -> {"name", "close", "Keep-Alive", "BodyLen"}] :
                      D \in SUBSET {"Host:", "Connection:", "Content-Length:"}},
   body : Seq(Word)]

CallInv ==
  /\ pc \in {"idle", "parse", "parsed", "failed"}
  /\ parseState_ \in {"kExpectRequestLine", "kExpectHeaders", "kExpectBody", "kGotAll"}
  /\ parseState_ = "kGotAll" => pc = "parsed"
  /\ pc = "failed" => parseState_ = "kExpectRequestLine"
  /\ request_ \in Requests
  /\ parseState_ # "kExpectRequestLine" => request_.path \in DOMAIN Files
  /\ body_lenth \in Nat
  /\ shutdown \in BOOLEAN
  /\ replies \in Seq([status : Nat, framed : BOOLEAN, got : Seq(Word)])
  /\ shutdown => replies # <<>>

(* No body was answered yet, and the connection is open. *)
Straight ==
  /\ ~shutdown
  /\ \A j \in DOMAIN sent : j <= Len(replies) => sent[j] # "body"

Cur == Len(replies) + 1
Kind == sent[Cur]

LineRead(kind) == SetRequestLine(NoRequest, <<RequestLine(kind)>>)
HeadersRead(kind) ==
  IF kind \in DOMAIN Header THEN AddHeader(LineRead(kind), <<Header[kind]>>)
  ELSE LineRead(kind)

Starts(i, j) == StartsAt(Stream, sent, at, i, j)

Place ==
  CASE parseState_ = "kExpectRequestLine" ->
         /\ Starts(Cur, 1)
         /\ IF pc = "failed" THEN Cur \in DOMAIN sent /\ Kind = "bad"
            ELSE request_ = NoRequest
    [] parseState_ = "kExpectHeaders" ->
         /\ Cur \in DOMAIN sent /\ Kind # "bad"
         /\ \/ request_ = LineRead(Kind) /\ Starts(Cur, 3)
            \/ /\ Kind \in DOMAIN Header
               /\ request_ = HeadersRead(Kind) /\ Starts(Cur, 5)
    [] parseState_ = "kExpectBody" ->
         /\ Cur \in DOMAIN sent /\ Kind = "body"
         /\ request_ = HeadersRead("body") /\ Starts(Cur, 6)
    [] parseState_ = "kGotAll" ->
         /\ Cur \in DOMAIN sent /\ Kind # "bad"
         /\ Kind # "body" => request_ = HeadersRead(Kind) /\ Starts(Cur + 1, 1)
         /\ Kind = "body" =>
              request_ = [HeadersRead("body") EXCEPT !.body = request_.body]

ParserInv == Straight => Len(replies) <= Len(sent) /\ Place

(* Reads that promise a prompt answer. *)
Prompt == pieces = "whole" \/ (pieces = "single" /\ (Cur \in DOMAIN sent => Kind # "body"))

(* What is read is of the request the parser is at. *)
PromptInv ==
  Straight /\ Prompt =>
    /\ pc = "idle" => Read = Len(replies)
    /\ pc # "idle" => Len(sent) = Cur
    /\ pc = "parsed" /\ parseState_ # "kGotAll" => ~AllSent

WholeInv ==
  /\ Straight /\ pieces = "whole" =>
       /\ pc = "idle" => parseState_ = "kExpectRequestLine" /\ inputBuffer_ = <<>>
       /\ pc # "idle" => AllSent
       /\ parseState_ = "kExpectBody" => body_lenth = BodyLen
       /\ parseState_ = "kGotAll" /\ Kind = "body" => request_.body = Bytes
  /\ pieces = "whole" =>
       \A i \in DOMAIN replies : i \in DOMAIN sent /\ Answerable(i) => GotReply(i)

IInv == WireInv /\ CallInv /\ ParserInv /\ PromptInv /\ WholeInv /\ RepliesFramed /\ CutsDoNotMatter

-----------------------------------------------------------------------------
(* The texts of requests.                                                   *)

(* The kinds, and which of them have a header.                              *)
LEMMA KindsAre ==
  /\ Kinds = {"plain", "close", "old", "kept", "body", "bad", "folder", "secret", "missing"}
  /\ DOMAIN Header = {"plain", "close", "kept", "body"}
  /\ DOMAIN Files = {"page", "folder", "secret", "missing"}
<1>1. DOMAIN Header = {"plain", "close", "kept", "body"}
  BY DEF Header
<1>2. DOMAIN Files = {"page", "folder", "secret", "missing"}
  BY DEF Files
<1> QED BY <1>1, <1>2 DEF Kinds

(* Request lines and headers are words, and none is CRLF.                   *)
LEMMA WordFacts ==
  /\ CRLF \in Word /\ Byte \in Word /\ CRLF # Byte
  /\ \A k \in Kinds : RequestLine(k) \in Word /\ RequestLine(k) # CRLF
  /\ \A k \in DOMAIN Header : Header[k] \in Word /\ Header[k] # CRLF
<1>1. CRLF \in Word /\ Byte \in Word /\ CRLF # Byte
  BY DEF Word, CRLF, Byte
<1>2. ASSUME NEW k \in Kinds PROVE RequestLine(k) \in Word /\ RequestLine(k) # CRLF
  <2>1. RequestLine(k) \in Word
    BY DEF Word
  <2>2. RequestLine(k)[1] \in {"GET", "POST"}
    BY DEF RequestLine
  <2>3. CRLF[1] = "CRLF"
    BY DEF CRLF
  <2> QED BY <2>1, <2>2, <2>3
<1>3. ASSUME NEW k \in DOMAIN Header PROVE Header[k] \in Word /\ Header[k] # CRLF
  <2>1. Header[k] \in Word
    BY DEF Word
  <2>2. Header[k][1] \in {"Host:", "Connection:", "Content-Length:"}
    BY KindsAre DEF Header
  <2>3. CRLF[1] = "CRLF"
    BY DEF CRLF
  <2> QED BY <2>1, <2>2, <2>3
<1> QED BY <1>1, <1>2, <1>3

(* What comes where in the text of a request.                               *)
LEMMA TextFacts ==
  ASSUME NEW k \in Kinds
  PROVE  /\ Text(k) \in Seq(Word)
         /\ Text(k)[1] = RequestLine(k) /\ Text(k)[2] = CRLF
         /\ k \notin DOMAIN Header => Len(Text(k)) = 3 /\ Text(k)[3] = CRLF
         /\ k \in DOMAIN Header =>
              /\ Text(k)[3] = Header[k] /\ Text(k)[4] = CRLF /\ Text(k)[5] = CRLF
              /\ Len(Text(k)) = IF k = "body" THEN 5 + BodyLen ELSE 5
         /\ k = "body" => \A i \in 6 .. 5 + BodyLen : Text(k)[i] = Byte
<1> DEFINE n == IF k = "body" THEN BodyLen ELSE 0
<1> DEFINE h == IF k \in DOMAIN Header THEN <<Header[k], CRLF, CRLF>> ELSE <<CRLF>>
<1> DEFINE b == [i \in 1 .. n |-> Byte]
<1> DEFINE l == <<RequestLine(k), CRLF>>
<1>1. n \in Nat /\ BodyLen \in Nat
  BY HttpContextAssumption
<1>2. b \in Seq(Word) /\ Len(b) = n /\ \A i \in 1 .. n : b[i] = Byte
  BY <1>1, WordFacts
<1>3. l \in Seq(Word) /\ Len(l) = 2 /\ l[1] = RequestLine(k) /\ l[2] = CRLF
  BY WordFacts
<1>4. /\ h \in Seq(Word)
      /\ k \in DOMAIN Header => Len(h) = 3 /\ h[1] = Header[k] /\ h[2] = CRLF /\ h[3] = CRLF
      /\ k \notin DOMAIN Header => Len(h) = 1 /\ h[1] = CRLF
  BY WordFacts
<1>5. Text(k) = l \o h \o b
  BY DEF Text
<1>6. k = "body" => k \in DOMAIN Header
  BY KindsAre
<1> HIDE DEF l, h, b, n
<1>8. Len(h) \in {1, 3}
  BY <1>4
<1>7. /\ l \o h \in Seq(Word) /\ Len(l \o h) = 2 + Len(h)
      /\ \A i \in 1 .. 2 + Len(h) : (l \o h)[i] = IF i <= 2 THEN l[i] ELSE h[i - 2]
  <2>1. /\ l \o h \in Seq(Word) /\ Len(l \o h) = Len(l) + Len(h)
        /\ \A i \in 1 .. Len(l) + Len(h) :
             (l \o h)[i] = IF i <= Len(l) THEN l[i] ELSE h[i - Len(l)]
    BY <1>3, <1>4, ConcatProperties
  <2> QED BY <1>3, <1>8, <2>1
<1>9. /\ Text(k) \in Seq(Word) /\ Len(Text(k)) = 2 + Len(h) + n
      /\ \A i \in 1 .. 2 + Len(h) + n :
           Text(k)[i] = IF i <= 2 + Len(h) THEN (l \o h)[i] ELSE b[i - (2 + Len(h))]
  <2> DEFINE u == l \o h
  <2>1. u \in Seq(Word) /\ Len(u) = 2 + Len(h)
    BY <1>7
  <2> HIDE DEF u
  <2>2. /\ u \o b \in Seq(Word) /\ Len(u \o b) = Len(u) + Len(b)
        /\ \A i \in 1 .. Len(u) + Len(b) :
             (u \o b)[i] = IF i <= Len(u) THEN u[i] ELSE b[i - Len(u)]
    BY <1>2, <2>1, ConcatProperties
  <2>3. Text(k) = u \o b
    BY <1>5 DEF u
  <2>4. /\ Text(k) \in Seq(Word) /\ Len(Text(k)) = 2 + Len(h) + n
        /\ \A i \in 1 .. 2 + Len(h) + n :
             Text(k)[i] = IF i <= 2 + Len(h) THEN u[i] ELSE b[i - (2 + Len(h))]
    BY <1>1, <1>2, <1>8, <2>1, <2>2, <2>3
  <2> QED BY <2>4 DEF u
<1>10. \A i \in 1 .. 2 + Len(h) : Text(k)[i] = IF i <= 2 THEN l[i] ELSE h[i - 2]
  BY <1>1, <1>7, <1>8, <1>9
<1>11. Text(k)[1] = RequestLine(k) /\ Text(k)[2] = CRLF
  BY <1>3, <1>8, <1>10
<1>12. k \notin DOMAIN Header => Len(Text(k)) = 3 /\ Text(k)[3] = CRLF
  <2> HAVE k \notin DOMAIN Header
  <2>1. Len(h) = 1 /\ h[1] = CRLF /\ n = 0
    BY <1>4, <1>6 DEF n
  <2> QED BY <1>9, <1>10, <2>1
<1>13. k \in DOMAIN Header =>
        /\ Text(k)[3] = Header[k] /\ Text(k)[4] = CRLF /\ Text(k)[5] = CRLF
        /\ Len(Text(k)) = IF k = "body" THEN 5 + BodyLen ELSE 5
  <2> HAVE k \in DOMAIN Header
  <2>1. Len(h) = 3 /\ h[1] = Header[k] /\ h[2] = CRLF /\ h[3] = CRLF
    BY <1>4
  <2>2. Len(Text(k)) = IF k = "body" THEN 5 + BodyLen ELSE 5
    BY <1>1, <1>9, <2>1 DEF n
  <2>3. Text(k)[3] = Header[k] /\ Text(k)[4] = CRLF /\ Text(k)[5] = CRLF
    BY <1>10, <2>1
  <2> QED BY <2>2, <2>3
<1>14. ASSUME k = "body", NEW i \in 6 .. 5 + BodyLen PROVE Text(k)[i] = Byte
  <2>1. Len(h) = 3 /\ n = BodyLen
    BY <1>4, <1>6, <1>14 DEF n
  <2>2. ~(i <= 2 + Len(h)) /\ i - (2 + Len(h)) \in 1 .. n /\ i \in 1 .. 2 + Len(h) + n
    BY <1>1, <2>1
  <2> QED BY <1>2, <1>9, <2>2
<1> QED BY <1>9, <1>11, <1>12, <1>13, <1>14

-----------------------------------------------------------------------------
(* The stream.                                                              *)

(* A token of the client's requests.                                        *)
LEMMA TokenFacts ==
  ASSUME NEW q, NEW t \in Tokens(q)
  PROVE  /\ t.of \in 1 .. Len(q) /\ t.at \in 1 .. Len(Text(q[t.of])) /\ t.word \in Word
         /\ t.word = Text(q[t.of])[t.at] /\ t.at \in Nat
         /\ t = [of |-> t.of, at |-> t.at, word |-> t.word]
BY DEF Tokens

(* Another request leaves the tokens of those before as they are.           *)
LEMMA TokensGrow ==
  ASSUME NEW q \in Seq(Kinds), NEW k \in Kinds, NEW t \in Tokens(q)
  PROVE  t \in Tokens(Append(q, k)) /\ Append(q, k)[t.of] = q[t.of]
<1>1. /\ Len(Append(q, k)) = Len(q) + 1
      /\ \A i \in 1 .. Len(q) : Append(q, k)[i] = q[i]
  BY AppendProperties
<1>2. Append(q, k)[t.of] = q[t.of]
  BY <1>1, TokenFacts
<1>3. t.of \in 1 .. Len(Append(q, k))
  BY <1>1, TokenFacts, LenProperties
<1> QED BY <1>2, <1>3, TokenFacts DEF Tokens

(* A part of the stream stays one when another request begins, ...          *)
LEMMA LinkedMore ==
  ASSUME NEW q \in Seq(Kinds), NEW k \in Kinds, NEW s, Linked(s, q)
  PROVE  Linked(s, Append(q, k))
<1>1. s \in Seq(Tokens(q)) /\ Len(s) \in Nat
  BY LenProperties DEF Linked
<1>2. \A x \in 1 .. Len(s) : s[x] \in Tokens(q)
  BY <1>1, ElementOfSeq
<1>3. Tokens(q) \subseteq Tokens(Append(q, k))
  BY TokensGrow
<1>4. s \in Seq(Tokens(Append(q, k)))
  BY <1>1, <1>3, SeqMonotonic
<1>5. \A x \in 1 .. Len(s) : Append(q, k)[s[x].of] = q[s[x].of]
  BY <1>2, TokensGrow
<1> QED BY <1>4, <1>5 DEF Linked, Follows

(* ... when the token behind its last one is added, ...                     *)
LEMMA LinkedAppend ==
  ASSUME NEW q, NEW s, Linked(s, q), NEW t \in Tokens(q),
         s # <<>> => Behind(s[Len(s)], t, 1) /\ Follows(s[Len(s)], t, q)
  PROVE  Linked(Append(s, t), q)
<1> DEFINE u == Append(s, t)
<1>1. s \in Seq(Tokens(q)) /\ Len(s) \in Nat
  BY LenProperties DEF Linked
<1>2. /\ u \in Seq(Tokens(q)) /\ Len(u) = Len(s) + 1 /\ u[Len(s) + 1] = t
      /\ \A x \in 1 .. Len(s) : u[x] = s[x]
  BY <1>1, AppendProperties
<1>3. \A x \in 1 .. Len(s) : s[x].of \in Int /\ s[x].at \in Int
  BY <1>1, ElementOfSeq DEF Tokens
<1>4. t.of \in Int /\ t.at \in Int
  BY DEF Tokens
<1> HIDE DEF u
<1>5. ASSUME NEW x \in 1 .. Len(u), NEW y \in 1 .. Len(u), x <= y
      PROVE  Behind(u[x], u[y], y - x)
  <2>1. CASE y \in 1 .. Len(s)
    <3>1. x \in 1 .. Len(s) /\ u[x] = s[x] /\ u[y] = s[y]
      BY <1>1, <1>2, <1>5, <2>1
    <3> QED BY <1>5, <2>1, <3>1 DEF Linked
  <2>2. CASE y = Len(s) + 1 /\ x \in 1 .. Len(s)
    <3> DEFINE z == s[Len(s)]
    <3>1. Len(s) \in 1 .. Len(s) /\ s # <<>>
      BY <1>1, <2>2
    <3>2. Behind(s[x], z, Len(s) - x) /\ Behind(z, t, 1) /\ u[x] = s[x] /\ u[y] = t
      BY <1>2, <2>2, <3>1 DEF Linked
    <3>3. z.of \in Int /\ z.at \in Int /\ s[x].of \in Int /\ s[x].at \in Int
      BY <1>3, <2>2, <3>1
    <3> DEFINE a == s[x]
    <3> HIDE DEF z, a
    <3>4. Behind(a, z, Len(s) - x) /\ Behind(z, t, 1) /\ a.of \in Int /\ a.at \in Int
      BY <3>2, <3>3 DEF a
    <3>5. a.of <= t.of
      BY <1>4, <3>3, <3>4 DEF Behind
    <3>6. a.of = t.of => a.of = z.of
      BY <1>4, <3>3, <3>4 DEF Behind
    <3>7. a.of = t.of => t.at = a.at + (y - x)
      <4> HAVE a.of = t.of
      <4>1. z.at = a.at + (Len(s) - x)
        BY <3>4, <3>6 DEF Behind
      <4>2. t.at = z.at + 1
        BY <3>4, <3>6 DEF Behind
      <4>3. \A l \in Nat : \A e \in Int : (e + (l - x)) + 1 = e + ((l + 1) - x)
        OBVIOUS
      <4> QED BY <1>1, <2>2, <3>4, <4>1, <4>2, <4>3
    <3> QED BY <3>2, <3>5, <3>7 DEF Behind, a
  <2>3. CASE y = Len(s) + 1 /\ x = Len(s) + 1
    BY <1>1, <1>2, <1>4, <2>3 DEF Behind
  <2> QED BY <1>1, <1>2, <1>5, <2>1, <2>2, <2>3
<1>6. ASSUME NEW x \in 1 .. Len(u), x < Len(u)
      PROVE  Follows(u[x], u[x + 1], q)
  <2>1. CASE x < Len(s)
    <3>1. x \in 1 .. Len(s) /\ x + 1 \in 1 .. Len(s)
      BY <1>1, <2>1
    <3> QED BY <1>2, <2>1, <3>1 DEF Linked
  <2>2. CASE x = Len(s)
    <3>1. x \in 1 .. Len(s) /\ s # <<>>
      BY <1>1, <2>2
    <3> QED BY <1>2, <2>2, <3>1
  <2> QED BY <1>1, <1>2, <1>6, <2>1, <2>2
<1> QED BY <1>2, <1>5, <1>6 DEF Linked, u

(* ... and when its first ones are taken off.                               *)
LEMMA LinkedDrop ==
  ASSUME NEW q, NEW s, Linked(s, q), NEW m \in 1 .. Len(s)
  PROVE  /\ Linked(RetrieveLine(s, m), q) /\ RetrieveLine(s, m) \in Seq(Tokens(q))
         /\ Len(RetrieveLine(s, m)) = Len(s) - m
         /\ \A x \in 1 .. Len(RetrieveLine(s, m)) : RetrieveLine(s, m)[x] = s[m + x]
         /\ RetrieveLine(s, m) = <<>> <=> m = Len(s)
<1> DEFINE d == RetrieveLine(s, m)
<1>1. s \in Seq(Tokens(q)) /\ Len(s) \in Nat
  BY LenProperties DEF Linked
<1>2. \A x \in m + 1 .. Len(s) : s[x] \in Tokens(q)
  BY <1>1, ElementOfSeq
<1>3. /\ d \in Seq(Tokens(q)) /\ Len(d) = IF m + 1 <= Len(s) THEN Len(s) - (m + 1) + 1 ELSE 0
      /\ \A x \in 1 .. Len(s) - (m + 1) + 1 : d[x] = s[m + 1 + x - 1]
  BY <1>1, <1>2, SubSeqProperties DEF RetrieveLine
<1>4. Len(d) = Len(s) - m /\ Len(s) - (m + 1) + 1 = Len(s) - m
  BY <1>1, <1>3
<1>5. \A x \in 1 .. Len(d) : d[x] = s[m + x]
  <2> SUFFICES ASSUME NEW x \in 1 .. Len(d) PROVE d[x] = s[m + x]
    OBVIOUS
  <2>1. m + 1 + x - 1 = m + x
    OBVIOUS
  <2> QED BY <1>3, <1>4, <2>1
<1> HIDE DEF d
<1> DEFINE n == Len(s)
<1>10. n \in Nat /\ m \in 1 .. n /\ Len(d) = n - m
  BY <1>1, <1>4
<1>6. d = <<>> <=> m = n
  <2>1. Len(d) = 0 <=> m = n
    <3> HIDE DEF n
    <3> QED BY <1>10
  <2>2. d = <<>> => Len(d) = 0
    OBVIOUS
  <2>3. d # <<>> => Len(d) # 0
    BY <1>3, EmptySeq
  <2> QED BY <2>1, <2>2, <2>3
<1>7. ASSUME NEW x \in 1 .. Len(d), NEW y \in 1 .. Len(d), x <= y
      PROVE  Behind(d[x], d[y], y - x)
  <2>1. m + x \in 1 .. n /\ m + y \in 1 .. n /\ m + x <= m + y
        /\ (m + y) - (m + x) = y - x
    <3> HIDE DEF n
    <3> QED BY <1>7, <1>10
  <2>2. Behind(s[m + x], s[m + y], (m + y) - (m + x))
    BY <2>1 DEF Linked
  <2> QED BY <1>5, <2>1, <2>2
<1>8. ASSUME NEW x \in 1 .. Len(d), x < Len(d)
      PROVE  Follows(d[x], d[x + 1], q)
  <2>1. m + x \in 1 .. n /\ m + x < n /\ x + 1 \in 1 .. Len(d)
        /\ m + (x + 1) = (m + x) + 1
    <3> HIDE DEF n
    <3> QED BY <1>8, <1>10
  <2>2. Follows(s[m + x], s[(m + x) + 1], q)
    BY <2>1 DEF Linked
  <2> QED BY <1>5, <2>1, <2>2
<1>9. Linked(d, q)
  BY <1>3, <1>7, <1>8 DEF Linked
<1> QED BY <1>3, <1>4, <1>5, <1>6, <1>9 DEF d

(* The second token of a part of the stream, inside a request.              *)
LEMMA Second ==
  ASSUME NEW q, NEW s, Linked(s, q), 2 <= Len(s), s[1].at # Len(Text(q[s[1].of]))
  PROVE  /\ s[2].of = s[1].of /\ s[2].at = s[1].at + 1
         /\ s[2].word = Text(q[s[1].of])[s[1].at + 1]
<1>1. s \in Seq(Tokens(q)) /\ Len(s) \in Nat
  BY LenProperties DEF Linked
<1>2. 1 \in 1 .. Len(s) /\ 2 \in 1 .. Len(s) /\ 1 < Len(s) /\ 1 + 1 = 2 /\ 2 - 1 = 1
  BY <1>1
<1>3. Follows(s[1], s[2], q) /\ Behind(s[1], s[2], 1)
  <2>1. Follows(s[1], s[1 + 1], q)
    BY <1>2 DEF Linked
  <2>2. Behind(s[1], s[2], 2 - 1)
    BY <1>2 DEF Linked
  <2> QED BY <1>2, <2>1, <2>2
<1>4. s[2] \in Tokens(q)
  BY <1>1, <1>2, ElementOfSeq
<1> QED BY <1>3, <1>4, TokenFacts DEF Follows, Behind

(* Where the stream starts when more arrives, ...                           *)
LEMMA StartsMore ==
  ASSUME NEW T, NEW s \in Seq(T), NEW t \in T, NEW q, NEW n, NEW q2, NEW n2,
         t.of = NextOf(q, n), t.at = NextAt(q, n), NEW i, NEW j, StartsAt(s, q, n, i, j)
  PROVE  StartsAt(Append(s, t), q2, n2, i, j)
<1>1. /\ Append(s, t) # <<>> /\ \A x \in 1 .. Len(s) : Append(s, t)[x] = s[x]
      /\ Append(s, t)[Len(s) + 1] = t /\ Len(s) \in Nat /\ (s # <<>> => Len(s) # 0)
  BY AppendProperties, EmptySeq
<1>2. CASE s = <<>>
  BY <1>1, <1>2 DEF StartsAt
<1>3. CASE s # <<>>
  BY <1>1, <1>3 DEF StartsAt
<1> QED BY <1>2, <1>3

(* The place a word of the stream had before that.                          *)
LEMMA DropPlace ==
  ASSUME NEW q, NEW s, Linked(s, q), NEW m \in 1 .. Len(s), NEW x \in 1 .. Len(RetrieveLine(s, m))
  PROVE  RetrieveLine(s, m)[x] = s[m + x]
BY LinkedDrop

(* ... and when its first tokens are taken off.                             *)
LEMMA StartsDrop ==
  ASSUME NEW q \in Seq(Kinds), NEW n, NEW s, Linked(s, q), NEW m \in 1 .. Len(s),
         s[Len(s)].of = Len(q), s[Len(s)].at = n
  PROVE  IF s[m].at = Len(Text(q[s[m].of]))
         THEN StartsAt(RetrieveLine(s, m), q, n, s[m].of + 1, 1)
         ELSE StartsAt(RetrieveLine(s, m), q, n, s[m].of, s[m].at + 1)
<1> DEFINE d == RetrieveLine(s, m)
<1> SUFFICES IF s[m].at = Len(Text(q[s[m].of]))
             THEN StartsAt(d, q, n, s[m].of + 1, 1)
             ELSE StartsAt(d, q, n, s[m].of, s[m].at + 1)
  OBVIOUS
<1>1. s \in Seq(Tokens(q)) /\ Len(s) \in Nat
  BY LenProperties DEF Linked
<1>2. /\ Len(d) = Len(s) - m /\ (d = <<>> <=> m = Len(s))
      /\ \A x \in 1 .. Len(d) : d[x] = s[m + x]
  BY LinkedDrop
<1> HIDE DEF d
<1>3. CASE m = Len(s)
  <2>1. d = <<>> /\ s[m].of = Len(q) /\ s[m].at = n
    BY <1>2, <1>3
  <2>2. s[m].of \in 1 .. Len(q) /\ q # <<>>
    BY <1>1, TokenFacts, ElementOfSeq
  <2> QED BY <2>1, <2>2 DEF StartsAt, NextOf, NextAt
<1>4. CASE m # Len(s)
  <2>1. m < Len(s) /\ 1 \in 1 .. Len(d) /\ m + 1 \in 1 .. Len(s) /\ (m + 1) - m = 1
    BY <1>1, <1>2, <1>4
  <2>2. d # <<>> /\ d[1] = s[m + 1]
    BY <1>2, <1>4, <2>1
  <2>3. Follows(s[m], s[m + 1], q) /\ Behind(s[m], s[m + 1], (m + 1) - m)
    BY <2>1 DEF Linked
  <2>4. s[m] \in Tokens(q) /\ s[m + 1] \in Tokens(q)
    BY <1>1, <2>1, ElementOfSeq
  <2>5. s[m + 1].of # s[m].of => s[m].at = Len(Text(q[s[m].of]))
                               /\ s[m + 1].of = s[m].of + 1 /\ s[m + 1].at = 1
    BY <2>3 DEF Follows
  <2>6. s[m + 1].of = s[m].of => s[m + 1].at = s[m].at + 1
    BY <2>1, <2>3 DEF Behind
  <2>7. s[m + 1].at \in 1 .. Len(Text(q[s[m + 1].of])) /\ s[m].at \in Nat
    BY <2>4, TokenFacts
  <2>8. Len(Text(q[s[m + 1].of])) \in Nat
    <3>1. s[m + 1].of \in 1 .. Len(q)
      BY <2>4, TokenFacts
    <3>2. q[s[m + 1].of] \in Kinds
      BY <3>1, ElementOfSeq
    <3> QED BY <3>2, TextFacts, LenProperties
  <2>9. CASE s[m].at = Len(Text(q[s[m].of]))
    <3>1. s[m + 1].of # s[m].of
      <4> SUFFICES ASSUME s[m + 1].of = s[m].of PROVE FALSE
        OBVIOUS
      <4>1. s[m + 1].at = s[m].at + 1 /\ s[m + 1].at \in 1 .. s[m].at
        BY <2>6, <2>7, <2>9
      <4> QED BY <2>7, <4>1
    <3>2. d[1].of = s[m].of + 1 /\ d[1].at = 1
      BY <2>2, <2>5, <3>1
    <3> QED BY <2>2, <2>9, <3>2 DEF StartsAt
  <2>10. CASE s[m].at # Len(Text(q[s[m].of]))
    <3>1. s[m + 1].of = s[m].of
      BY <2>5, <2>10
    <3>2. d[1].of = s[m].of /\ d[1].at = s[m].at + 1
      BY <2>2, <2>6, <3>1
    <3> QED BY <2>2, <2>10, <3>2 DEF StartsAt
  <2> QED BY <2>9, <2>10
<1> QED BY <1>3, <1>4

-----------------------------------------------------------------------------
(* Steps and the stream.                                                    *)

(* The client has sent something of its last request.                       *)
LEMMA SentFacts ==
  ASSUME WireInv
  PROVE  /\ Len(sent) \in Nat /\ at \in Nat /\ (sent = <<>> <=> Len(sent) = 0)
         /\ \A i \in 1 .. Len(sent) :
              /\ sent[i] \in Kinds /\ Text(sent[i]) \in Seq(Word)
              /\ Len(Text(sent[i])) \in Nat /\ Len(Text(sent[i])) >= 3
         /\ AllSent <=> at = IF sent = <<>> THEN 0 ELSE Len(Text(sent[Len(sent)]))
         /\ NextOf(sent, at) = IF AllSent THEN Len(sent) + 1 ELSE Len(sent)
         /\ NextAt(sent, at) = IF AllSent THEN 1 ELSE at + 1
         /\ ~AllSent => at < Len(Text(sent[Len(sent)])) /\ sent # <<>> /\ Len(sent) \in 1 .. Len(sent)
<1>1. sent \in Seq(Kinds) /\ at \in Nat
  BY DEF WireInv
<1>2. Len(sent) \in Nat /\ (sent = <<>> <=> Len(sent) = 0)
  BY <1>1, EmptySeq
<1>3. ASSUME NEW i \in 1 .. Len(sent)
      PROVE  /\ sent[i] \in Kinds /\ Text(sent[i]) \in Seq(Word)
             /\ Len(Text(sent[i])) \in Nat /\ Len(Text(sent[i])) >= 3
  <2>1. sent[i] \in Kinds
    BY <1>1, ElementOfSeq
  <2>2. Text(sent[i]) \in Seq(Word) /\ Len(Text(sent[i])) \in Nat
    BY <2>1, TextFacts, LenProperties
  <2>3. Len(Text(sent[i])) >= 3
    BY <2>1, TextFacts, HttpContextAssumption
  <2> QED BY <2>1, <2>2, <2>3
<1>4. /\ AllSent <=> at = IF sent = <<>> THEN 0 ELSE Len(Text(sent[Len(sent)]))
      /\ NextOf(sent, at) = IF AllSent THEN Len(sent) + 1 ELSE Len(sent)
      /\ NextAt(sent, at) = IF AllSent THEN 1 ELSE at + 1
  BY DEF AllSent, NextOf, NextAt
<1>5. ~AllSent => at < Len(Text(sent[Len(sent)])) /\ sent # <<>> /\ Len(sent) \in 1 .. Len(sent)
  <2> HAVE ~AllSent
  <2>1. sent # <<>> /\ Len(sent) \in 1 .. Len(sent)
    BY <1>2, <1>4 DEF WireInv
  <2>2. at \in 1 .. Len(Text(sent[Len(sent)])) /\ at # Len(Text(sent[Len(sent)]))
    BY <1>4, <2>1 DEF WireInv
  <2> QED BY <1>1, <1>3, <2>1, <2>2
<1> QED BY <1>1, <1>2, <1>3, <1>4, <1>5

(* What arrives is the token behind the newest.                             *)
LEMMA ArrivalFollows ==
  ASSUME WireInv, Arrive
  PROVE  LET t == Token(Len(sent), at)' IN
         /\ t \in Tokens(sent') /\ t.of = NextOf(sent, at) /\ t.at = NextAt(sent, at)
         /\ sent' \in Seq(Kinds) /\ at' \in Nat /\ sent' # <<>>
         /\ at' \in 1 .. Len(Text(sent'[Len(sent')]))
         /\ t.of = Len(sent') /\ t.at = at'
         /\ \A s : Linked(s, sent) => Linked(s, sent')
         /\ \A s : s \in Seq(Tokens(sent)) => s \in Seq(Tokens(sent'))
         /\ Stream # <<>> => /\ Behind(Stream[Len(Stream)], t, 1)
                             /\ Follows(Stream[Len(Stream)], t, sent')
<1> DEFINE t == Token(Len(sent), at)'
<1>1. t = [of |-> Len(sent'), at |-> at', word |-> Text(sent'[Len(sent')])[at']]
  BY DEF Token
<1>2. sent \in Seq(Kinds) /\ Len(sent) \in Nat /\ at \in Nat
  BY SentFacts DEF WireInv
<1>3. Stream # <<>> =>
        /\ Stream[Len(Stream)].of = Len(sent) /\ Stream[Len(Stream)].at = at
        /\ Stream[Len(Stream)] \in Tokens(sent) /\ Len(sent) \in 1 .. Len(sent)
  <2> HAVE Stream # <<>>
  <2>1. Stream \in Seq(Tokens(sent))
    BY DEF WireInv, Linked
  <2>2. Len(Stream) \in 1 .. Len(Stream)
    BY <2>1, EmptySeq, LenProperties
  <2>3. Stream[Len(Stream)] \in Tokens(sent)
    BY <2>1, <2>2, ElementOfSeq
  <2>4. Stream[Len(Stream)].of = Len(sent) /\ Stream[Len(Stream)].at = at
    BY DEF WireInv
  <2> QED BY <2>3, <2>4, TokenFacts
<1> HIDE DEF t
<1>4. CASE BeginRequest
  <2>1. PICK k \in Kinds : sent' = Append(sent, k)
    BY <1>4 DEF BeginRequest
  <2>2. /\ sent' \in Seq(Kinds) /\ Len(sent') = Len(sent) + 1 /\ sent' # <<>>
        /\ sent'[Len(sent')] = k /\ at' = 1 /\ AllSent
        /\ \A i \in 1 .. Len(sent) : sent'[i] = sent[i]
    <3>1. Append(sent, k)[Len(sent) + 1] = k
      BY <1>2, AppendProperties
    <3> QED BY <1>2, <1>4, <2>1, <3>1, AppendProperties DEF BeginRequest
  <2>3. 1 \in 1 .. Len(Text(k)) /\ Text(k)[1] \in Word
    <3>1. Len(Text(k)) \in Nat /\ Len(Text(k)) >= 3
      BY TextFacts, LenProperties, HttpContextAssumption
    <3> QED BY <3>1, TextFacts, ElementOfSeq
  <2>4. t = [of |-> Len(sent) + 1, at |-> 1, word |-> Text(k)[1]]
    BY <1>1, <2>2
  <2>5. t \in Tokens(sent')
    BY <1>2, <2>2, <2>3, <2>4 DEF Tokens
  <2>6. t.of = NextOf(sent, at) /\ t.at = NextAt(sent, at) /\ t.of = Len(sent') /\ t.at = at'
    BY <2>2, <2>4, SentFacts
  <2>7. /\ \A s : Linked(s, sent) => Linked(s, sent')
        /\ \A s : s \in Seq(Tokens(sent)) => s \in Seq(Tokens(sent'))
    <3>1. Tokens(sent) \subseteq Tokens(sent')
      BY <1>2, <2>1, TokensGrow
    <3> QED BY <1>2, <2>1, <3>1, LinkedMore, SeqMonotonic
  <2>8. Stream # <<>> => Behind(Stream[Len(Stream)], t, 1) /\ Follows(Stream[Len(Stream)], t, sent')
    <3> HAVE Stream # <<>>
    <3> DEFINE z == Stream[Len(Stream)]
    <3>1. z.of = Len(sent) /\ z.at = at /\ Len(sent) \in 1 .. Len(sent)
      BY <1>3
    <3> HIDE DEF z
    <3>2. at = Len(Text(sent[Len(sent)]))
      BY <2>2, <3>1, SentFacts
    <3>3. z.of < t.of /\ t.of = z.of + 1 /\ t.at = 1
      BY <1>2, <2>4, <3>1
    <3>4. Follows(z, t, sent')
      BY <2>2, <3>1, <3>2, <3>3 DEF Follows
    <3>5. Behind(z, t, 1)
      BY <1>2, <3>1, <3>3 DEF Behind
    <3> QED BY <3>4, <3>5 DEF z
  <2>9. at' \in 1 .. Len(Text(sent'[Len(sent')])) /\ at' \in Nat
    BY <2>2, <2>3
  <2> QED BY <2>2, <2>5, <2>6, <2>7, <2>8, <2>9 DEF t
<1>5. CASE GoOn
  <2>1. sent' = sent /\ at' = at + 1 /\ ~AllSent
    BY <1>5 DEF GoOn
  <2>2. at < Len(Text(sent[Len(sent)])) /\ sent # <<>> /\ Len(sent) \in 1 .. Len(sent)
        /\ Text(sent[Len(sent)]) \in Seq(Word) /\ Len(Text(sent[Len(sent)])) \in Nat
    BY <2>1, SentFacts
  <2>3. at' \in 1 .. Len(Text(sent[Len(sent)])) /\ at' \in Nat
    BY <1>2, <2>1, <2>2
  <2>4. Text(sent[Len(sent)])[at'] \in Word
    BY <2>2, <2>3, ElementOfSeq
  <2>5. t = [of |-> Len(sent), at |-> at + 1, word |-> Text(sent[Len(sent)])[at']]
    BY <1>1, <2>1
  <2>6. t \in Tokens(sent')
    BY <1>2, <2>1, <2>2, <2>3, <2>4, <2>5 DEF Tokens
  <2>7. t.of = NextOf(sent, at) /\ t.at = NextAt(sent, at) /\ t.of = Len(sent') /\ t.at = at'
    BY <2>1, <2>5, SentFacts
  <2>8. Stream # <<>> => Behind(Stream[Len(Stream)], t, 1) /\ Follows(Stream[Len(Stream)], t, sent')
    BY <1>2, <1>3, <2>5 DEF Behind, Follows
  <2> QED BY <1>2, <2>1, <2>2, <2>3, <2>6, <2>7, <2>8 DEF t
<1> QED BY <1>4, <1>5 DEF Arrive

(* Arrive: the stream is longer, and starts where it did.                   *)
LEMMA WireArrive ==
  ASSUME WireInv, Arrive
  PROVE  /\ WireInv' /\ Stream' = Append(Stream, Token(Len(sent), at)')
         /\ \A i, j : Starts(i, j) => Starts(i, j)'
         /\ \A i, j : StartsAt(arrived, sent, at, i, j) => StartsAt(arrived, sent, at, i, j)'
<1> DEFINE t == Token(Len(sent), at)'
<1>1. /\ t \in Tokens(sent') /\ t.of = NextOf(sent, at) /\ t.at = NextAt(sent, at)
      /\ sent' \in Seq(Kinds) /\ at' \in Nat /\ sent' # <<>>
      /\ at' \in 1 .. Len(Text(sent'[Len(sent')]))
      /\ t.of = Len(sent') /\ t.at = at'
      /\ \A s : Linked(s, sent) => Linked(s, sent')
      /\ \A s : s \in Seq(Tokens(sent)) => s \in Seq(Tokens(sent'))
      /\ Stream # <<>> => /\ Behind(Stream[Len(Stream)], t, 1)
                          /\ Follows(Stream[Len(Stream)], t, sent')
  BY ArrivalFollows
<1>2. arrived' = Append(arrived, t) /\ inputBuffer_' = inputBuffer_ /\ pc' = "idle"
      /\ pieces' = pieces
  BY DEF Arrive
<1> HIDE DEF t
<1>3. arrived \in Seq(Tokens(sent')) /\ inputBuffer_ \in Seq(Tokens(sent')) /\ Linked(Stream, sent')
  BY <1>1 DEF WireInv
<1>4. Stream' = Append(Stream, t)
  <2>1. /\ Append(arrived, t) = arrived \o <<t>> /\ <<t>> \in Seq(Tokens(sent'))
    BY <1>1, <1>3, AppendIsConcat
  <2>2. Stream \in Seq(Tokens(sent'))
    BY <1>3 DEF Linked
  <2>3. Append(Stream, t) = Stream \o <<t>>
    BY <1>1, <2>2, AppendIsConcat
  <2>4. (inputBuffer_ \o arrived) \o <<t>> = inputBuffer_ \o (arrived \o <<t>>)
    BY <1>3, <2>1, ConcatAssociative
  <2> QED BY <1>2, <2>1, <2>3, <2>4 DEF Stream
<1>5. Linked(Append(Stream, t), sent')
  BY <1>1, <1>3, LinkedAppend
<1>6. /\ Append(Stream, t) # <<>>
      /\ Append(Stream, t)[Len(Append(Stream, t))] = t
  <2>1. Stream \in Seq(Tokens(sent'))
    BY <1>3 DEF Linked
  <2> QED BY <1>1, <2>1, AppendProperties
<1>7. arrived' \in Seq(Tokens(sent')) /\ inputBuffer_' \in Seq(Tokens(sent'))
  BY <1>1, <1>2, <1>3, AppendProperties
<1>8. WireInv'
  BY <1>1, <1>2, <1>4, <1>5, <1>6, <1>7 DEF WireInv
<1>9. ASSUME NEW i, NEW j, Starts(i, j) PROVE Starts(i, j)'
  <2>1. Stream \in Seq(Tokens(sent'))
    BY <1>3 DEF Linked
  <2>2. StartsAt(Append(Stream, t), sent', at', i, j)
    BY <1>1, <1>9, <2>1, StartsMore DEF Starts
  <2> QED BY <1>4, <2>2 DEF Starts
<1>10. ASSUME NEW i, NEW j, StartsAt(arrived, sent, at, i, j)
       PROVE  StartsAt(arrived, sent, at, i, j)'
  <2>1. StartsAt(Append(arrived, t), sent', at', i, j)
    BY <1>1, <1>3, <1>10, StartsMore
  <2> QED BY <1>2, <2>1
<1> QED BY <1>4, <1>8, <1>9, <1>10 DEF t

(* read: the stream is the same.                                            *)
LEMMA WireRead ==
  ASSUME WireInv, HandleRead
  PROVE  /\ WireInv' /\ Stream' = Stream /\ inputBuffer_' = Stream
         /\ \A i, j : Starts(i, j) => Starts(i, j)'
<1>1. /\ inputBuffer_' = inputBuffer_ \o arrived /\ arrived' = <<>>
      /\ sent' = sent /\ at' = at /\ pieces' \in {"whole", "single", "crossing"}
  BY DEF HandleRead
<1>2. inputBuffer_' \in Seq(Tokens(sent)) /\ arrived' \in Seq(Tokens(sent))
  BY <1>1, ConcatProperties, EmptySeq DEF WireInv
<1>3. Stream' = Stream /\ inputBuffer_' = Stream
  BY <1>1, <1>2, ConcatEmptySeq DEF Stream
<1>4. WireInv'
  BY <1>1, <1>2, <1>3 DEF WireInv
<1> QED BY <1>1, <1>3, <1>4 DEF Starts

(* A step that leaves the stream and the buffer alone.                      *)
LEMMA WireSame ==
  ASSUME WireInv, UNCHANGED <<wireVars, inputBuffer_>>, pc # "idle" \/ pc' = pc
  PROVE  /\ WireInv' /\ Stream' = Stream /\ \A i, j : Starts(i, j) => Starts(i, j)'
<1>1. Stream' = Stream /\ sent' = sent /\ at' = at /\ arrived' = arrived /\ pieces' = pieces
      /\ inputBuffer_' = inputBuffer_
  BY DEF Stream, wireVars
<1> QED BY <1>1 DEF WireInv, Starts

(* While a message is handled, all there is of the stream is in the buffer. *)
LEMMA BufferIsStream ==
  ASSUME WireInv, pc # "idle"
  PROVE  Stream = inputBuffer_ /\ arrived = <<>>
BY ConcatEmptySeq DEF WireInv, Stream

(* retrieveUntil takes a line off the stream.                               *)
LEMMA WireTake ==
  ASSUME WireInv, pc = "parse", UNCHANGED wireVars,
         NEW crlf \in DOMAIN inputBuffer_,
         inputBuffer_' = RetrieveLine(inputBuffer_, crlf)
  PROVE  /\ WireInv' /\ Stream' = inputBuffer_'
         /\ inputBuffer_[crlf] \in Tokens(sent) /\ crlf \in 1 .. Len(inputBuffer_)
         /\ \A i, j, m : inputBuffer_[crlf].of = i /\ inputBuffer_[crlf].at = j /\ IsNext(j, m)
              => IF j = Len(Text(sent[i])) THEN Starts(i + 1, 1)' ELSE Starts(i, m)'
<1>1. Stream = inputBuffer_ /\ arrived = <<>> /\ Linked(inputBuffer_, sent) /\ sent \in Seq(Kinds)
  BY BufferIsStream DEF WireInv
<1>2. inputBuffer_ \in Seq(Tokens(sent)) /\ crlf \in 1 .. Len(inputBuffer_) /\ Len(inputBuffer_) \in Nat
  BY <1>1, LenProperties DEF WireInv
<1>3. inputBuffer_[crlf] \in Tokens(sent) /\ inputBuffer_ # <<>>
  BY <1>2, ElementOfSeq, EmptySeq
<1> DEFINE d == RetrieveLine(inputBuffer_, crlf)
<1>4. /\ Linked(d, sent) /\ d \in Seq(Tokens(sent)) /\ Len(d) = Len(inputBuffer_) - crlf
      /\ \A x \in 1 .. Len(d) : d[x] = inputBuffer_[crlf + x]
      /\ (d = <<>> <=> crlf = Len(inputBuffer_))
  <2>1. Linked(inputBuffer_, sent) /\ crlf \in 1 .. Len(inputBuffer_)
    BY <1>1, <1>2
  <2>2. Linked(d, sent) /\ d \in Seq(Tokens(sent))
    BY <2>1, LinkedDrop
  <2>3. Len(d) = Len(inputBuffer_) - crlf
    BY <2>1, LinkedDrop
  <2>4. \A x \in 1 .. Len(d) : d[x] = inputBuffer_[crlf + x]
    <3> TAKE x \in 1 .. Len(d)
    <3>1. x \in 1 .. Len(RetrieveLine(inputBuffer_, crlf))
      OBVIOUS
    <3> QED BY <2>1, <3>1, DropPlace
  <2>5. d = <<>> <=> crlf = Len(inputBuffer_)
    BY <2>1, LinkedDrop
  <2> QED BY <2>2, <2>3, <2>4, <2>5
<1>5. IF inputBuffer_[crlf].at = Len(Text(sent[inputBuffer_[crlf].of]))
      THEN StartsAt(d, sent, at, inputBuffer_[crlf].of + 1, 1)
      ELSE StartsAt(d, sent, at, inputBuffer_[crlf].of, inputBuffer_[crlf].at + 1)
  BY <1>1, <1>2, <1>3, StartsDrop DEF WireInv
<1>6. inputBuffer_' = d
  OBVIOUS
<1> HIDE DEF d
<1>7. d # <<>> => d[Len(d)] = inputBuffer_[Len(inputBuffer_)]
  <2> HAVE d # <<>>
  <2>1. Len(d) \in 1 .. Len(d) /\ crlf + Len(d) = Len(inputBuffer_)
    <3>1. crlf # Len(inputBuffer_)
      BY <1>4
    <3>2. \A l \in Nat : \A c \in 1 .. l : \A e : c # l /\ e = l - c => e \in 1 .. e /\ c + e = l
      OBVIOUS
    <3> QED BY <1>2, <1>4, <3>1, <3>2
  <2> QED BY <1>4, <2>1
<1>8. sent' = sent /\ at' = at /\ arrived' = <<>> /\ pieces' = pieces
  BY <1>1 DEF wireVars
<1>9. Stream' = d
  BY <1>4, <1>6, <1>8, ConcatEmptySeq DEF Stream
<1>10. WireInv'
  <2>1. d # <<>> => d[Len(d)].of = Len(sent) /\ d[Len(d)].at = at
    BY <1>1, <1>3, <1>7 DEF WireInv
  <2>2. arrived' \in Seq(Tokens(sent))
    BY <1>8
  <2>3. /\ sent \in Seq(Kinds) /\ at \in Nat
        /\ IF sent = <<>> THEN at = 0 ELSE at \in 1 .. Len(Text(sent[Len(sent)]))
        /\ pieces \in {"whole", "single", "crossing"}
    BY DEF WireInv
  <2> QED BY <1>4, <1>6, <1>8, <1>9, <2>1, <2>2, <2>3 DEF WireInv
<1>11. ASSUME NEW i, NEW j, NEW m, inputBuffer_[crlf].of = i, inputBuffer_[crlf].at = j, IsNext(j, m)
       PROVE  IF j = Len(Text(sent[i])) THEN Starts(i + 1, 1)' ELSE Starts(i, m)'
  BY <1>5, <1>8, <1>9, <1>11 DEF Starts, IsNext
<1> QED BY <1>2, <1>3, <1>6, <1>9, <1>10, <1>11

-----------------------------------------------------------------------------
(* Types of what the parser and the server keep.                            *)

Fields == {"Host:", "Connection:", "Content-Length:"}
Values == {"name", "close", "Keep-Alive", "BodyLen"}

(* Which words are request lines and which are headers.                     *)
LEMMA WordShapes ==
  ASSUME NEW w \in Word
  PROVE  /\ Len(w) = 3 => w[1] \in Methods /\ w[2] \in DOMAIN Files
         /\ w[1] \in Fields => w[1] \in Fields /\ w[2] \in Values
<1>1. CASE w \in {CRLF, Byte}
  <2>1. Len(w) = 1 /\ w[1] \in {"CRLF", "byte"}
    BY <1>1 DEF CRLF, Byte
  <2> QED BY <2>1 DEF Fields
<1>2. ASSUME NEW k \in Kinds, w = RequestLine(k)
      PROVE  /\ Len(w) = 3 => w[1] \in Methods /\ w[2] \in DOMAIN Files
             /\ w[1] \in Fields => w[1] \in Fields /\ w[2] \in Values
  <2>1. w[1] \in {"GET", "POST"} /\ w[2] \in {"page", "folder", "secret", "missing"}
    BY <1>2, KindsAre DEF RequestLine
  <2> QED BY <2>1, KindsAre DEF Methods, Fields
<1>3. ASSUME NEW k \in DOMAIN Header, w = Header[k]
      PROVE  /\ Len(w) = 3 => w[1] \in Methods /\ w[2] \in DOMAIN Files
             /\ w[1] \in Fields => w[1] \in Fields /\ w[2] \in Values
  <2>1. Len(w) = 2 /\ w[2] \in Values
    BY <1>3, KindsAre DEF Header, Values
  <2> QED BY <2>1
<1> QED BY <1>1, <1>2, <1>3 DEF Word

(* The line before a CRLF consists of words.                                *)
LEMMA LineTypes ==
  ASSUME NEW q, NEW s \in Seq(Tokens(q)), NEW n \in 0 .. Len(s)
  PROVE  Words(s, n) \in Seq(Word) /\ Len(Words(s, n)) = n
<1>1. n \in Nat /\ \A i \in 1 .. n : s[i] \in Tokens(q)
  BY LenProperties, ElementOfSeq
<1>2. \A i \in 1 .. n : s[i].word \in Word
  BY <1>1, TokenFacts
<1> QED BY <1>1, <1>2 DEF Words

(* Requests, as the parts that change.                                      *)
LEMMA SetRequestLineType ==
  ASSUME NEW r \in Requests, NEW line \in Seq(Word)
  PROVE  /\ SetRequestLine(r, line) \in Requests
         /\ ProcessRequestLine(line) => SetRequestLine(r, line).path \in DOMAIN Files
<1>1. CASE Len(line) = 1 /\ Len(line[1]) = 3 /\ line[1][1] \in Methods
  <2> DEFINE w == line[1]
  <2>1. w \in Word /\ Len(w) = 3
    BY <1>1, ElementOfSeq
  <2>2. w[1] \in Methods /\ w[2] \in DOMAIN Files
    BY <2>1, WordShapes
  <2> DEFINE v == CASE w[3] = "HTTP/1.0" -> "kHttp10"
                    [] w[3] = "HTTP/1.1" -> "kHttp11"
                    [] OTHER -> r.version
  <2>3. v \in {"kUnknown", "kHttp10", "kHttp11"}
    BY DEF Requests
  <2>4. SetRequestLine(r, line) = [r EXCEPT !.method = w[1], !.path = w[2], !.version = v]
    BY <1>1 DEF SetRequestLine, Requests
  <2> HIDE DEF w, v
  <2> QED BY <2>2, <2>3, <2>4 DEF Requests
<1>2. CASE ~(Len(line) = 1 /\ Len(line[1]) = 3 /\ line[1][1] \in Methods)
  <2>1. SetRequestLine(r, line) = [r EXCEPT !.method = "kInvalid"]
    BY <1>2 DEF SetRequestLine
  <2> QED BY <1>2, <2>1 DEF Requests, ProcessRequestLine
<1> QED BY <1>1, <1>2

(* A header more.                                                           *)
LEMMA AddHeaderType ==
  ASSUME NEW r \in Requests, NEW line \in Seq(Word), IsHeader(line)
  PROVE  AddHeader(r, line) \in Requests /\ AddHeader(r, line).path = r.path
<1> DEFINE w == line[1]
<1> DEFINE h == r.headers
<1> DEFINE g == [field \in DOMAIN h \cup {w[1]} |-> IF field = w[1] THEN w[2] ELSE h[field]]
<1> DEFINE Maps == UNION {[D -> Values] : D \in SUBSET Fields}
<1>1. w \in Word /\ w[1] \in Fields
  <2>1. line # <<>> /\ line[1][1] \in Fields
    BY DEF IsHeader, Fields
  <2>2. 1 \in 1 .. Len(line)
    BY <2>1, EmptySeq, LenProperties
  <2> QED BY <2>1, <2>2, ElementOfSeq
<1>2. w[2] \in Values
  BY <1>1, WordShapes
<1>3. r.headers \in Maps
  BY DEF Requests, Fields, Values
<1>4. PICK D \in SUBSET Fields : h \in [D -> Values]
  BY <1>3
<1> HIDE DEF w, h
<1>5. g \in [D \cup {w[1]} -> Values] /\ D \cup {w[1]} \in SUBSET Fields
  BY <1>1, <1>2, <1>4
<1>6. g \in Maps
  BY <1>5
<1>7. AddHeader(r, line) = [r EXCEPT !.headers = g]
  BY DEF AddHeader, w, h
<1> HIDE DEF g
<1> QED BY <1>6, <1>7 DEF Requests, Fields, Values

(* A response says whether it closes the connection.                        *)
LEMMA ResponseType ==
  ASSUME NEW r \in Requests, r.path \in DOMAIN Files, NEW forbidden \in BOOLEAN
  PROVE  Response(r, forbidden) \in [status : Nat, close : BOOLEAN]
<1>1. AsksToClose(r) \in BOOLEAN
  BY DEF AsksToClose
<1> DEFINE c == AsksToClose(r)
<1>2. Response(r, forbidden) = ServerStatic([status |-> 0, close |-> c], Files[r.path], forbidden)
  BY DEF Response, Callback, NewResponse
<1> DEFINE status == FileStatus(Files[r.path], forbidden)
<1>3. status \in {"ReadError", "Forbidden", "NotFound", "OK"}
  BY KindsAre DEF Files, FileStatus
<1> HIDE DEF c
<1>4. CASE status = "OK"
  <2>1. Response(r, forbidden) = [status |-> 200, close |-> c]
    BY <1>2, <1>4 DEF ServerStatic
  <2> QED BY <1>1, <2>1 DEF c
<1>5. CASE status = "Forbidden"
  <2>1. Response(r, forbidden) = [status |-> 403, close |-> TRUE]
    BY <1>2, <1>5 DEF ServerStatic
  <2> QED BY <2>1
<1>6. CASE status \in {"NotFound", "ReadError"}
  <2>1. Response(r, forbidden) = [status |-> 404, close |-> TRUE]
    BY <1>2, <1>6 DEF ServerStatic
  <2> QED BY <2>1
<1> QED BY <1>3, <1>4, <1>5, <1>6

(* The reply of onRequest, and what it does.                                *)
LEMMA OnRequestFacts ==
  ASSUME NEW r \in Requests, r.path \in DOMAIN Files, OnRequest(r)
  PROVE  \E forbidden \in BOOLEAN :
           LET response == Response(r, forbidden)
               reply == [status |-> response.status, framed |-> ~response.close,
                         got |-> r.body]
           IN /\ response.close \in BOOLEAN
              /\ reply \in [status : Nat, framed : BOOLEAN, got : Seq(Word)]
              /\ replies' = IF shutdown THEN replies ELSE Append(replies, reply)
              /\ shutdown' = (shutdown \/ response.close)
<1>1. PICK forbidden \in BOOLEAN :
        /\ Send(AppendToBuffer(Response(r, forbidden), r))
        /\ shutdown' = (shutdown \/ Response(r, forbidden).close)
  BY DEF OnRequest
<1> DEFINE response == Response(r, forbidden)
<1>2. response \in [status : Nat, close : BOOLEAN]
  BY ResponseType
<1>3. r.body \in Seq(Word)
  BY DEF Requests
<1>4. Send(AppendToBuffer(response, r)) /\ shutdown' = (shutdown \/ response.close)
  BY <1>1
<1> HIDE DEF response
<1> DEFINE reply == [status |-> response.status, framed |-> ~response.close, got |-> r.body]
<1>5. reply \in [status : Nat, framed : BOOLEAN, got : Seq(Word)]
  BY <1>2, <1>3
<1>6. replies' = IF shutdown THEN replies ELSE Append(replies, reply)
  BY <1>4 DEF Send, AppendToBuffer
<1>7. response.close \in BOOLEAN
  BY <1>2
<1> QED BY <1>4, <1>5, <1>6, <1>7 DEF response

(* 400 and what comes with it.                                              *)
LEMMA BadRequestType == BadRequest \in [status : Nat, framed : BOOLEAN, got : Seq(Word)]
BY EmptySeq DEF BadRequest

ReplyType == [status : Nat, framed : BOOLEAN, got : Seq(Word)]

(* The request of a context that was reset.                                 *)
LEMMA NoRequestType == NoRequest \in Requests
<1>1. NoRequest.headers \in [{} -> Values]
  BY DEF NoRequest
<1>2. NoRequest.headers \in UNION {[D -> Values] : D \in SUBSET Fields}
  BY <1>1
<1>3. NoRequest.body \in Seq(Word)
  BY EmptySeq DEF NoRequest
<1> QED BY <1>2, <1>3 DEF NoRequest, Requests, Fields, Values

(* Every step keeps the types.                                              *)
LEMMA CallStep ==
  ASSUME WireInv, CallInv, ParserNext
  PROVE  CallInv'
<1>1. CASE Arrive
  BY <1>1 DEF Arrive, CallInv
<1>2. CASE HandleRead
  <2>1. body_lenth' \in Nat
    BY <1>2, HttpContextAssumption DEF HandleRead
  <2> QED BY <1>2, <2>1 DEF HandleRead, CallInv
<1>3. CASE ParseRequestLine
  <2>1. UNCHANGED <<replies, shutdown>> /\ pc = "parse" /\ parseState_ = "kExpectRequestLine"
    BY <1>3 DEF ParseRequestLine, Turn
  <2>2. CASE NeedMore
    BY <2>1, <2>2 DEF NeedMore, CallInv
  <2>3. ASSUME NEW crlf \in DOMAIN inputBuffer_, TakeRequestLine(crlf)
        PROVE  CallInv'
    <3> DEFINE line == FirstLine(inputBuffer_, crlf)
    <3>1. crlf \in 1 .. Len(inputBuffer_)
      BY <2>3, LenProperties DEF WireInv
    <3>2. line \in Seq(Word)
      <4>1. crlf - 1 \in 0 .. Len(inputBuffer_)
        BY <3>1
      <4> QED BY <4>1, LineTypes DEF FirstLine, WireInv
    <3>3. /\ SetRequestLine(request_, line) \in Requests
          /\ ProcessRequestLine(line) => SetRequestLine(request_, line).path \in DOMAIN Files
      BY <3>2, SetRequestLineType DEF CallInv
    <3>4. /\ request_' = SetRequestLine(request_, line)
          /\ \/ ProcessRequestLine(line) /\ parseState_' = "kExpectHeaders" /\ pc' = pc
             \/ pc' = "failed" /\ parseState_' = parseState_
          /\ body_lenth' = body_lenth
      BY <2>3 DEF TakeRequestLine
    <3> HIDE DEF line
    <3> QED BY <2>1, <3>3, <3>4 DEF CallInv
  <2> QED BY <1>3, <2>2, <2>3 DEF ParseRequestLine
<1>4. CASE ParseHeader
  <2>1. UNCHANGED <<replies, shutdown>> /\ pc = "parse" /\ parseState_ = "kExpectHeaders"
    BY <1>4 DEF ParseHeader, Turn
  <2>2. CASE NeedMore
    BY <2>1, <2>2 DEF NeedMore, CallInv
  <2>3. ASSUME NEW crlf \in DOMAIN inputBuffer_, TakeHeader(crlf)
        PROVE  CallInv'
    <3> DEFINE line == FirstLine(inputBuffer_, crlf)
    <3>1. crlf \in 1 .. Len(inputBuffer_)
      BY <2>3, LenProperties DEF WireInv
    <3>2. line \in Seq(Word)
      <4>1. crlf - 1 \in 0 .. Len(inputBuffer_)
        BY <3>1
      <4> QED BY <4>1, LineTypes DEF FirstLine, WireInv
    <3>3. CASE IsHeader(line)
      <4>1. AddHeader(request_, line) \in Requests /\ AddHeader(request_, line).path = request_.path
        BY <3>2, <3>3, AddHeaderType DEF CallInv
      <4>2. request_' = AddHeader(request_, line) /\ UNCHANGED <<parseState_, pc, body_lenth>>
        BY <2>3, <3>3 DEF TakeHeader
      <4> QED BY <2>1, <4>1, <4>2 DEF CallInv
    <3>4. CASE ~IsHeader(line)
      <4>1. EndOfHeaders
        BY <2>3, <3>4 DEF TakeHeader
      <4> QED BY <2>1, <4>1, HttpContextAssumption DEF EndOfHeaders, CallInv
    <3> QED BY <3>3, <3>4
  <2> QED BY <1>4, <2>2, <2>3 DEF ParseHeader
<1>5. CASE ParseBody
  <2>1. UNCHANGED <<replies, shutdown>> /\ pc = "parse" /\ parseState_ = "kExpectBody"
    BY <1>5 DEF ParseBody, Turn
  <2>2. CASE NeedMore
    BY <2>1, <2>2 DEF NeedMore, CallInv
  <2>3. CASE /\ Len(inputBuffer_) >= body_lenth
             /\ request_' = [request_ EXCEPT !.body = Words(inputBuffer_, body_lenth)]
             /\ parseState_' = "kGotAll" /\ pc' = "parsed"
             /\ UNCHANGED <<inputBuffer_, body_lenth>>
    <3>1. body_lenth \in 0 .. Len(inputBuffer_)
      BY <2>3, LenProperties DEF CallInv, WireInv
    <3>2. Words(inputBuffer_, body_lenth) \in Seq(Word)
      BY <3>1, LineTypes DEF WireInv
    <3>3. request_' \in Requests /\ request_'.path = request_.path
      BY <2>3, <3>2 DEF CallInv, Requests
    <3> QED BY <2>1, <2>3, <3>3 DEF CallInv
  <2> QED BY <1>5, <2>2, <2>3 DEF ParseBody
<1>6. CASE OnMessage
  <2>1. pc' = "idle" /\ body_lenth' \in Nat
    BY <1>6 DEF OnMessage
  <2>2. replies \in Seq(ReplyType)
    BY DEF CallInv, ReplyType
  <2>3. CASE /\ pc = "failed" /\ Send(BadRequest) /\ shutdown' = TRUE
             /\ UNCHANGED <<parseState_, request_>>
    <3>1. replies' = IF shutdown THEN replies ELSE Append(replies, BadRequest)
      BY <2>3 DEF Send
    <3>2. replies' \in Seq(ReplyType) /\ replies' # <<>>
      <4>1. BadRequest \in ReplyType
        BY BadRequestType DEF ReplyType
      <4>2. CASE shutdown
        BY <2>2, <3>1, <4>2 DEF CallInv
      <4>3. CASE ~shutdown
        BY <2>2, <3>1, <4>1, <4>3, AppendProperties
      <4> QED BY <4>2, <4>3
    <3> QED BY <2>1, <2>3, <3>2 DEF CallInv, ReplyType
  <2>4. CASE pc = "parsed" /\ parseState_ = "kGotAll" /\ OnRequest(request_) /\ Reset
    <3>1. PICK forbidden \in BOOLEAN :
           LET response == Response(request_, forbidden)
               reply == [status |-> response.status, framed |-> ~response.close,
                         got |-> request_.body]
           IN /\ response.close \in BOOLEAN
              /\ reply \in ReplyType
              /\ replies' = IF shutdown THEN replies ELSE Append(replies, reply)
              /\ shutdown' = (shutdown \/ response.close)
      BY <2>4, OnRequestFacts DEF CallInv, ReplyType
    <3>2. replies' \in Seq(ReplyType) /\ shutdown' \in BOOLEAN /\ (shutdown' => replies' # <<>>)
      BY <2>2, <3>1, AppendProperties DEF CallInv
    <3>3. NoRequest \in Requests
      BY NoRequestType
    <3>4. parseState_' = "kExpectRequestLine" /\ request_' = NoRequest
      BY <2>4 DEF Reset
    <3> QED BY <2>1, <3>2, <3>3, <3>4 DEF CallInv, ReplyType
  <2>5. CASE /\ pc = "parsed" /\ parseState_ # "kGotAll"
             /\ UNCHANGED <<parseState_, request_, replies, shutdown>>
    BY <2>1, <2>5 DEF CallInv
  <2> QED BY <1>6, <2>3, <2>4, <2>5 DEF OnMessage
<1> QED BY <1>1, <1>2, <1>3, <1>4, <1>5, <1>6 DEF ParserNext

-----------------------------------------------------------------------------
(* The stream, at every step.                                               *)

(* A part of the stream stays one, whatever the step.                       *)
LEMMA WireStep ==
  ASSUME WireInv, ParserNext
  PROVE  WireInv'
<1>1. CASE Arrive
  BY <1>1, WireArrive
<1>2. CASE HandleRead
  BY <1>2, WireRead
<1>3. CASE ParseRequestLine
  <2>1. UNCHANGED wireVars /\ pc = "parse"
    BY <1>3 DEF ParseRequestLine, Turn
  <2>2. CASE UNCHANGED inputBuffer_
    BY <2>1, <2>2, WireSame
  <2>3. ASSUME NEW crlf \in DOMAIN inputBuffer_, inputBuffer_' = RetrieveLine(inputBuffer_, crlf)
        PROVE  WireInv'
    BY <2>1, <2>3, WireTake
  <2> QED BY <1>3, <2>2, <2>3 DEF ParseRequestLine, NeedMore, TakeRequestLine
<1>4. CASE ParseHeader
  <2>1. UNCHANGED wireVars /\ pc = "parse"
    BY <1>4 DEF ParseHeader, Turn
  <2>2. CASE UNCHANGED inputBuffer_
    BY <2>1, <2>2, WireSame
  <2>3. ASSUME NEW crlf \in DOMAIN inputBuffer_, inputBuffer_' = RetrieveLine(inputBuffer_, crlf)
        PROVE  WireInv'
    BY <2>1, <2>3, WireTake
  <2> QED BY <1>4, <2>2, <2>3 DEF ParseHeader, NeedMore, TakeHeader
<1>5. CASE ParseBody
  <2>1. UNCHANGED <<wireVars, inputBuffer_>> /\ pc = "parse"
    BY <1>5 DEF ParseBody, Turn, NeedMore
  <2> QED BY <2>1, WireSame
<1>6. CASE OnMessage
  <2>1. UNCHANGED <<wireVars, inputBuffer_>> /\ pc # "idle"
    BY <1>6 DEF OnMessage
  <2> QED BY <2>1, WireSame
<1> QED BY <1>1, <1>2, <1>3, <1>4, <1>5, <1>6 DEF ParserNext

(* The first line of the stream, where it starts at a line of request i.    *)
LEMMA LineOf ==
  ASSUME WireInv, pc = "parse", NEW i, NEW j, Starts(i, j),
         NEW crlf \in DOMAIN inputBuffer_, FindCRLF(inputBuffer_, crlf)
  PROVE  /\ i \in 1 .. Len(sent) /\ j \in 1 .. Len(Text(sent[i]))
         /\ Text(sent[i])[j] = CRLF =>
              /\ inputBuffer_[crlf].of = i /\ inputBuffer_[crlf].at = j
              /\ FirstLine(inputBuffer_, crlf) = <<>>
         /\ \A m :
              Text(sent[i])[j] # CRLF /\ j # Len(Text(sent[i])) /\ IsNext(j, m)
                /\ Text(sent[i])[m] = CRLF =>
              /\ inputBuffer_[crlf].of = i /\ inputBuffer_[crlf].at = m
              /\ FirstLine(inputBuffer_, crlf) = <<Text(sent[i])[j]>>
<1>1. Stream = inputBuffer_ /\ Linked(inputBuffer_, sent)
  BY BufferIsStream DEF WireInv
<1>2. /\ inputBuffer_ \in Seq(Tokens(sent)) /\ Len(inputBuffer_) \in Nat
      /\ crlf \in 1 .. Len(inputBuffer_)
  BY LenProperties DEF WireInv
<1>3. inputBuffer_ # <<>> /\ 1 \in 1 .. Len(inputBuffer_)
  BY <1>2, EmptySeq
<1>4. inputBuffer_[1].of = i /\ inputBuffer_[1].at = j
  BY <1>1, <1>3 DEF Starts, StartsAt
<1>5. inputBuffer_[1] \in Tokens(sent)
  BY <1>2, <1>3, ElementOfSeq
<1>6. /\ i \in 1 .. Len(sent) /\ j \in 1 .. Len(Text(sent[i]))
      /\ inputBuffer_[1].word = Text(sent[i])[j]
  BY <1>4, <1>5, TokenFacts
<1>7. /\ inputBuffer_[crlf].word = CRLF
      /\ \A x \in 1 .. crlf - 1 : inputBuffer_[x].word # CRLF
  BY DEF FindCRLF
<1>8. ASSUME Text(sent[i])[j] = CRLF
      PROVE  /\ inputBuffer_[crlf].of = i /\ inputBuffer_[crlf].at = j
             /\ FirstLine(inputBuffer_, crlf) = <<>>
  <2>1. crlf = 1
    <3>1. 1 \notin 1 .. crlf - 1
      BY <1>6, <1>7, <1>8
    <3> QED BY <1>2, <3>1
  <2> QED BY <1>4, <2>1 DEF FirstLine, Words
<1>9. ASSUME NEW m, Text(sent[i])[j] # CRLF, j # Len(Text(sent[i])),
             IsNext(j, m), Text(sent[i])[m] = CRLF
      PROVE  /\ inputBuffer_[crlf].of = i /\ inputBuffer_[crlf].at = m
             /\ FirstLine(inputBuffer_, crlf) = <<Text(sent[i])[j]>>
  <2>1. crlf # 1
    BY <1>6, <1>7, <1>9
  <2>2. 2 <= Len(inputBuffer_) /\ 2 <= crlf
    BY <1>2, <2>1
  <2>3. /\ inputBuffer_[2].of = i /\ inputBuffer_[2].at = m
        /\ inputBuffer_[2].word = CRLF
    BY <1>1, <1>4, <1>9, <2>2, Second DEF IsNext
  <2>4. crlf = 2
    <3>1. 2 \notin 1 .. crlf - 1
      BY <1>7, <2>3
    <3> QED BY <1>2, <2>2, <3>1
  <2>5. FirstLine(inputBuffer_, crlf) = <<Text(sent[i])[j]>>
    <3>1. FirstLine(inputBuffer_, crlf) = [x \in 1 .. 1 |-> inputBuffer_[x].word]
      BY <2>4 DEF FirstLine, Words
    <3>2. [x \in 1 .. 1 |-> inputBuffer_[x].word] = <<inputBuffer_[1].word>>
      OBVIOUS
    <3> QED BY <1>6, <3>1, <3>2
  <2> QED BY <2>3, <2>4, <2>5
<1> QED BY <1>6, <1>8, <1>9

(* Exactly the last reply of a connection shut down has no end of its own.  *)
LEMMA FramedStep ==
  ASSUME CallInv, RepliesFramed, ParserNext
  PROVE  RepliesFramed'
<1>1. CASE UNCHANGED <<replies, shutdown>>
  BY <1>1 DEF RepliesFramed
<1>2. CASE OnMessage
  <2>1. replies \in Seq(ReplyType) /\ Len(replies) \in Nat
    BY LenProperties DEF CallInv, ReplyType
  <2>2. ASSUME NEW reply \in ReplyType, NEW close \in BOOLEAN, reply.framed = ~close,
               replies' = IF shutdown THEN replies ELSE Append(replies, reply),
               shutdown' = (shutdown \/ close)
        PROVE  RepliesFramed'
    <3>1. CASE shutdown
      BY <2>2, <3>1 DEF RepliesFramed
    <3>2. CASE ~shutdown
      <4>1. /\ Len(replies') = Len(replies) + 1 /\ replies'[Len(replies) + 1] = reply
            /\ \A i \in 1 .. Len(replies) : replies'[i] = replies[i]
            /\ replies' \in Seq(ReplyType)
        BY <2>1, <2>2, <3>2, AppendProperties
      <4>2. \A i \in 1 .. Len(replies) : replies[i].framed
        BY <2>1, <3>2 DEF RepliesFramed
      <4>3. DOMAIN replies' = 1 .. Len(replies) + 1
        BY <4>1, LenProperties
      <4>4. ASSUME NEW i \in DOMAIN replies'
            PROVE  ~replies'[i].framed <=> (i = Len(replies') /\ shutdown')
        <5>1. CASE i \in 1 .. Len(replies)
          BY <2>1, <4>1, <4>2, <5>1
        <5>2. CASE i = Len(replies) + 1
          BY <2>2, <3>2, <4>1, <5>2
        <5> QED BY <2>1, <4>3, <5>1, <5>2
      <4> QED BY <4>4 DEF RepliesFramed
    <3> QED BY <3>1, <3>2
  <2>3. CASE /\ pc = "failed" /\ Send(BadRequest) /\ shutdown' = TRUE
    <3>1. BadRequest \in ReplyType /\ BadRequest.framed = ~TRUE
      BY BadRequestType DEF ReplyType, BadRequest
    <3>2. replies' = IF shutdown THEN replies ELSE Append(replies, BadRequest)
      BY <2>3 DEF Send
    <3> QED BY <2>2, <2>3, <3>1, <3>2
  <2>4. CASE pc = "parsed" /\ parseState_ = "kGotAll" /\ OnRequest(request_)
    <3>1. PICK forbidden \in BOOLEAN :
           LET response == Response(request_, forbidden)
               reply == [status |-> response.status, framed |-> ~response.close,
                         got |-> request_.body]
           IN /\ response.close \in BOOLEAN
              /\ reply \in ReplyType
              /\ replies' = IF shutdown THEN replies ELSE Append(replies, reply)
              /\ shutdown' = (shutdown \/ response.close)
      BY <2>4, OnRequestFacts DEF CallInv, ReplyType
    <3> DEFINE response == Response(request_, forbidden)
    <3> DEFINE reply == [status |-> response.status, framed |-> ~response.close,
                         got |-> request_.body]
    <3>2. reply.framed = ~response.close
      OBVIOUS
    <3>3. /\ response.close \in BOOLEAN /\ reply \in ReplyType
          /\ replies' = IF shutdown THEN replies ELSE Append(replies, reply)
          /\ shutdown' = (shutdown \/ response.close)
      BY <3>1
    <3> HIDE DEF reply, response
    <3> QED BY <2>2, <3>2, <3>3
  <2> QED BY <1>1, <1>2, <2>3, <2>4 DEF OnMessage
<1> QED BY <1>1, <1>2
    DEF ParserNext, Arrive, HandleRead, ParseRequestLine, ParseHeader, ParseBody, Turn

-----------------------------------------------------------------------------
(* What is read of each kind of request, and how it is answered.            *)

(* The request line of each kind.                                           *)
LEMMA LineFacts ==
  ASSUME NEW k \in Kinds
  PROVE  /\ ProcessRequestLine(<<RequestLine(k)>>) <=> k # "bad"
         /\ k # "bad" =>
              /\ LineRead(k).path = RequestLine(k)[2]
              /\ LineRead(k).version = (IF k \in {"old", "kept"} THEN "kHttp10" ELSE "kHttp11")
              /\ LineRead(k).headers = <<>> /\ LineRead(k).body = <<>>
              /\ DOMAIN LineRead(k) = {"method", "path", "version", "headers", "body"}
         /\ RequestLine(k)[2] = IF k \in {"folder", "secret", "missing"} THEN k ELSE "page"
<1> DEFINE w == RequestLine(k)
<1>1. /\ Len(w) = 3 /\ w[1] \in Methods
      /\ w[2] = IF k \in {"folder", "secret", "missing"} THEN k ELSE "page"
      /\ w[3] = IF k = "bad" THEN "HTTP/2.0"
                ELSE IF k \in {"old", "kept"} THEN "HTTP/1.0" ELSE "HTTP/1.1"
  BY KindsAre DEF RequestLine, Methods
<1> HIDE DEF w
<1>2. Len(<<w>>) = 1 /\ <<w>>[1] = w
  OBVIOUS
<1>3. ProcessRequestLine(<<w>>) <=> k # "bad"
  BY <1>1, <1>2 DEF ProcessRequestLine
<1>4. ASSUME k # "bad"
      PROVE  /\ LineRead(k).path = w[2]
             /\ LineRead(k).version = (IF k \in {"old", "kept"} THEN "kHttp10" ELSE "kHttp11")
             /\ LineRead(k).headers = <<>> /\ LineRead(k).body = <<>>
             /\ DOMAIN LineRead(k) = {"method", "path", "version", "headers", "body"}
  <2> DEFINE v == CASE w[3] = "HTTP/1.0" -> "kHttp10"
                    [] w[3] = "HTTP/1.1" -> "kHttp11"
                    [] OTHER -> NoRequest.version
  <2>1. v = IF k \in {"old", "kept"} THEN "kHttp10" ELSE "kHttp11"
    BY <1>1, <1>4
  <2>2. LineRead(k) = [NoRequest EXCEPT !.method = w[1], !.path = w[2], !.version = v]
    BY <1>1, <1>2 DEF LineRead, SetRequestLine, NoRequest, w
  <2> HIDE DEF v
  <2>3. /\ DOMAIN NoRequest = {"method", "path", "version", "headers", "body"}
        /\ NoRequest.headers = <<>> /\ NoRequest.body = <<>>
    BY DEF NoRequest
  <2>4. /\ LineRead(k).path = w[2] /\ LineRead(k).version = v
        /\ LineRead(k).headers = <<>> /\ LineRead(k).body = <<>>
        /\ DOMAIN LineRead(k) = {"method", "path", "version", "headers", "body"}
    BY <2>2, <2>3
  <2> QED BY <2>1, <2>4
<1> QED BY <1>1, <1>3, <1>4 DEF w

(* The headers of each kind.                                                *)
LEMMA HeaderFacts ==
  ASSUME NEW k \in Kinds, k # "bad"
  PROVE  /\ k \in DOMAIN Header => IsHeader(<<Header[k]>>)
         /\ ~IsHeader(<<>>)
         /\ HeadersRead(k).path = RequestLine(k)[2]
         /\ HeadersRead(k).version = (IF k \in {"old", "kept"} THEN "kHttp10" ELSE "kHttp11")
         /\ HeadersRead(k).body = <<>>
         /\ GetHeader(HeadersRead(k), "Content-Length:") = "" <=> k # "body"
         /\ GetHeader(HeadersRead(k), "Connection:")
              = CASE k = "close" -> "close" [] k = "kept" -> "Keep-Alive" [] OTHER -> ""
<1> DEFINE l == LineRead(k)
<1>1. /\ l.path = RequestLine(k)[2] /\ l.body = <<>> /\ l.headers = <<>>
      /\ l.version = (IF k \in {"old", "kept"} THEN "kHttp10" ELSE "kHttp11")
      /\ DOMAIN l = {"method", "path", "version", "headers", "body"}
  BY LineFacts
<1>2. ~IsHeader(<<>>)
  BY DEF IsHeader
<1> HIDE DEF l
<1>3. CASE k \notin DOMAIN Header
  <2>1. HeadersRead(k) = l
    BY <1>3 DEF HeadersRead, l
  <2>2. \A field : GetHeader(l, field) = ""
    <3>1. DOMAIN l.headers = {}
      BY <1>1
    <3> QED BY <3>1 DEF GetHeader
  <2>3. k \notin {"close", "kept", "body"}
    BY <1>3, KindsAre
  <2> QED BY <1>1, <1>2, <1>3, <2>1, <2>2, <2>3
<1>4. CASE k \in DOMAIN Header
  <2> DEFINE w == Header[k]
  <2>1. /\ w[1] = CASE k = "plain" -> "Host:" [] k = "body" -> "Content-Length:"
                    [] OTHER -> "Connection:"
        /\ w[2] = CASE k = "plain" -> "name" [] k = "body" -> "BodyLen"
                    [] k = "close" -> "close" [] OTHER -> "Keep-Alive"
    BY <1>4, KindsAre DEF Header
  <2> HIDE DEF w
  <2>2. IsHeader(<<w>>)
    <3>1. w[1] \in {"Host:", "Connection:", "Content-Length:"}
      BY <2>1
    <3>2. <<w>> # <<>> /\ <<w>>[1] = w
      OBVIOUS
    <3> QED BY <3>1, <3>2 DEF IsHeader
  <2> DEFINE h == [field \in {w[1]} |-> w[2]]
  <2>3. HeadersRead(k) = [l EXCEPT !.headers = h]
    <3>1. HeadersRead(k) = AddHeader(l, <<w>>)
      BY <1>4 DEF HeadersRead, l, w
    <3>2. DOMAIN l.headers \cup {w[1]} = {w[1]}
      BY <1>1
    <3>3. [field \in DOMAIN l.headers \cup {w[1]} |->
             IF field = w[1] THEN w[2] ELSE l.headers[field]] = h
      BY <3>2
    <3>4. <<w>>[1] = w
      OBVIOUS
    <3> QED BY <3>1, <3>3, <3>4 DEF AddHeader
  <2>4. /\ HeadersRead(k).path = l.path /\ HeadersRead(k).version = l.version
        /\ HeadersRead(k).body = l.body /\ HeadersRead(k).headers = h
    BY <1>1, <2>3
  <2>5. \A field : GetHeader(HeadersRead(k), field) = IF field = w[1] THEN w[2] ELSE ""
    BY <2>4 DEF GetHeader
  <2>6. k \in {"plain", "close", "kept", "body"}
    BY <1>4, KindsAre
  <2>7. GetHeader(HeadersRead(k), "Content-Length:") = "" <=> k # "body"
    BY <2>1, <2>5, <2>6
  <2>8. GetHeader(HeadersRead(k), "Connection:")
          = CASE k = "close" -> "close" [] k = "kept" -> "Keep-Alive" [] OTHER -> ""
    BY <2>1, <2>5, <2>6
  <2> QED BY <1>1, <1>2, <2>2, <2>4, <2>7, <2>8 DEF w
<1> QED BY <1>3, <1>4

(* A request read to its end gets the reply of its kind, whatever the stack *)
(* holds where stat left nothing.                                           *)
LEMMA ReplyOf ==
  ASSUME NEW k \in Kinds, k # "bad", NEW r, NEW forbidden \in BOOLEAN,
         r.path = HeadersRead(k).path, r.version = HeadersRead(k).version,
         r.headers = HeadersRead(k).headers,
         r.body = IF k = "body" THEN Bytes ELSE <<>>
  PROVE  /\ AppendToBuffer(Response(r, forbidden), r) = Reply(k)
         /\ Response(r, forbidden).close = Closes(k)
<1>1. /\ r.path = IF k \in {"folder", "secret", "missing"} THEN k ELSE "page"
      /\ r.version = (IF k \in {"old", "kept"} THEN "kHttp10" ELSE "kHttp11")
  <2>1. RequestLine(k)[2] = IF k \in {"folder", "secret", "missing"} THEN k ELSE "page"
    BY LineFacts
  <2>2. /\ HeadersRead(k).path = RequestLine(k)[2]
        /\ HeadersRead(k).version = (IF k \in {"old", "kept"} THEN "kHttp10" ELSE "kHttp11")
    BY HeaderFacts
  <2> QED BY <2>1, <2>2
<1>2. GetHeader(r, "Connection:")
        = CASE k = "close" -> "close" [] k = "kept" -> "Keep-Alive" [] OTHER -> ""
  BY HeaderFacts DEF GetHeader
<1>3. AsksToClose(r) <=> k \in {"close", "old"}
  BY <1>1, <1>2 DEF AsksToClose
<1>4. AsksToClose(r) \in BOOLEAN
  BY DEF AsksToClose
<1> DEFINE c == AsksToClose(r)
<1>5. c = (k \in {"close", "old"})
  BY <1>3, <1>4
<1> HIDE DEF c
<1>6. Response(r, forbidden) = ServerStatic([status |-> 0, close |-> c], Files[r.path], forbidden)
  BY DEF Response, Callback, NewResponse, c
<1>7. FileStatus(Files[r.path], forbidden)
        = CASE k = "folder" -> "Forbidden" [] k \in {"secret", "missing"} -> "ReadError"
            [] OTHER -> "OK"
  <2>1. /\ Files["page"].open = TRUE /\ Files["page"].stat = "readable"
        /\ Files["folder"].open = TRUE /\ Files["folder"].stat = "other"
        /\ Files["secret"].open = FALSE /\ Files["missing"].open = FALSE
    BY DEF Files
  <2>2. CASE k = "folder"
    BY <1>1, <2>1, <2>2 DEF FileStatus
  <2>3. CASE k \in {"secret", "missing"}
    <3>1. Files[r.path].open = FALSE /\ k # "folder"
      BY <1>1, <2>1, <2>3
    <3>2. FileStatus(Files[r.path], forbidden) = "ReadError"
      BY <3>1 DEF FileStatus
    <3> QED BY <2>3, <3>1, <3>2
  <2>4. CASE k \notin {"folder", "secret", "missing"}
    BY <1>1, <2>1, <2>4 DEF FileStatus
  <2> QED BY <2>2, <2>3, <2>4
<1>8. Response(r, forbidden) = [status |-> Status(k), close |-> Closes(k)]
  <2>1. CASE k = "folder"
    <3>2. Response(r, forbidden) = [status |-> 403, close |-> TRUE]
      BY <1>6, <1>7, <2>1 DEF ServerStatic
    <3>3. Status(k) = 403 /\ Closes(k) = TRUE
      BY <2>1 DEF Status, Closes
    <3> QED BY <3>2, <3>3
  <2>2. CASE k \in {"secret", "missing"}
    <3>2. Response(r, forbidden) = [status |-> 404, close |-> TRUE]
      BY <1>6, <1>7, <2>2 DEF ServerStatic
    <3>3. Status(k) = 404 /\ Closes(k) = TRUE
      BY <2>2 DEF Status, Closes
    <3> QED BY <3>2, <3>3
  <2>3. CASE k \notin {"folder", "secret", "missing"}
    <3>1. Response(r, forbidden) = [status |-> 200, close |-> c]
      BY <1>6, <1>7, <2>3 DEF ServerStatic
    <3>2. Status(k) = 200 /\ Closes(k) = (k \in {"close", "old"})
      BY <2>3 DEF Status, Closes
    <3> QED BY <1>5, <3>1, <3>2
  <2> QED BY <2>1, <2>2, <2>3
<1>9. Closes(k) \in BOOLEAN
  BY DEF Closes
<1>10. r.body = [i \in 1 .. IF k = "body" THEN BodyLen ELSE 0 |-> Byte]
  <2>1. CASE k = "body"
    BY <2>1 DEF Bytes
  <2>2. CASE k # "body"
    <3>1. [i \in 1 .. 0 |-> Byte] = <<>>
      OBVIOUS
    <3> QED BY <2>2, <3>1
  <2> QED BY <2>1, <2>2
<1>11. AppendToBuffer(Response(r, forbidden), r)
         = [status |-> Status(k), framed |-> ~Closes(k), got |-> r.body]
  BY <1>8 DEF AppendToBuffer
<1>12. Response(r, forbidden).close = Closes(k)
  BY <1>8
<1> HIDE DEF c
<1>13. Reply(k) = [status |-> Status(k), framed |-> ~Closes(k), got |-> r.body]
  BY <1>10 DEF Reply
<1> QED BY <1>11, <1>12, <1>13

(* The replies have the type of replies.                                    *)
LEMMA ReplyTypes ==
  ASSUME NEW k \in Kinds
  PROVE  Reply(k) \in ReplyType
<1>1. Status(k) \in Nat /\ Closes(k) \in BOOLEAN
  BY DEF Status, Closes
<1>2. (IF k = "body" THEN BodyLen ELSE 0) \in Nat
  BY HttpContextAssumption
<1>3. [i \in 1 .. IF k = "body" THEN BodyLen ELSE 0 |-> Byte] \in Seq(Word)
  BY <1>2, WordFacts
<1> QED BY <1>1, <1>3 DEF Reply, ReplyType

-----------------------------------------------------------------------------
(* Where the parser is.                                                     *)

(* What a step leaves of the requests sent and of the replies.              *)
LEMMA Growth ==
  ASSUME WireInv, CallInv, ParserNext
  PROVE  /\ \A j \in 1 .. Len(sent) : j \in 1 .. Len(sent') /\ sent'[j] = sent[j]
         /\ DOMAIN sent = 1 .. Len(sent) /\ DOMAIN sent' = 1 .. Len(sent')
         /\ DOMAIN replies = 1 .. Len(replies) /\ DOMAIN replies' = 1 .. Len(replies')
         /\ Len(replies) \in Nat /\ Len(replies') \in Nat /\ Len(replies) <= Len(replies')
         /\ Len(sent) \in Nat /\ Len(sent') \in Nat
         /\ \A j \in 1 .. Len(replies) : replies'[j] = replies[j]
         /\ shutdown => shutdown' /\ replies' = replies
         /\ Straight' => Straight
         /\ replies' # replies => OnMessage
<1>1. WireInv' /\ CallInv'
  BY WireStep, CallStep
<1>2. /\ sent \in Seq(Kinds) /\ sent' \in Seq(Kinds)
      /\ replies \in Seq(ReplyType) /\ replies' \in Seq(ReplyType)
      /\ shutdown \in BOOLEAN
  BY <1>1 DEF WireInv, CallInv, ReplyType
<1>3. /\ DOMAIN sent = 1 .. Len(sent) /\ DOMAIN sent' = 1 .. Len(sent')
      /\ DOMAIN replies = 1 .. Len(replies) /\ DOMAIN replies' = 1 .. Len(replies')
      /\ Len(replies) \in Nat /\ Len(replies') \in Nat
      /\ Len(sent) \in Nat /\ Len(sent') \in Nat
  BY <1>2, LenProperties
<1>4. \A j \in 1 .. Len(sent) : j \in 1 .. Len(sent') /\ sent'[j] = sent[j]
  <2>1. CASE sent' = sent
    BY <2>1
  <2>2. ASSUME NEW k \in Kinds, sent' = Append(sent, k)
        PROVE  \A j \in 1 .. Len(sent) : j \in 1 .. Len(sent') /\ sent'[j] = sent[j]
    <3>1. Len(sent') = Len(sent) + 1 /\ \A j \in 1 .. Len(sent) : sent'[j] = sent[j]
      BY <1>2, <2>2, AppendProperties
    <3> QED BY <1>3, <3>1
  <2> QED BY <2>1, <2>2 DEF ParserNext, Arrive, BeginRequest, GoOn, HandleRead,
             ParseRequestLine, ParseHeader, ParseBody, Turn, OnMessage, wireVars
<1>5. CASE UNCHANGED <<replies, shutdown>>
  <2>1. Straight' => Straight
    BY <1>3, <1>4, <1>5 DEF Straight
  <2> QED BY <1>3, <1>4, <1>5, <2>1
<1>6. CASE OnMessage
  <2>1. /\ sent' = sent
        /\ shutdown => shutdown'
        /\ \/ replies' = replies
           \/ ~shutdown /\ \E reply \in ReplyType : replies' = Append(replies, reply)
    <3>1. sent' = sent
      BY <1>6 DEF OnMessage, wireVars
    <3>2. CASE pc = "failed" /\ Send(BadRequest) /\ shutdown' = TRUE
      BY <3>1, <3>2, BadRequestType DEF Send, ReplyType
    <3>3. CASE pc = "parsed" /\ parseState_ = "kGotAll" /\ OnRequest(request_)
      <4>1. request_ \in Requests /\ request_.path \in DOMAIN Files
        BY <3>3 DEF CallInv
      <4>2. PICK forbidden \in BOOLEAN :
             LET response == Response(request_, forbidden)
                 reply == [status |-> response.status, framed |-> ~response.close,
                           got |-> request_.body]
             IN /\ response.close \in BOOLEAN
                /\ reply \in ReplyType
                /\ replies' = IF shutdown THEN replies ELSE Append(replies, reply)
                /\ shutdown' = (shutdown \/ response.close)
        BY <3>3, <4>1, OnRequestFacts DEF ReplyType
      <4>3. \E reply \in ReplyType : replies' = IF shutdown THEN replies ELSE Append(replies, reply)
        BY <4>2
      <4>4. shutdown => shutdown'
        BY <4>2
      <4> QED BY <3>1, <4>3, <4>4
    <3>4. CASE UNCHANGED <<replies, shutdown>>
      BY <3>1, <3>4
    <3> QED BY <1>6, <3>2, <3>3, <3>4 DEF OnMessage
  <2>2. Len(replies) <= Len(replies') /\ \A j \in 1 .. Len(replies) : replies'[j] = replies[j]
    <3>1. ASSUME NEW reply \in ReplyType, replies' = Append(replies, reply)
          PROVE  Len(replies) <= Len(replies') /\ \A j \in 1 .. Len(replies) : replies'[j] = replies[j]
      BY <1>2, <1>3, <3>1, AppendProperties
    <3>2. CASE replies' = replies
      BY <1>3, <3>2
    <3> QED BY <2>1, <3>1, <3>2
  <2>3. Straight' => Straight
    <3> SUFFICES ASSUME Straight' PROVE Straight
      OBVIOUS
    <3>1. ~shutdown' /\ \A j \in DOMAIN sent' : j <= Len(replies') => sent'[j] # "body"
      BY DEF Straight
    <3>2. ~shutdown
      BY <2>1, <3>1
    <3>3. ASSUME NEW j \in 1 .. Len(sent), j <= Len(replies) PROVE sent[j] # "body"
      <4>1. j <= Len(replies')
        BY <1>3, <2>2, <3>3
      <4> QED BY <1>3, <2>1, <3>1, <4>1
    <3> QED BY <1>3, <3>2, <3>3 DEF Straight
  <2>4. shutdown => shutdown' /\ replies' = replies
    BY <2>1
  <2> QED BY <1>3, <1>4, <1>6, <2>2, <2>3, <2>4
<1> QED BY <1>5, <1>6
    DEF ParserNext, Arrive, HandleRead, ParseRequestLine, ParseHeader, ParseBody, Turn

(* A step that leaves the parser where it is.                               *)
LEMMA PlaceKept ==
  ASSUME Place, CallInv, UNCHANGED <<parseState_, request_>>, NEW c \in Nat, Cur = c, Cur' = c,
         pc # "failed", pc' # "failed",
         \A i, j : Starts(i, j) => Starts(i, j)',
         c \in DOMAIN sent => c \in DOMAIN sent' /\ sent'[c] = sent[c]
  PROVE  Place'
<1>1. /\ Starts(c, 1) => Starts(c, 1)'
      /\ Starts(c, 3) => Starts(c, 3)'
      /\ Starts(c, 5) => Starts(c, 5)'
      /\ Starts(c, 6) => Starts(c, 6)'
      /\ Starts(c + 1, 1) => Starts(c + 1, 1)'
  OBVIOUS
<1>2. CASE parseState_ = "kExpectRequestLine"
  <2>1. Starts(c, 1) /\ request_ = NoRequest
    BY <1>2 DEF Place
  <2>2. Starts(c, 1)' /\ request_' = NoRequest /\ parseState_' = "kExpectRequestLine"
    BY <1>1, <1>2, <2>1
  <2> QED BY <2>2 DEF Place
<1>3. CASE parseState_ = "kExpectHeaders"
  <2>1. /\ c \in DOMAIN sent /\ sent[c] # "bad"
        /\ \/ request_ = LineRead(sent[c]) /\ Starts(c, 3)
           \/ /\ sent[c] \in DOMAIN Header
              /\ request_ = HeadersRead(sent[c]) /\ Starts(c, 5)
    BY <1>3 DEF Place, Kind
  <2>2. /\ c \in DOMAIN sent' /\ sent'[c] # "bad" /\ parseState_' = "kExpectHeaders"
        /\ \/ request_' = LineRead(sent'[c]) /\ Starts(c, 3)'
           \/ /\ sent'[c] \in DOMAIN Header
              /\ request_' = HeadersRead(sent'[c]) /\ Starts(c, 5)'
    BY <1>1, <1>3, <2>1
  <2> QED BY <2>2 DEF Place, Kind
<1>4. CASE parseState_ = "kExpectBody"
  <2>1. /\ c \in DOMAIN sent /\ sent[c] = "body"
        /\ request_ = HeadersRead("body") /\ Starts(c, 6)
    BY <1>4 DEF Place, Kind
  <2>2. /\ c \in DOMAIN sent' /\ sent'[c] = "body" /\ parseState_' = "kExpectBody"
        /\ request_' = HeadersRead("body") /\ Starts(c, 6)'
    BY <1>1, <1>4, <2>1
  <2> QED BY <2>2 DEF Place, Kind
<1>5. CASE parseState_ = "kGotAll"
  <2>1. /\ c \in DOMAIN sent /\ sent[c] # "bad"
        /\ sent[c] # "body" => request_ = HeadersRead(sent[c]) /\ Starts(c + 1, 1)
        /\ sent[c] = "body" => request_ = [HeadersRead("body") EXCEPT !.body = request_.body]
    BY <1>5 DEF Place, Kind
  <2>2. /\ c \in DOMAIN sent' /\ sent'[c] # "bad" /\ parseState_' = "kGotAll"
        /\ sent'[c] # "body" => request_' = HeadersRead(sent'[c]) /\ Starts(c + 1, 1)'
        /\ sent'[c] = "body" => request_' = [HeadersRead("body") EXCEPT !.body = request_'.body]
    BY <1>1, <1>5, <2>1
  <2> QED BY <2>2 DEF Place, Kind
<1> QED BY <1>2, <1>3, <1>4, <1>5 DEF CallInv

(* A request line is taken, or refused and left.                            *)
LEMMA LineTaken ==
  ASSUME WireInv, pc = "parse", parseState_ = "kExpectRequestLine", UNCHANGED wireVars,
         NEW c \in Nat, Starts(c, 1), request_ = NoRequest,
         NEW crlf \in DOMAIN inputBuffer_, FindCRLF(inputBuffer_, crlf), TakeRequestLine(crlf)
  PROVE  /\ c \in 1 .. Len(sent)
         /\ sent[c] = "bad" => pc' = "failed" /\ parseState_' = parseState_ /\ Starts(c, 1)'
         /\ sent[c] # "bad" => /\ pc' = pc /\ parseState_' = "kExpectHeaders"
                               /\ request_' = LineRead(sent[c]) /\ Starts(c, 3)'
<1>1. /\ c \in 1 .. Len(sent)
      /\ Text(sent[c])[1] # CRLF /\ 1 # Len(Text(sent[c])) /\ Text(sent[c])[2] = CRLF =>
           /\ inputBuffer_[crlf].of = c /\ inputBuffer_[crlf].at = 2
           /\ FirstLine(inputBuffer_, crlf) = <<Text(sent[c])[1]>>
  <2>1. IsNext(1, 2)
    BY DEF IsNext
  <2>2. ASSUME NEW j \in Nat, NEW m, Starts(c, j), Text(sent[c])[j] # CRLF,
               j # Len(Text(sent[c])), IsNext(j, m), Text(sent[c])[m] = CRLF
        PROVE  /\ inputBuffer_[crlf].of = c /\ inputBuffer_[crlf].at = m
               /\ FirstLine(inputBuffer_, crlf) = <<Text(sent[c])[j]>>
    BY <2>2, LineOf
  <2>3. c \in 1 .. Len(sent)
    BY LineOf
  <2> QED BY <2>1, <2>2, <2>3
<1> DEFINE k == sent[c]
<1>2. k \in Kinds /\ Len(Text(k)) \in Nat /\ Len(Text(k)) >= 3
  BY <1>1, SentFacts
<1>3. Text(k)[1] = RequestLine(k) /\ Text(k)[2] = CRLF /\ RequestLine(k) # CRLF
  BY <1>2, TextFacts, WordFacts
<1>4. /\ inputBuffer_[crlf].of = c /\ inputBuffer_[crlf].at = 2
      /\ FirstLine(inputBuffer_, crlf) = <<RequestLine(k)>>
  BY <1>1, <1>2, <1>3
<1>5. ProcessRequestLine(<<RequestLine(k)>>) <=> k # "bad"
  BY <1>2, LineFacts
<1>6. CASE k = "bad"
  <2>1. pc' = "failed" /\ UNCHANGED <<inputBuffer_, parseState_>>
    BY <1>4, <1>5, <1>6 DEF TakeRequestLine
  <2>2. \A i, j : Starts(i, j) => Starts(i, j)'
    BY <2>1, WireSame
  <2> QED BY <1>1, <1>6, <2>1, <2>2
<1>7. CASE k # "bad"
  <2>1. /\ request_' = LineRead(k) /\ inputBuffer_' = RetrieveLine(inputBuffer_, crlf)
        /\ parseState_' = "kExpectHeaders" /\ pc' = pc
    BY <1>4, <1>5, <1>7 DEF TakeRequestLine, LineRead
  <2>2. IF 2 = Len(Text(sent[c])) THEN Starts(c + 1, 1)' ELSE Starts(c, 3)'
    <3>1. IsNext(2, 3)
      BY DEF IsNext
    <3> QED BY <1>4, <2>1, <3>1, WireTake
  <2>3. Starts(c, 3)'
    <3>1. 2 # Len(Text(sent[c]))
      <4>1. \A n \in Nat : n >= 3 => 2 # n
        OBVIOUS
      <4> QED BY <1>2, <4>1
    <3> QED BY <2>2, <3>1
  <2> QED BY <1>1, <1>7, <2>1, <2>3
<1> QED BY <1>6, <1>7

(* A header is taken, or the line behind the last one.                      *)
LEMMA HeaderTaken ==
  ASSUME WireInv, pc = "parse", parseState_ = "kExpectHeaders", UNCHANGED wireVars,
         NEW c \in 1 .. Len(sent), sent[c] # "bad",
         \/ request_ = LineRead(sent[c]) /\ Starts(c, 3)
         \/ /\ sent[c] \in DOMAIN Header
            /\ request_ = HeadersRead(sent[c]) /\ Starts(c, 5),
         NEW crlf \in DOMAIN inputBuffer_, FindCRLF(inputBuffer_, crlf), TakeHeader(crlf)
  PROVE  \/ /\ sent[c] \in DOMAIN Header /\ request_' = HeadersRead(sent[c]) /\ Starts(c, 5)'
            /\ UNCHANGED <<pc, parseState_, body_lenth>>
         \/ /\ sent[c] # "body" /\ request_' = HeadersRead(sent[c]) /\ Starts(c + 1, 1)'
            /\ pc' = "parsed" /\ parseState_' = "kGotAll" /\ body_lenth' = body_lenth
         \/ /\ sent[c] = "body" /\ request_' = HeadersRead("body") /\ Starts(c, 6)'
            /\ pc' = pc /\ parseState_' = "kExpectBody" /\ body_lenth' = BodyLen
<1> DEFINE k == sent[c]
<1>1. k \in Kinds /\ Len(Text(k)) \in Nat /\ Len(Text(k)) >= 3
  BY SentFacts
<1>2. inputBuffer_' = RetrieveLine(inputBuffer_, crlf)
  BY DEF TakeHeader
<1>3. \A i, j, m : inputBuffer_[crlf].of = i /\ inputBuffer_[crlf].at = j /\ IsNext(j, m)
        => IF j = Len(Text(sent[i])) THEN Starts(i + 1, 1)' ELSE Starts(i, m)'
  BY <1>2, WireTake
<1>4. ASSUME NEW j \in Nat, NEW m, IsNext(j, m), Starts(c, j), Text(k)[j] = CRLF
      PROVE  /\ IF j = Len(Text(k)) THEN Starts(c + 1, 1)' ELSE Starts(c, m)'
             /\ request_' = request_ /\ EndOfHeaders
  <2>1. inputBuffer_[crlf].of = c /\ inputBuffer_[crlf].at = j /\ FirstLine(inputBuffer_, crlf) = <<>>
    BY <1>4, LineOf
  <2>2. EndOfHeaders
    BY <1>1, <2>1, HeaderFacts DEF TakeHeader
  <2>3. IF j = Len(Text(k)) THEN Starts(c + 1, 1)' ELSE Starts(c, m)'
    BY <1>3, <1>4, <2>1
  <2>4. request_' = request_
    BY <2>2 DEF EndOfHeaders
  <2> QED BY <2>2, <2>3, <2>4
<1>5. CASE k \in DOMAIN Header /\ request_ = LineRead(k) /\ Starts(c, 3)
  <2>1. /\ Text(k)[3] = Header[k] /\ Text(k)[4] = CRLF /\ Header[k] # CRLF
        /\ Len(Text(k)) >= 5
    BY <1>1, <1>5, TextFacts, WordFacts, HttpContextAssumption
  <2>2. /\ inputBuffer_[crlf].of = c /\ inputBuffer_[crlf].at = 4
        /\ FirstLine(inputBuffer_, crlf) = <<Header[k]>>
    <3>1. Text(sent[c])[3] # CRLF /\ 3 # Len(Text(sent[c])) /\ Text(sent[c])[4] = CRLF =>
           /\ inputBuffer_[crlf].of = c /\ inputBuffer_[crlf].at = 4
           /\ FirstLine(inputBuffer_, crlf) = <<Text(sent[c])[3]>>
      <4>1. IsNext(3, 4)
        BY DEF IsNext
      <4>2. ASSUME NEW j \in Nat, NEW m, Starts(c, j), Text(sent[c])[j] # CRLF,
                   j # Len(Text(sent[c])), IsNext(j, m), Text(sent[c])[m] = CRLF
            PROVE  /\ inputBuffer_[crlf].of = c /\ inputBuffer_[crlf].at = m
                   /\ FirstLine(inputBuffer_, crlf) = <<Text(sent[c])[j]>>
        BY <4>2, LineOf
      <4> QED BY <1>5, <4>1, <4>2
    <3>2. 3 # Len(Text(sent[c]))
      <4>1. \A n \in Nat : n >= 5 => 3 # n
        OBVIOUS
      <4> QED BY <1>1, <2>1, <4>1
    <3> QED BY <2>1, <3>1, <3>2
  <2>3. request_' = HeadersRead(k) /\ UNCHANGED <<parseState_, pc, body_lenth>>
    BY <1>1, <1>5, <2>2, HeaderFacts DEF TakeHeader, HeadersRead
  <2>4. Starts(c, 5)'
    <3>1. IF 4 = Len(Text(sent[c])) THEN Starts(c + 1, 1)' ELSE Starts(c, 5)'
      <4>1. IsNext(4, 5)
        BY DEF IsNext
      <4> QED BY <1>3, <2>2, <4>1
    <3>2. 4 # Len(Text(sent[c]))
      <4>1. \A n \in Nat : n >= 5 => 4 # n
        OBVIOUS
      <4> QED BY <1>1, <2>1, <4>1
    <3> QED BY <3>1, <3>2
  <2> QED BY <1>5, <2>3, <2>4
<1>6. CASE k \notin DOMAIN Header /\ request_ = LineRead(k) /\ Starts(c, 3)
  <2>1. Len(Text(k)) = 3 /\ Text(k)[3] = CRLF
    BY <1>1, <1>6, TextFacts
  <2>2. Starts(c + 1, 1)' /\ request_' = request_ /\ EndOfHeaders
    <3>1. IsNext(3, 4)
      BY DEF IsNext
    <3> QED BY <1>4, <1>6, <2>1, <3>1
  <2>3. request_ = HeadersRead(k) /\ k # "body"
    BY <1>6, KindsAre DEF HeadersRead
  <2>4. GetHeader(request_, "Content-Length:") = ""
    BY <1>1, <2>3, HeaderFacts
  <2> QED BY <2>2, <2>3, <2>4 DEF EndOfHeaders
<1>7. CASE k \in DOMAIN Header /\ request_ = HeadersRead(k) /\ Starts(c, 5)
  <2>1. Text(k)[5] = CRLF /\ Len(Text(k)) = IF k = "body" THEN 5 + BodyLen ELSE 5
    BY <1>1, <1>7, TextFacts
  <2>2. /\ IF 5 = Len(Text(k)) THEN Starts(c + 1, 1)' ELSE Starts(c, 6)'
        /\ request_' = request_ /\ EndOfHeaders
    <3>1. IsNext(5, 6)
      BY DEF IsNext
    <3> QED BY <1>4, <1>7, <2>1, <3>1
  <2>3. GetHeader(request_, "Content-Length:") = "" <=> k # "body"
    BY <1>1, <1>7, HeaderFacts
  <2>4. CASE k = "body"
    <3>1. Starts(c, 6)'
      <4>1. 5 # Len(Text(k))
        BY <2>1, <2>4, HttpContextAssumption
      <4> QED BY <2>2, <4>1
    <3> QED BY <1>7, <2>2, <2>3, <2>4, <3>1 DEF EndOfHeaders
  <2>5. CASE k # "body"
    BY <1>7, <2>1, <2>2, <2>3, <2>5 DEF EndOfHeaders
  <2> QED BY <2>4, <2>5
<1> QED BY <1>5, <1>6, <1>7

(* As long as no body was answered and the connection is open, the parser   *)
(* is at the place of the stream its state tells.                           *)
LEMMA ParserStep ==
  ASSUME WireInv, CallInv, ParserInv, ParserNext
  PROVE  ParserInv'
<1> SUFFICES ASSUME Straight' PROVE (Len(replies) <= Len(sent) /\ Place)'
  BY DEF ParserInv
<1>1. /\ \A j \in 1 .. Len(sent) : j \in 1 .. Len(sent') /\ sent'[j] = sent[j]
      /\ DOMAIN sent = 1 .. Len(sent) /\ DOMAIN sent' = 1 .. Len(sent')
      /\ Len(replies) \in Nat /\ Len(replies') \in Nat
      /\ Len(sent) \in Nat /\ Len(sent') \in Nat
      /\ Straight
  BY Growth
<1>2. Len(replies) <= Len(sent) /\ Place
  BY <1>1 DEF ParserInv
<1>3. Len(sent) <= Len(sent')
  <2>1. CASE Len(sent) = 0
    BY <1>1, <2>1
  <2>2. CASE Len(sent) # 0
    <3>1. Len(sent) \in 1 .. Len(sent)
      BY <1>1, <2>2
    <3>2. Len(sent) \in 1 .. Len(sent')
      BY <1>1, <3>1
    <3> QED BY <1>1, <3>2
  <2> QED BY <2>1, <2>2
<1>4. PICK c \in Nat : c = Cur
  BY <1>1 DEF Cur
<1>5. Straight' => shutdown' = FALSE
  BY CallStep DEF Straight, CallInv
<1>6. CASE UNCHANGED <<parseState_, request_, replies>> /\ pc # "failed" /\ pc' # "failed"
           /\ \A i, j : Starts(i, j) => Starts(i, j)'
  <2>1. Cur' = c
    BY <1>4, <1>6 DEF Cur
  <2>2. c \in DOMAIN sent => c \in DOMAIN sent' /\ sent'[c] = sent[c]
    BY <1>1
  <2>3. Place'
    BY <1>2, <1>4, <1>6, <2>1, <2>2, PlaceKept
  <2> QED BY <1>1, <1>2, <1>3, <1>6, <2>3
<1>7. CASE Arrive
  BY <1>6, <1>7, WireArrive DEF Arrive
<1>8. CASE HandleRead
  BY <1>6, <1>8, WireRead DEF HandleRead
<1>9. CASE ParseRequestLine
  <2>1. UNCHANGED <<wireVars, replies, shutdown>> /\ pc = "parse" /\ parseState_ = "kExpectRequestLine"
    BY <1>9 DEF ParseRequestLine, Turn
  <2>2. CASE NeedMore
    <3>1. UNCHANGED <<wireVars, inputBuffer_>>
      BY <2>1, <2>2 DEF NeedMore
    <3>2. \A i, j : Starts(i, j) => Starts(i, j)'
      BY <2>1, <3>1, WireSame
    <3> QED BY <1>6, <2>1, <2>2, <3>2 DEF NeedMore
  <2>3. ASSUME NEW crlf \in DOMAIN inputBuffer_, FindCRLF(inputBuffer_, crlf), TakeRequestLine(crlf)
        PROVE  (Len(replies) <= Len(sent) /\ Place)'
    <3>1. Starts(c, 1) /\ request_ = NoRequest
      BY <1>2, <1>4, <2>1 DEF Place
    <3>2. /\ c \in 1 .. Len(sent)
          /\ sent[c] = "bad" => pc' = "failed" /\ parseState_' = parseState_ /\ Starts(c, 1)'
          /\ sent[c] # "bad" => /\ pc' = pc /\ parseState_' = "kExpectHeaders"
                                /\ request_' = LineRead(sent[c]) /\ Starts(c, 3)'
      BY <2>1, <2>3, <3>1, LineTaken
    <3>3. sent' = sent /\ replies' = replies /\ Cur' = c
      BY <1>4, <2>1 DEF Cur, wireVars
    <3>4. CASE sent[c] = "bad"
      <4>1. /\ Starts(c, 1)' /\ parseState_' = "kExpectRequestLine" /\ pc' = "failed"
            /\ c \in DOMAIN sent' /\ sent'[c] = "bad"
        BY <1>1, <2>1, <3>2, <3>3, <3>4
      <4>2. Place'
        BY <3>3, <4>1 DEF Place, Kind
      <4> QED BY <1>2, <3>3, <4>2
    <3>5. CASE sent[c] # "bad"
      <4>1. /\ parseState_' = "kExpectHeaders" /\ request_' = LineRead(sent'[c]) /\ Starts(c, 3)'
            /\ c \in DOMAIN sent' /\ sent'[c] # "bad"
        BY <1>1, <3>2, <3>3, <3>5
      <4>2. Place'
        BY <3>3, <4>1 DEF Place, Kind
      <4> QED BY <1>2, <3>3, <4>2
    <3> QED BY <3>4, <3>5
  <2> QED BY <1>9, <2>2, <2>3 DEF ParseRequestLine
<1>10. CASE ParseHeader
  <2>1. UNCHANGED <<wireVars, replies, shutdown>> /\ pc = "parse" /\ parseState_ = "kExpectHeaders"
    BY <1>10 DEF ParseHeader, Turn
  <2>2. CASE NeedMore
    <3>1. UNCHANGED <<wireVars, inputBuffer_>>
      BY <2>1, <2>2 DEF NeedMore
    <3>2. \A i, j : Starts(i, j) => Starts(i, j)'
      BY <2>1, <3>1, WireSame
    <3> QED BY <1>6, <2>1, <2>2, <3>2 DEF NeedMore
  <2>3. ASSUME NEW crlf \in DOMAIN inputBuffer_, FindCRLF(inputBuffer_, crlf), TakeHeader(crlf)
        PROVE  (Len(replies) <= Len(sent) /\ Place)'
    <3>1. /\ c \in 1 .. Len(sent) /\ sent[c] # "bad"
          /\ \/ request_ = LineRead(sent[c]) /\ Starts(c, 3)
             \/ /\ sent[c] \in DOMAIN Header
                /\ request_ = HeadersRead(sent[c]) /\ Starts(c, 5)
      BY <1>1, <1>2, <1>4, <2>1 DEF Place, Kind
    <3>2. \/ /\ sent[c] \in DOMAIN Header /\ request_' = HeadersRead(sent[c]) /\ Starts(c, 5)'
             /\ UNCHANGED <<pc, parseState_, body_lenth>>
          \/ /\ sent[c] # "body" /\ request_' = HeadersRead(sent[c]) /\ Starts(c + 1, 1)'
             /\ pc' = "parsed" /\ parseState_' = "kGotAll" /\ body_lenth' = body_lenth
          \/ /\ sent[c] = "body" /\ request_' = HeadersRead("body") /\ Starts(c, 6)'
             /\ pc' = pc /\ parseState_' = "kExpectBody" /\ body_lenth' = BodyLen
      BY <2>1, <2>3, <3>1, HeaderTaken
    <3>3. sent' = sent /\ replies' = replies /\ Cur' = c /\ c \in DOMAIN sent' /\ sent'[c] # "bad"
      BY <1>1, <1>4, <2>1, <3>1 DEF Cur, wireVars
    <3>4. CASE /\ sent[c] \in DOMAIN Header /\ request_' = HeadersRead(sent[c]) /\ Starts(c, 5)'
               /\ parseState_' = "kExpectHeaders"
      <4>1. Place'
        BY <3>3, <3>4 DEF Place, Kind
      <4> QED BY <1>2, <3>3, <4>1
    <3>5. CASE /\ sent[c] # "body" /\ request_' = HeadersRead(sent[c]) /\ Starts(c + 1, 1)'
               /\ parseState_' = "kGotAll"
      <4>1. Place'
        BY <3>3, <3>5 DEF Place, Kind
      <4> QED BY <1>2, <3>3, <4>1
    <3>6. CASE /\ sent[c] = "body" /\ request_' = HeadersRead("body") /\ Starts(c, 6)'
               /\ parseState_' = "kExpectBody"
      <4>1. Place'
        BY <3>3, <3>6 DEF Place, Kind
      <4> QED BY <1>2, <3>3, <4>1
    <3> QED BY <2>1, <3>2, <3>4, <3>5, <3>6
  <2> QED BY <1>10, <2>2, <2>3 DEF ParseHeader
<1>11. CASE ParseBody
  <2>1. /\ UNCHANGED <<wireVars, replies, shutdown, inputBuffer_>>
        /\ pc = "parse" /\ parseState_ = "kExpectBody"
    BY <1>11 DEF ParseBody, Turn, NeedMore
  <2>2. \A i, j : Starts(i, j) => Starts(i, j)'
    BY <2>1, WireSame
  <2>3. CASE NeedMore
    BY <1>6, <2>1, <2>2, <2>3 DEF NeedMore
  <2>4. ASSUME NEW text, request_' = [request_ EXCEPT !.body = text], parseState_' = "kGotAll"
        PROVE  (Len(replies) <= Len(sent) /\ Place)'
    <3>1. c \in DOMAIN sent /\ sent[c] = "body" /\ request_ = HeadersRead("body")
      BY <1>2, <1>4, <2>1 DEF Place, Kind
    <3>2. sent' = sent /\ replies' = replies /\ Cur' = c
      BY <1>4, <2>1 DEF Cur, wireVars
    <3>3. "body" \in {"method", "path", "version", "headers", "body"}
          /\ DOMAIN request_ = {"method", "path", "version", "headers", "body"}
      BY DEF CallInv, Requests
    <3>4. request_' = [HeadersRead("body") EXCEPT !.body = request_'.body]
      BY <2>4, <3>1, <3>3
    <3>5. Place'
      BY <2>4, <3>1, <3>2, <3>4 DEF Place, Kind
    <3> QED BY <1>2, <3>2, <3>5
  <2> QED BY <1>11, <2>3, <2>4 DEF ParseBody
<1>12. CASE OnMessage
  <2>1. /\ UNCHANGED <<wireVars, inputBuffer_>> /\ pc # "idle" /\ pc' = "idle"
    BY <1>12 DEF OnMessage
  <2>2. \A i, j : Starts(i, j) => Starts(i, j)'
    BY <2>1, WireSame
  <2>3. CASE shutdown' = TRUE
    BY <1>5, <2>3
  <2>4. CASE pc = "parsed" /\ parseState_ = "kGotAll" /\ OnRequest(request_) /\ Reset
    <3>1. PICK forbidden \in BOOLEAN :
           LET response == Response(request_, forbidden)
               reply == [status |-> response.status, framed |-> ~response.close,
                         got |-> request_.body]
           IN /\ response.close \in BOOLEAN
              /\ reply \in ReplyType
              /\ replies' = IF shutdown THEN replies ELSE Append(replies, reply)
              /\ shutdown' = (shutdown \/ response.close)
      BY <2>4, OnRequestFacts DEF CallInv, ReplyType
    <3>2. ~shutdown /\ replies \in Seq(ReplyType)
      BY <1>1 DEF Straight, CallInv, ReplyType
    <3>3. Len(replies') = c
      <4>1. PICK reply : replies' = Append(replies, reply)
        BY <3>1, <3>2
      <4> QED BY <1>4, <3>2, <4>1 DEF Cur
    <3>4. /\ c \in DOMAIN sent
          /\ sent[c] # "body" => Starts(c + 1, 1)
      BY <1>2, <1>4, <2>4 DEF Place, Kind
    <3>5. sent' = sent
      BY <2>1 DEF wireVars
    <3>6. sent[c] # "body"
      BY <1>1, <3>3, <3>4, <3>5 DEF Straight
    <3>7. Cur' = c + 1 /\ Starts(c + 1, 1)' /\ request_' = NoRequest
          /\ parseState_' = "kExpectRequestLine"
      BY <2>2, <2>4, <3>3, <3>4, <3>6 DEF Cur, Reset
    <3>8. Place'
      BY <2>1, <3>7 DEF Place
    <3> QED BY <1>1, <3>3, <3>4, <3>5, <3>8
  <2>5. CASE pc = "parsed" /\ UNCHANGED <<parseState_, request_, replies, shutdown>>
    BY <1>6, <2>1, <2>2, <2>5
  <2> QED BY <1>12, <2>3, <2>4, <2>5 DEF OnMessage
<1> QED BY <1>7, <1>8, <1>9, <1>10, <1>11, <1>12 DEF ParserNext

-----------------------------------------------------------------------------
(* The replies.                                                             *)

(* No reply before a body, and no end of the connection: the requests       *)
(* before the current one leave the connection open.                        *)
LEMMA CurAnswerable ==
  ASSUME WireInv, CallInv, CutsDoNotMatter, RepliesFramed, Straight
  PROVE  Answerable(Cur) /\ Cur - 1 = Len(replies)
<1>1. Len(replies) \in Nat /\ DOMAIN replies = 1 .. Len(replies)
  BY LenProperties DEF CallInv
<1>2. ASSUME NEW j \in 1 .. Len(replies)
      PROVE  ~Closes(sent[j]) /\ sent[j] # "body"
  <2>1. ~ \E m \in DOMAIN sent : m <= j /\ sent[m] = "body"
    BY <1>1, <1>2 DEF Straight
  <2>2. j \in DOMAIN sent /\ replies[j] = Reply(sent[j])
    BY <1>1, <1>2, <2>1 DEF CutsDoNotMatter, GotReply
  <2>3. replies[j].framed
    BY <1>1, <1>2 DEF RepliesFramed, Straight
  <2>4. Reply(sent[j]).framed = ~Closes(sent[j])
    BY DEF Reply
  <2>5. sent[j] # "body"
    BY <1>1, <1>2, <2>2 DEF Straight
  <2> QED BY <2>2, <2>3, <2>4, <2>5
<1>3. Cur - 1 = Len(replies)
  BY <1>1 DEF Cur
<1> QED BY <1>2, <1>3 DEF Answerable

(* The reply onMessage adds is the one of the current request, unless that  *)
(* has a body which was cut.                                                *)
LEMMA NewReply ==
  ASSUME WireInv, CallInv, ParserInv, CutsDoNotMatter, RepliesFramed, WholeInv, Straight,
         OnMessage, replies' # replies
  PROVE  /\ Cur \in DOMAIN sent /\ Answerable(Cur)
         /\ sent[Cur] # "body" \/ pieces = "whole" => replies' = Append(replies, Reply(sent[Cur]))
         /\ \E reply \in ReplyType : replies' = Append(replies, reply)
<1>1. Answerable(Cur) /\ Place /\ ~shutdown /\ sent \in Seq(Kinds)
  BY CurAnswerable DEF ParserInv, Straight, WireInv
<1>2. CASE pc = "failed" /\ Send(BadRequest)
  <2>1. Cur \in DOMAIN sent /\ sent[Cur] = "bad"
    BY <1>1, <1>2 DEF CallInv, Place, Kind
  <2>2. replies' = Append(replies, BadRequest)
    BY <1>1, <1>2 DEF Send
  <2>3. BadRequest = Reply("bad")
    <3>1. Status("bad") = 400 /\ Closes("bad") = TRUE
      BY DEF Status, Closes
    <3>2. [i \in 1 .. 0 |-> Byte] = <<>>
      OBVIOUS
    <3>3. Reply("bad") = [status |-> Status("bad"), framed |-> ~Closes("bad"),
                          got |-> [i \in 1 .. 0 |-> Byte]]
      BY DEF Reply
    <3> QED BY <3>1, <3>2, <3>3 DEF BadRequest
  <2> QED BY <1>1, <2>1, <2>2, <2>3, BadRequestType DEF ReplyType
<1>3. CASE pc = "parsed" /\ parseState_ = "kGotAll" /\ OnRequest(request_)
  <2>1. Cur \in DOMAIN sent /\ sent[Cur] # "bad" /\ sent[Cur] \in Kinds
    BY <1>1, <1>3, ElementOfSeq, LenProperties DEF Place, Kind
  <2>2. request_ \in Requests /\ request_.path \in DOMAIN Files
    BY <1>3 DEF CallInv
  <2>3. PICK forbidden \in BOOLEAN : Send(AppendToBuffer(Response(request_, forbidden), request_))
    BY <1>3 DEF OnRequest
  <2>4. replies' = Append(replies, AppendToBuffer(Response(request_, forbidden), request_))
    BY <1>1, <2>3 DEF Send
  <2>5. AppendToBuffer(Response(request_, forbidden), request_) \in ReplyType
    <3>1. Response(request_, forbidden) \in [status : Nat, close : BOOLEAN]
      BY <2>2, ResponseType
    <3>2. request_.body \in Seq(Word)
      BY <2>2 DEF Requests
    <3> QED BY <3>1, <3>2 DEF AppendToBuffer, ReplyType
  <2>6. ASSUME sent[Cur] # "body" \/ pieces = "whole"
        PROVE  AppendToBuffer(Response(request_, forbidden), request_) = Reply(sent[Cur])
    <3>1. CASE sent[Cur] # "body"
      <4>1. request_ = HeadersRead(sent[Cur]) /\ request_.body = <<>>
        <5>1. request_ = HeadersRead(sent[Cur])
          BY <1>1, <1>3, <3>1 DEF Place, Kind
        <5>2. HeadersRead(sent[Cur]).body = <<>>
          BY <2>1, HeaderFacts
        <5> QED BY <5>1, <5>2
      <4> QED BY <2>1, <3>1, <4>1, ReplyOf
    <3>2. CASE sent[Cur] = "body" /\ pieces = "whole"
      <4>1. request_ = [HeadersRead("body") EXCEPT !.body = request_.body]
        BY <1>1, <1>3, <3>2 DEF Place, Kind
      <4>2. request_.body = Bytes
        BY <1>3, <3>2 DEF WholeInv, Kind
      <4>3. /\ request_.path = HeadersRead("body").path
            /\ request_.version = HeadersRead("body").version
            /\ request_.headers = HeadersRead("body").headers
        <5>1. DOMAIN request_ = {"method", "path", "version", "headers", "body"}
          BY <2>2 DEF Requests
        <5>2. DOMAIN HeadersRead("body") = {"method", "path", "version", "headers", "body"}
          BY <4>1, <5>1
        <5> QED BY <4>1, <5>2
      <4> QED BY <2>1, <3>2, <4>2, <4>3, ReplyOf
    <3> QED BY <2>6, <3>1, <3>2
  <2> QED BY <1>1, <2>1, <2>4, <2>5, <2>6
<1> QED BY <1>2, <1>3 DEF OnMessage

(* Whatever the cuts, requests without a body get their own replies.        *)
LEMMA CutsStep ==
  ASSUME WireInv, CallInv, ParserInv, CutsDoNotMatter, RepliesFramed, WholeInv, ParserNext
  PROVE  CutsDoNotMatter'
<1>1. /\ \A j \in 1 .. Len(sent) : j \in 1 .. Len(sent') /\ sent'[j] = sent[j]
      /\ DOMAIN sent = 1 .. Len(sent) /\ DOMAIN sent' = 1 .. Len(sent')
      /\ DOMAIN replies = 1 .. Len(replies) /\ DOMAIN replies' = 1 .. Len(replies')
      /\ Len(replies) \in Nat /\ Len(replies') \in Nat /\ Len(replies) <= Len(replies')
      /\ Len(sent) \in Nat /\ Len(sent') \in Nat
      /\ \A j \in 1 .. Len(replies) : replies'[j] = replies[j]
      /\ shutdown => shutdown' /\ replies' = replies
      /\ replies' # replies => OnMessage
  BY Growth
<1>2. ASSUME NEW i \in 1 .. Len(replies)
      PROVE  \/ \E j \in DOMAIN sent' : j <= i /\ sent'[j] = "body"
             \/ i \in DOMAIN sent' /\ Answerable(i)' /\ GotReply(i)'
  <2>1. CASE \E j \in DOMAIN sent : j <= i /\ sent[j] = "body"
    BY <1>1, <2>1
  <2>2. CASE i \in DOMAIN sent /\ Answerable(i) /\ GotReply(i)
    <3>1. i \in 1 .. Len(sent) /\ replies[i] = Reply(sent[i])
          /\ \A j \in 1 .. i - 1 : ~Closes(sent[j]) /\ sent[j] # "body"
      BY <1>1, <2>2 DEF Answerable, GotReply
    <3>2. replies'[i] = Reply(sent'[i]) /\ i \in DOMAIN sent' /\ i \in DOMAIN replies'
      BY <1>1, <3>1
    <3>3. \A j \in 1 .. i - 1 : ~Closes(sent'[j]) /\ sent'[j] # "body"
      BY <1>1, <3>1
    <3> QED BY <3>2, <3>3 DEF Answerable, GotReply
  <2> QED BY <1>1, <1>2, <2>1, <2>2 DEF CutsDoNotMatter
<1>3. CASE replies' = replies
  BY <1>1, <1>2, <1>3 DEF CutsDoNotMatter
<1>4. CASE replies' # replies
  <2>1. OnMessage /\ ~shutdown /\ sent' = sent
    BY <1>1, <1>4 DEF OnMessage, wireVars
  <2>2. PICK c \in Nat : c = Cur /\ c = Len(replies) + 1
    BY <1>1 DEF Cur
  <2>3. \E reply \in ReplyType : replies' = Append(replies, reply)
    <3>1. ASSUME pc = "failed", Send(BadRequest)
          PROVE  \E reply \in ReplyType : replies' = Append(replies, reply)
      BY <2>1, <3>1, BadRequestType DEF Send, ReplyType
    <3>2. ASSUME pc = "parsed", parseState_ = "kGotAll", OnRequest(request_)
          PROVE  \E reply \in ReplyType : replies' = Append(replies, reply)
      <4>1. request_ \in Requests /\ request_.path \in DOMAIN Files
        BY <3>2 DEF CallInv
      <4>2. \E forbidden \in BOOLEAN :
             LET response == Response(request_, forbidden)
                 reply == [status |-> response.status, framed |-> ~response.close,
                           got |-> request_.body]
             IN /\ reply \in ReplyType
                /\ replies' = IF shutdown THEN replies ELSE Append(replies, reply)
        BY <3>2, <4>1, OnRequestFacts DEF ReplyType
      <4> QED BY <2>1, <4>2
    <3> QED BY <1>4, <2>1, <3>1, <3>2 DEF OnMessage
  <2>4. Len(replies') = c
    BY <2>2, <2>3, AppendProperties DEF CallInv, ReplyType
  <2>5. \/ \E j \in DOMAIN sent' : j <= c /\ sent'[j] = "body"
        \/ c \in DOMAIN sent' /\ Answerable(c)' /\ GotReply(c)'
    <3>1. CASE ~Straight
      <4>1. \E j \in DOMAIN sent : j <= Len(replies) /\ sent[j] = "body"
        BY <2>1, <3>1 DEF Straight
      <4> QED BY <1>1, <2>1, <2>2, <4>1
    <3>2. CASE Straight
      <4>1. /\ c \in DOMAIN sent /\ Answerable(c)
            /\ sent[c] # "body" => replies' = Append(replies, Reply(sent[c]))
        BY <1>4, <2>1, <2>2, <3>2, NewReply
      <4>2. CASE sent[c] = "body"
        BY <1>1, <2>1, <4>1, <4>2
      <4>3. CASE sent[c] # "body"
        <5>1. replies' = Append(replies, Reply(sent[c]))
          BY <4>1, <4>3
        <5>2. replies'[c] = Reply(sent[c])
          <6>1. replies \in Seq(ReplyType)
            BY DEF CallInv, ReplyType
          <6> DEFINE reply == Reply(sent[c])
          <6>2. replies' = Append(replies, reply) /\ reply \in ReplyType
            <7>1. sent[c] \in Kinds
              BY <4>1, ElementOfSeq, LenProperties DEF WireInv
            <7> QED BY <5>1, <7>1, ReplyTypes
          <6> HIDE DEF reply
          <6>3. replies'[c] = reply
            <7>1. Append(replies, reply)[Len(replies) + 1] = reply
              BY <6>1, <6>2, AppendProperties
            <7>2. c = Len(replies) + 1
              BY <2>2
            <7> QED BY <6>2, <7>1, <7>2
          <6> QED BY <6>3 DEF reply
        <5>3. c \in DOMAIN replies'
          BY <1>1, <2>2, <2>4
        <5> QED BY <2>1, <4>1, <5>2, <5>3 DEF Answerable, GotReply
      <4> QED BY <4>2, <4>3
    <3> QED BY <3>1, <3>2
  <2>6. \A i \in DOMAIN replies' : i \in 1 .. Len(replies) \/ i = c
    BY <1>1, <2>2, <2>4
  <2> QED BY <1>2, <2>5, <2>6 DEF CutsDoNotMatter
<1> QED BY <1>3, <1>4

-----------------------------------------------------------------------------
(* Prompt answers.                                                          *)

(* The requests read are those in front of where the unread stream starts.  *)
LEMMA ReadFacts ==
  ASSUME WireInv
  PROVE  /\ Read \in Int /\ Read <= Len(sent)
         /\ \E i \in Nat : \E j : StartsAt(arrived, sent, at, i, j)
         /\ \A i \in Nat : \A j : StartsAt(arrived, sent, at, i, j) => Read = i - 1
<1>1. /\ Len(sent) \in Nat
      /\ NextOf(sent, at) = IF AllSent THEN Len(sent) + 1 ELSE Len(sent)
  BY SentFacts
<1>2. CASE arrived = <<>>
  <2>1. Read = NextOf(sent, at) - 1 /\ NextOf(sent, at) \in Nat
    BY <1>1, <1>2 DEF Read
  <2>2. StartsAt(arrived, sent, at, NextOf(sent, at), NextAt(sent, at))
    BY <1>2 DEF StartsAt
  <2>3. \A i \in Nat : \A j : StartsAt(arrived, sent, at, i, j) => i = NextOf(sent, at)
    BY <1>2 DEF StartsAt
  <2>4. Read <= Len(sent)
    BY <1>1, <2>1
  <2> QED BY <1>1, <2>1, <2>2, <2>3, <2>4
<1>3. CASE arrived # <<>>
  <2>1. arrived[1] \in Tokens(sent)
    <3>1. 1 \in 1 .. Len(arrived)
      BY <1>3, EmptySeq, LenProperties DEF WireInv
    <3> QED BY <3>1, ElementOfSeq DEF WireInv
  <2>2. arrived[1].of \in 1 .. Len(sent)
    BY <2>1, TokenFacts
  <2>3. Read = arrived[1].of - 1
    BY <1>3 DEF Read
  <2>4. StartsAt(arrived, sent, at, arrived[1].of, arrived[1].at)
    BY <1>3 DEF StartsAt
  <2>5. \A i \in Nat : \A j : StartsAt(arrived, sent, at, i, j) => i = arrived[1].of
    BY <1>3 DEF StartsAt
  <2> QED BY <1>1, <2>2, <2>3, <2>4, <2>5
<1> QED BY <1>2, <1>3

(* The same, of every state.                                                *)
LEMMA ReadNow ==
  WireInv => \A x \in Nat : \A y : StartsAt(arrived, sent, at, x, y) => Read = x - 1
BY ReadFacts

(* All there is of the last request begins with a line and its CRLF.        *)
LEMMA HasLine ==
  ASSUME WireInv, pc # "idle", AllSent, NEW c \in Nat, Len(sent) = c,
         NEW j \in Nat, Starts(c, j), NEW m, IsNext(j, m),
         \/ Text(sent[c])[j] = CRLF
         \/ j # Len(Text(sent[c])) /\ Text(sent[c])[m] = CRLF
  PROVE  HasCRLF(inputBuffer_)
<1>1. Stream = inputBuffer_ /\ Linked(inputBuffer_, sent)
  BY BufferIsStream DEF WireInv
<1>2. inputBuffer_ \in Seq(Tokens(sent)) /\ Len(inputBuffer_) \in Nat
      /\ DOMAIN inputBuffer_ = 1 .. Len(inputBuffer_)
  BY LenProperties DEF WireInv
<1>3. inputBuffer_ # <<>>
  <2>1. NextOf(sent, at) = c + 1
    BY SentFacts
  <2>2. c + 1 # c
    OBVIOUS
  <2> QED BY <1>1, <2>1, <2>2 DEF Starts, StartsAt
<1>4. 1 \in 1 .. Len(inputBuffer_) /\ Len(inputBuffer_) # 0
  BY <1>2, <1>3, EmptySeq
<1>5. inputBuffer_[1].of = c /\ inputBuffer_[1].at = j
  BY <1>1, <1>3 DEF Starts, StartsAt
<1>6. inputBuffer_[1].word = Text(sent[c])[j]
  <2>1. inputBuffer_[1] \in Tokens(sent)
    BY <1>2, <1>4, ElementOfSeq
  <2> QED BY <1>5, <2>1, TokenFacts
<1>7. CASE Text(sent[c])[j] = CRLF
  BY <1>2, <1>4, <1>6, <1>7 DEF HasCRLF
<1>8. CASE j # Len(Text(sent[c])) /\ Text(sent[c])[m] = CRLF
  <2>1. inputBuffer_[Len(inputBuffer_)].at = Len(Text(sent[c]))
    <3>1. sent # <<>>
      <4>1. inputBuffer_[1] \in Tokens(sent)
        BY <1>2, <1>4, ElementOfSeq
      <4>2. c \in 1 .. Len(sent)
        BY <1>5, <4>1, TokenFacts
      <4> QED BY <4>2, SentFacts
    <3>2. at = Len(Text(sent[c]))
      BY <3>1, SentFacts
    <3> QED BY <1>1, <1>3, <3>2 DEF WireInv
  <2>2. Len(inputBuffer_) # 1
    BY <1>5, <1>8, <2>1
  <2>3. 2 <= Len(inputBuffer_)
    BY <1>2, <1>4, <2>2
  <2>4. inputBuffer_[2].word = Text(sent[c])[m]
    BY <1>1, <1>5, <1>8, <2>3, Second DEF IsNext
  <2>5. 2 \in DOMAIN inputBuffer_
    BY <1>2, <2>3
  <2> QED BY <1>8, <2>4, <2>5 DEF HasCRLF
<1> QED BY <1>7, <1>8

(* All there is of a body is its bytes.                                     *)
LEMMA BodyThere ==
  ASSUME WireInv, pc # "idle", AllSent, NEW c \in Nat, Len(sent) = c,
         c \in DOMAIN sent, sent[c] = "body", Starts(c, 6)
  PROVE  Len(inputBuffer_) = BodyLen /\ Words(inputBuffer_, BodyLen) = Bytes
<1>1. Stream = inputBuffer_ /\ Linked(inputBuffer_, sent)
  BY BufferIsStream DEF WireInv
<1>2. inputBuffer_ \in Seq(Tokens(sent)) /\ Len(inputBuffer_) \in Nat
  BY LenProperties DEF WireInv
<1>3. inputBuffer_ # <<>>
  <2>1. NextOf(sent, at) = c + 1
    BY SentFacts
  <2>2. c + 1 # c
    OBVIOUS
  <2> QED BY <1>1, <2>1, <2>2 DEF Starts, StartsAt
<1> DEFINE n == Len(inputBuffer_)
<1>4. 1 \in 1 .. n /\ n \in 1 .. n
  BY <1>2, <1>3, EmptySeq
<1>5. inputBuffer_[1].of = c /\ inputBuffer_[1].at = 6
  BY <1>1, <1>3 DEF Starts, StartsAt
<1>6. c \in 1 .. Len(sent) /\ sent # <<>> /\ "body" \in Kinds /\ BodyLen \in Nat
  BY SentFacts, LenProperties, KindsAre, HttpContextAssumption DEF WireInv
<1>7. /\ Len(Text("body")) = 5 + BodyLen
      /\ \A i \in 6 .. 5 + BodyLen : Text("body")[i] = Byte
  BY <1>6, TextFacts, KindsAre
<1>8. inputBuffer_[n].of = c /\ inputBuffer_[n].at = 5 + BodyLen
  BY <1>1, <1>3, <1>6, <1>7, SentFacts DEF WireInv
<1>9. n = BodyLen
  <2>1. Behind(inputBuffer_[1], inputBuffer_[n], n - 1)
    BY <1>1, <1>2, <1>4 DEF Linked
  <2>2. 5 + BodyLen = 6 + (n - 1)
    BY <1>5, <1>8, <2>1 DEF Behind
  <2> QED BY <1>2, <1>6, <2>2
<1>10. ASSUME NEW x \in 1 .. BodyLen PROVE inputBuffer_[x].word = Byte
  <2>1. x \in 1 .. n /\ 1 <= x
    BY <1>9
  <2>2. Behind(inputBuffer_[1], inputBuffer_[x], x - 1)
    BY <1>1, <1>4, <2>1 DEF Linked
  <2>3. inputBuffer_[x] \in Tokens(sent)
    BY <1>2, <2>1, ElementOfSeq
  <2>4. inputBuffer_[x].of \in 1 .. c /\ inputBuffer_[x].word = Text(sent[inputBuffer_[x].of])[inputBuffer_[x].at]
    BY <2>3, TokenFacts
  <2>5. inputBuffer_[x].of = c
    BY <1>5, <2>2, <2>4 DEF Behind
  <2>6. inputBuffer_[x].at = 6 + (x - 1)
    BY <1>5, <2>2, <2>5 DEF Behind
  <2>7. inputBuffer_[x].at \in 6 .. 5 + BodyLen
    BY <1>6, <2>6
  <2> QED BY <1>7, <2>4, <2>5, <2>7
<1>11. Words(inputBuffer_, BodyLen) = [i \in 1 .. BodyLen |-> Byte]
  BY <1>10 DEF Words
<1> QED BY <1>9, <1>11 DEF Bytes

(* Nothing is behind the last request.                                      *)
LEMMA NothingBehind ==
  ASSUME WireInv, NEW c \in Nat, Len(sent) = c, Starts(c + 1, 1)
  PROVE  Stream = <<>> /\ AllSent
<1>1. Stream = <<>>
  <2> SUFFICES ASSUME Stream # <<>> PROVE FALSE
    OBVIOUS
  <2>1. Stream \in Seq(Tokens(sent))
    BY DEF WireInv, Linked
  <2>2. Stream[1] \in Tokens(sent)
    <3>1. 1 \in 1 .. Len(Stream)
      BY <2>1, EmptySeq, LenProperties
    <3> QED BY <2>1, <3>1, ElementOfSeq
  <2>3. Stream[1].of \in 1 .. c
    BY <2>2, TokenFacts
  <2>4. Stream[1].of = c + 1
    BY DEF Starts, StartsAt
  <2> QED BY <2>3, <2>4
<1>2. NextOf(sent, at) = c + 1
  BY <1>1 DEF Starts, StartsAt
<1>3. AllSent
  <2>1. c + 1 # c
    OBVIOUS
  <2> QED BY <1>2, <2>1, SentFacts
<1> QED BY <1>1, <1>3

(* A read that stays in one request brings only what belongs to the last    *)
(* request begun.                                                           *)
LEMMA PieceFacts ==
  ASSUME WireInv, HandleRead, pieces' # "crossing"
  PROVE  /\ pieces # "crossing" /\ Len(sent) = Read + 1
         /\ pieces' = "whole" => pieces = "whole" /\ AllSent
<1>1. arrived # <<>> /\ pieces # "crossing" /\ Piece(arrived) # "crossing"
      /\ (pieces' = "whole" => pieces = "whole" /\ Piece(arrived) = "whole")
  BY DEF HandleRead, WireInv, Piece
<1>2. arrived \in Seq(Tokens(sent)) /\ inputBuffer_ \in Seq(Tokens(sent))
      /\ Len(arrived) \in Nat /\ Len(inputBuffer_) \in Nat
  BY LenProperties DEF WireInv
<1>3. Len(arrived) \in 1 .. Len(arrived)
  BY <1>1, <1>2, EmptySeq
<1>4. Stream # <<>> /\ Stream[Len(Stream)] = arrived[Len(arrived)]
  <2>1. /\ Len(Stream) = Len(inputBuffer_) + Len(arrived)
        /\ \A i \in 1 .. Len(inputBuffer_) + Len(arrived) :
             Stream[i] = IF i <= Len(inputBuffer_) THEN inputBuffer_[i]
                         ELSE arrived[i - Len(inputBuffer_)]
    BY <1>2, ConcatProperties DEF Stream
  <2>2. \A a \in Nat : \A l \in Nat : l \in 1 .. l =>
          a + l \in 1 .. a + l /\ ~(a + l <= a) /\ (a + l) - a = l /\ a + l # 0
    OBVIOUS
  <2>3. /\ Len(Stream) \in 1 .. Len(inputBuffer_) + Len(arrived)
        /\ ~(Len(Stream) <= Len(inputBuffer_))
        /\ Len(Stream) - Len(inputBuffer_) = Len(arrived) /\ Len(Stream) # 0
    BY <1>2, <1>3, <2>1, <2>2
  <2> QED BY <2>1, <2>3
<1>5. arrived[Len(arrived)].of = Len(sent) /\ arrived[Len(arrived)].at = at
  BY <1>4 DEF WireInv
<1>6. arrived[1].of = arrived[Len(arrived)].of
  BY <1>1 DEF Piece
<1>7. Read = Len(sent) - 1 /\ Len(sent) \in Nat
  BY <1>1, <1>5, <1>6, SentFacts DEF Read
<1>8. ASSUME Piece(arrived) = "whole" PROVE AllSent
  <2>1. at = Len(Text(sent[Len(sent)]))
    BY <1>5, <1>6, <1>8 DEF Piece
  <2>2. sent # <<>>
    <3>1. arrived[Len(arrived)] \in Tokens(sent)
      BY <1>2, <1>3, ElementOfSeq
    <3>2. Len(sent) \in 1 .. Len(sent)
      BY <1>5, <3>1, TokenFacts
    <3> QED BY <3>2, SentFacts
  <2> QED BY <2>1, <2>2, SentFacts
<1> QED BY <1>1, <1>7, <1>8

(* Turns that find nothing more to parse: not for want of bytes that were   *)
(* sent and read.                                                           *)
LEMMA MoreToCome ==
  ASSUME WireInv, CallInv, ParserInv, WholeInv, Straight, Prompt,
         pc = "parse", Len(sent) = Cur,
         \/ ParseRequestLine /\ ~HasCRLF(inputBuffer_)
         \/ ParseHeader /\ ~HasCRLF(inputBuffer_)
         \/ ParseBody /\ Len(inputBuffer_) < body_lenth
  PROVE  ~AllSent
<1> SUFFICES ASSUME AllSent PROVE FALSE
  OBVIOUS
<1>1. PICK c \in Nat : c = Cur
  BY LenProperties DEF Cur, CallInv
<1>2. Place /\ Len(sent) = c /\ pc # "idle" /\ pc # "failed"
  BY <1>1 DEF ParserInv
<1>3. c \in 1 .. Len(sent) /\ sent[c] \in Kinds /\ DOMAIN sent = 1 .. Len(sent)
      /\ Len(Text(sent[c])) \in Nat /\ Len(Text(sent[c])) >= 3
  <2>1. Len(replies) \in Nat
    BY LenProperties DEF CallInv
  <2>2. c \in 1 .. Len(sent)
    BY <1>1, <1>2, <2>1 DEF Cur
  <2> QED BY <2>2, SentFacts, LenProperties DEF WireInv
<1>4. \A n \in Nat : (n >= 3 => n # 1) /\ (n >= 5 => n # 3)
  OBVIOUS
<1>5. IsNext(1, 2) /\ IsNext(3, 4) /\ IsNext(5, 6)
  BY DEF IsNext
<1>6. ASSUME NEW j \in Nat, NEW m, Starts(c, j), IsNext(j, m),
             \/ Text(sent[c])[j] = CRLF
             \/ j # Len(Text(sent[c])) /\ Text(sent[c])[m] = CRLF
      PROVE  HasCRLF(inputBuffer_)
  BY <1>2, <1>6, HasLine
<1>7. CASE ParseRequestLine /\ ~HasCRLF(inputBuffer_)
  <2>1. Starts(c, 1)
    BY <1>1, <1>2, <1>7 DEF ParseRequestLine, Turn, Place
  <2>2. Text(sent[c])[2] = CRLF /\ 1 # Len(Text(sent[c]))
    BY <1>3, <1>4, TextFacts
  <2> QED BY <1>5, <1>6, <1>7, <2>1, <2>2
<1>8. CASE ParseHeader /\ ~HasCRLF(inputBuffer_)
  <2>1. \/ Starts(c, 3)
        \/ sent[c] \in DOMAIN Header /\ Starts(c, 5)
    BY <1>1, <1>2, <1>8 DEF ParseHeader, Turn, Place, Kind
  <2>2. CASE Starts(c, 3) /\ sent[c] \notin DOMAIN Header
    <3>1. Text(sent[c])[3] = CRLF
      BY <1>3, <2>2, TextFacts
    <3> QED BY <1>5, <1>6, <1>8, <2>2, <3>1
  <2>3. CASE sent[c] \in DOMAIN Header
    <3>1. /\ Text(sent[c])[4] = CRLF /\ Text(sent[c])[5] = CRLF
          /\ Len(Text(sent[c])) >= 5
      BY <1>3, <2>3, TextFacts, HttpContextAssumption
    <3>2. 3 # Len(Text(sent[c]))
      BY <1>3, <1>4, <3>1
    <3> QED BY <1>5, <1>6, <1>8, <2>1, <3>1, <3>2
  <2> QED BY <2>1, <2>2, <2>3
<1>9. CASE ParseBody /\ Len(inputBuffer_) < body_lenth
  <2>1. parseState_ = "kExpectBody"
    BY <1>9 DEF ParseBody, Turn
  <2>2. sent[c] = "body" /\ Starts(c, 6)
    BY <1>1, <1>2, <2>1 DEF Place, Kind
  <2>3. pieces = "whole"
    BY <1>1, <1>3, <2>2 DEF Prompt, Kind
  <2>4. body_lenth = BodyLen
    BY <2>1, <2>3 DEF WholeInv
  <2>5. Len(inputBuffer_) = BodyLen
    BY <1>2, <1>3, <2>2, BodyThere
  <2> QED BY <1>9, <2>4, <2>5, HttpContextAssumption
<1> QED BY <1>7, <1>8, <1>9

(* Reading requests one at a time, the parser is at the last one begun, and *)
(* nothing of it waits.                                                     *)
LEMMA PromptStep ==
  ASSUME WireInv, CallInv, ParserInv, PromptInv, WholeInv, ParserNext
  PROVE  PromptInv'
<1> SUFFICES ASSUME Straight', Prompt'
             PROVE  (/\ pc = "idle" => Read = Len(replies)
                     /\ pc # "idle" => Len(sent) = Cur
                     /\ pc = "parsed" /\ parseState_ # "kGotAll" => ~AllSent)'
  BY DEF PromptInv
<1>1. /\ \A j \in 1 .. Len(sent) : j \in 1 .. Len(sent') /\ sent'[j] = sent[j]
      /\ DOMAIN sent = 1 .. Len(sent) /\ DOMAIN sent' = 1 .. Len(sent')
      /\ Len(replies) \in Nat /\ Len(sent) \in Nat
      /\ Straight
  BY Growth
<1>2. PICK c \in Nat : c = Cur /\ c = Len(replies) + 1
  BY <1>1 DEF Cur
<1>3. WireInv' /\ ParserInv'
  BY WireStep, ParserStep
<1>4. ASSUME replies' = replies, pieces' = pieces
      PROVE  Prompt
  <2>1. Cur' = c
    BY <1>2, <1>4 DEF Cur
  <2> QED BY <1>1, <1>2, <1>4, <2>1 DEF Prompt, Kind
<1>5. CASE Arrive
  <2>1. Prompt /\ pc = "idle" /\ pc' = "idle" /\ replies' = replies
    BY <1>4, <1>5 DEF Arrive
  <2>2. Read = Len(replies)
    BY <1>1, <2>1 DEF PromptInv
  <2>3. PICK i \in Nat : \E j : StartsAt(arrived, sent, at, i, j)
    BY ReadFacts
  <2>4. PICK j : StartsAt(arrived, sent, at, i, j)
    BY <2>3
  <2>5. StartsAt(arrived, sent, at, i, j)'
    BY <1>5, <2>4, WireArrive
  <2>6. Read = i - 1
    BY <2>4, ReadFacts
  <2>7. Read' = i - 1
    <3>1. (\A x \in Nat : \A y : StartsAt(arrived, sent, at, x, y) => Read = x - 1)'
      BY <1>3, ReadNow, PTL
    <3> QED BY <2>5, <3>1
  <2> QED BY <2>1, <2>2, <2>6, <2>7
<1>6. CASE HandleRead
  <2>1. pc = "idle" /\ pc' = "parse" /\ sent' = sent /\ replies' = replies
    BY <1>6 DEF HandleRead
  <2>2. pieces' # "crossing"
    BY DEF Prompt
  <2>3. pieces # "crossing" /\ Len(sent) = Read + 1 /\ (pieces' = "whole" => pieces = "whole")
    BY <1>6, <2>2, PieceFacts
  <2>4. Prompt
    <3>1. Cur' = c
      BY <1>2, <2>1 DEF Cur
    <3>2. pieces \in {"whole", "single"}
      BY <2>3 DEF WireInv
    <3> QED BY <1>1, <1>2, <2>1, <2>3, <3>1, <3>2 DEF Prompt, Kind
  <2>5. Read = Len(replies)
    BY <1>1, <2>1, <2>4 DEF PromptInv
  <2>6. Len(sent') = Cur'
    BY <1>1, <2>1, <2>3, <2>5 DEF Cur
  <2> QED BY <2>1, <2>6
<1>7. CASE ParseRequestLine \/ ParseHeader \/ ParseBody
  <2>1. UNCHANGED <<wireVars, replies, shutdown>> /\ pc = "parse"
    BY <1>7 DEF ParseRequestLine, ParseHeader, ParseBody, Turn
  <2>2. Prompt /\ sent' = sent /\ at' = at
    BY <1>4, <2>1 DEF wireVars
  <2>3. Len(sent) = Cur
    BY <1>1, <2>1, <2>2 DEF PromptInv
  <2>4. Len(sent') = Cur' /\ pc' # "idle" /\ (AllSent' <=> AllSent)
    BY <1>7, <2>1, <2>2, <2>3 DEF Cur, AllSent, ParseRequestLine, ParseHeader, ParseBody,
       NeedMore, TakeRequestLine, TakeHeader, EndOfHeaders
  <2>5. pc' = "parsed" /\ parseState_' # "kGotAll" => ~AllSent
    <3>1. ASSUME pc' = "parsed", parseState_' # "kGotAll"
          PROVE  \/ ParseRequestLine /\ ~HasCRLF(inputBuffer_)
                 \/ ParseHeader /\ ~HasCRLF(inputBuffer_)
                 \/ ParseBody /\ Len(inputBuffer_) < body_lenth
      BY <1>7, <2>1, <3>1 DEF ParseRequestLine, ParseHeader, ParseBody, TakeRequestLine,
         TakeHeader, EndOfHeaders
    <3> QED BY <1>1, <2>1, <2>2, <2>3, <3>1, MoreToCome
  <2> QED BY <2>4, <2>5
<1>8. CASE OnMessage
  <2>1. /\ sent' = sent /\ at' = at /\ arrived' = arrived /\ arrived = <<>>
        /\ pieces' = pieces /\ pc # "idle" /\ pc' = "idle"
    BY <1>8 DEF OnMessage, wireVars, WireInv
  <2>2. CASE replies' = replies
    <3>1. Prompt
      BY <1>4, <2>1, <2>2
    <3>2. Len(sent) = Cur /\ (pc = "parsed" /\ parseState_ # "kGotAll" => ~AllSent)
      BY <1>1, <2>1, <3>1 DEF PromptInv
    <3>3. pc = "parsed" /\ parseState_ # "kGotAll"
      <4>1. ~shutdown /\ ~shutdown' /\ replies \in Seq(ReplyType)
        BY <1>1 DEF Straight, CallInv, ReplyType
      <4>2. \A reply : Append(replies, reply) # replies
        <5>1. \A reply : Len(Append(replies, reply)) = Len(replies) + 1
          BY <4>1
        <5>2. Len(replies) + 1 # Len(replies)
          BY <1>1
        <5> QED BY <5>1, <5>2
      <4> QED BY <1>8, <2>2, <4>1, <4>2 DEF OnMessage, OnRequest, Send
    <3>4. AllSent' <=> AllSent
      BY <2>1 DEF AllSent
    <3>5. Read' = Len(sent) - 1
      BY <2>1, <3>2, <3>3, <3>4 DEF Read
    <3> QED BY <1>1, <1>2, <2>1, <2>2, <3>2, <3>5
  <2>3. CASE replies' # replies
    <3>1. pc = "parsed" /\ parseState_ = "kGotAll" /\ OnRequest(request_) /\ parseState_' = "kExpectRequestLine"
      BY <1>8, <2>3 DEF OnMessage, Straight, Reset
    <3>2. Len(replies') = c
      <4>1. \E forbidden \in BOOLEAN :
             LET response == Response(request_, forbidden)
                 reply == [status |-> response.status, framed |-> ~response.close,
                           got |-> request_.body]
             IN replies' = IF shutdown THEN replies ELSE Append(replies, reply)
        BY <3>1, OnRequestFacts DEF CallInv
      <4>2. PICK reply : replies' = Append(replies, reply)
        BY <2>3, <4>1
      <4> QED BY <1>1, <1>2, <4>2 DEF CallInv
    <3>3. Cur' = c + 1 /\ Starts(c + 1, 1)' /\ c <= Len(sent)
      <4>1. Place' /\ c <= Len(sent)
        BY <1>3, <2>1, <3>2 DEF ParserInv
      <4>2. Cur' = c + 1
        BY <3>2 DEF Cur
      <4>3. Starts(c + 1, 1)'
        BY <3>1, <4>1, <4>2 DEF Place
      <4> QED BY <4>1, <4>2, <4>3
    <3>4. sent[c] # "body"
      <4>1. c \in DOMAIN sent'
        BY <1>1, <1>2, <2>1, <3>3
      <4> QED BY <2>1, <3>2, <4>1 DEF Straight
    <3>5. Prompt
      BY <1>1, <1>2, <2>1, <3>4 DEF Prompt, Kind
    <3>6. Len(sent) = c
      BY <1>1, <1>2, <2>1, <3>5 DEF PromptInv
    <3>7. AllSent'
      <4>1. (WireInv /\ Len(sent) = c /\ Starts(c + 1, 1))'
        BY <1>3, <2>1, <3>3, <3>6
      <4>2. (WireInv /\ Len(sent) = c /\ Starts(c + 1, 1) => AllSent)'
        BY NothingBehind, PTL
      <4> QED BY <4>1, <4>2
    <3>8. Read' = Len(replies')
      BY <2>1, <3>2, <3>6, <3>7 DEF Read
    <3> QED BY <2>1, <3>8
  <2> QED BY <2>2, <2>3
<1> QED BY <1>5, <1>6, <1>7, <1>8 DEF ParserNext

(* Reading whole requests, nothing is left of one when the next is read.    *)
LEMMA WholeNow ==
  ASSUME WireInv, CallInv, ParserInv, PromptInv, WholeInv, ParserNext,
         Straight', pieces' = "whole"
  PROVE  (/\ pc = "idle" => parseState_ = "kExpectRequestLine" /\ inputBuffer_ = <<>>
          /\ pc # "idle" => AllSent
          /\ parseState_ = "kExpectBody" => body_lenth = BodyLen
          /\ parseState_ = "kGotAll" /\ Kind = "body" => request_.body = Bytes)'
<1>1. /\ DOMAIN sent = 1 .. Len(sent) /\ DOMAIN replies = 1 .. Len(replies)
      /\ Len(replies) \in Nat /\ Len(sent) \in Nat
      /\ Straight
  BY Growth
<1>2. PICK c \in Nat : c = Cur /\ c = Len(replies) + 1
  BY <1>1 DEF Cur
<1>3. WireInv' /\ ParserInv' /\ CallInv'
  BY WireStep, ParserStep, CallStep
<1>4. pieces = "whole"
  BY PieceFacts DEF ParserNext, Arrive, HandleRead, ParseRequestLine, ParseHeader, ParseBody,
     Turn, OnMessage, wireVars
<1>5. /\ pc = "idle" => parseState_ = "kExpectRequestLine" /\ inputBuffer_ = <<>>
      /\ pc # "idle" => AllSent
      /\ parseState_ = "kExpectBody" => body_lenth = BodyLen
      /\ parseState_ = "kGotAll" /\ Kind = "body" => request_.body = Bytes
  BY <1>1, <1>4 DEF WholeInv
<1>6. /\ pc # "idle" => Len(sent) = c
      /\ pc = "parsed" /\ parseState_ # "kGotAll" => ~AllSent
      /\ Place
  BY <1>1, <1>2, <1>4 DEF PromptInv, Prompt, ParserInv
<1>7. CASE Arrive
  BY <1>5, <1>7 DEF Arrive
<1>8. CASE HandleRead
  <2>1. pc = "idle" /\ pc' = "parse" /\ parseState_' = parseState_
        /\ sent' = sent /\ at' = at
    BY <1>8 DEF HandleRead
  <2>2. AllSent
    BY <1>8, PieceFacts
  <2>3. AllSent' <=> AllSent
    BY <2>1 DEF AllSent
  <2> QED BY <1>5, <2>1, <2>2, <2>3
<1>9. CASE ParseRequestLine \/ ParseHeader \/ ParseBody
  <2>1. UNCHANGED <<wireVars, replies, shutdown>> /\ pc = "parse" /\ pc' # "idle"
        /\ sent' = sent /\ at' = at /\ Cur' = c /\ Kind' = Kind
    BY <1>2, <1>9 DEF ParseRequestLine, ParseHeader, ParseBody, Turn, wireVars, Cur, Kind,
       NeedMore, TakeRequestLine, TakeHeader, EndOfHeaders
  <2>2. AllSent /\ (AllSent' <=> AllSent)
    BY <1>5, <2>1 DEF AllSent
  <2>3. CASE ParseRequestLine
    <3>1. parseState_' \in {"kExpectRequestLine", "kExpectHeaders"}
      BY <2>3 DEF ParseRequestLine, Turn, NeedMore, TakeRequestLine
    <3> QED BY <2>1, <2>2, <3>1
  <2>4. CASE ParseHeader
    <3>1. /\ parseState_ = "kExpectHeaders"
          /\ \/ parseState_' = "kExpectHeaders"
             \/ parseState_' = "kExpectBody" /\ body_lenth' = BodyLen
             \/ parseState_' = "kGotAll"
      BY <2>4 DEF ParseHeader, Turn, NeedMore, TakeHeader, EndOfHeaders
    <3>2. parseState_' = "kGotAll" => Kind # "body"
      <4>1. CASE ~HasCRLF(inputBuffer_) /\ NeedMore
        BY <3>1, <4>1 DEF NeedMore
      <4>2. ASSUME NEW crlf \in DOMAIN inputBuffer_, FindCRLF(inputBuffer_, crlf), TakeHeader(crlf)
            PROVE  parseState_' = "kGotAll" => Kind # "body"
        <5>1. /\ c \in 1 .. Len(sent) /\ sent[c] # "bad"
              /\ \/ request_ = LineRead(sent[c]) /\ Starts(c, 3)
                 \/ /\ sent[c] \in DOMAIN Header
                    /\ request_ = HeadersRead(sent[c]) /\ Starts(c, 5)
          BY <1>1, <1>2, <1>6, <3>1 DEF Place, Kind
        <5>2. \/ parseState_' = parseState_
              \/ sent[c] # "body"
              \/ parseState_' = "kExpectBody"
          BY <2>1, <3>1, <4>2, <5>1, HeaderTaken
        <5> QED BY <1>2, <3>1, <5>2 DEF Kind
      <4> QED BY <2>4, <4>1, <4>2 DEF ParseHeader
    <3> QED BY <2>1, <2>2, <3>1, <3>2
  <2>5. CASE ParseBody
    <3>1. parseState_ = "kExpectBody" /\ body_lenth = BodyLen
      BY <1>5, <2>5 DEF ParseBody, Turn
    <3>2. CASE NeedMore
      BY <2>1, <2>2, <3>1, <3>2 DEF NeedMore
    <3>3. CASE /\ request_' = [request_ EXCEPT !.body = Words(inputBuffer_, body_lenth)]
               /\ parseState_' = "kGotAll"
      <4>1. c \in DOMAIN sent /\ sent[c] = "body" /\ Starts(c, 6)
        BY <1>2, <1>6, <3>1 DEF Place, Kind
      <4>2. Words(inputBuffer_, body_lenth) = Bytes
        BY <1>6, <2>1, <2>2, <3>1, <4>1, BodyThere
      <4>3. request_'.body = Words(inputBuffer_, body_lenth)
        BY <3>3 DEF CallInv, Requests
      <4> QED BY <2>1, <2>2, <3>3, <4>2, <4>3
    <3> QED BY <2>5, <3>2, <3>3 DEF ParseBody
  <2> QED BY <1>9, <2>3, <2>4, <2>5
<1>10. CASE OnMessage
  <2>1. /\ sent' = sent /\ inputBuffer_' = inputBuffer_ /\ arrived' = <<>> /\ pc # "idle" /\ pc' = "idle"
    BY <1>10 DEF OnMessage, wireVars, WireInv
  <2>2. CASE pc = "failed"
    BY <1>3, <1>10, <2>2 DEF OnMessage, Straight
  <2>3. CASE pc = "parsed" /\ parseState_ # "kGotAll"
    BY <1>5, <1>6, <2>3
  <2>4. CASE pc = "parsed" /\ parseState_ = "kGotAll" /\ OnRequest(request_) /\ Reset
    <3>1. parseState_' = "kExpectRequestLine"
      BY <2>4 DEF Reset
    <3>2. Len(replies') = c
      <4>1. \E forbidden \in BOOLEAN :
             LET response == Response(request_, forbidden)
                 reply == [status |-> response.status, framed |-> ~response.close,
                           got |-> request_.body]
             IN replies' = IF shutdown THEN replies ELSE Append(replies, reply)
        BY <2>4, OnRequestFacts DEF CallInv
      <4>2. PICK reply : replies' = Append(replies, reply)
        BY <1>1, <4>1 DEF Straight
      <4> QED BY <1>1, <1>2, <4>2 DEF CallInv
    <3>3. Starts(c + 1, 1)'
      <4>1. Place'
        BY <1>3 DEF ParserInv
      <4>2. Cur' = c + 1
        BY <3>2 DEF Cur
      <4> QED BY <3>1, <4>1, <4>2 DEF Place
    <3>4. Stream' = <<>>
      <4>1. (WireInv /\ Len(sent) = c /\ Starts(c + 1, 1))'
        BY <1>3, <1>6, <2>1, <3>3
      <4>2. (WireInv /\ Len(sent) = c /\ Starts(c + 1, 1) => Stream = <<>>)'
        BY NothingBehind, PTL
      <4> QED BY <4>1, <4>2
    <3>5. inputBuffer_' = <<>>
      <4>1. inputBuffer_' \in Seq(Tokens(sent'))
        BY <1>3 DEF WireInv
      <4>2. inputBuffer_' \o <<>> = inputBuffer_'
        BY <4>1, ConcatEmptySeq
      <4> QED BY <2>1, <3>4, <4>2 DEF Stream
    <3> QED BY <2>1, <3>1, <3>5
  <2> QED BY <1>10, <2>2, <2>3, <2>4 DEF OnMessage
<1> QED BY <1>7, <1>8, <1>9, <1>10 DEF ParserNext

(* Reading whole requests, the first body is given over as it was sent.     *)
LEMMA WholeStep ==
  ASSUME WireInv, CallInv, ParserInv, PromptInv, WholeInv, CutsDoNotMatter, RepliesFramed,
         ParserNext
  PROVE  WholeInv'
<1>1. ASSUME Straight', pieces' = "whole"
      PROVE  (/\ pc = "idle" => parseState_ = "kExpectRequestLine" /\ inputBuffer_ = <<>>
              /\ pc # "idle" => AllSent
              /\ parseState_ = "kExpectBody" => body_lenth = BodyLen
              /\ parseState_ = "kGotAll" /\ Kind = "body" => request_.body = Bytes)'
  BY <1>1, WholeNow
<1>2. ASSUME pieces' = "whole", NEW i \in DOMAIN replies', i \in DOMAIN sent', Answerable(i)'
      PROVE  GotReply(i)'
  <2>1. /\ \A j \in 1 .. Len(sent) : j \in 1 .. Len(sent') /\ sent'[j] = sent[j]
        /\ DOMAIN sent = 1 .. Len(sent) /\ DOMAIN sent' = 1 .. Len(sent')
        /\ DOMAIN replies = 1 .. Len(replies) /\ DOMAIN replies' = 1 .. Len(replies')
        /\ Len(replies) \in Nat /\ Len(replies') \in Nat
        /\ Len(sent) \in Nat /\ Len(sent') \in Nat
        /\ \A j \in 1 .. Len(replies) : replies'[j] = replies[j]
        /\ shutdown => replies' = replies
        /\ replies' # replies => OnMessage
    BY Growth
  <2>2. pieces = "whole"
    BY <1>2, PieceFacts DEF ParserNext, Arrive, HandleRead, ParseRequestLine, ParseHeader, ParseBody,
       Turn, OnMessage, wireVars
  <2>3. \A j \in 1 .. i - 1 : ~Closes(sent'[j]) /\ sent'[j] # "body"
    BY <1>2 DEF Answerable
  <2>4. i \in 1 .. Len(sent') /\ i \in 1 .. Len(replies')
    BY <1>2, <2>1
  <2>5. CASE i \in 1 .. Len(replies)
    <3>1. ASSUME NEW j \in DOMAIN sent, j <= i, sent[j] = "body", i \notin DOMAIN sent
          PROVE  FALSE
      <4>1. j \in 1 .. i - 1
        BY <2>1, <2>4, <3>1
      <4> QED BY <2>1, <2>3, <3>1, <4>1
    <3>2. i \in DOMAIN sent
      BY <2>1, <2>5, <3>1 DEF CutsDoNotMatter
    <3>3. \A j \in 1 .. i - 1 : j \in 1 .. Len(sent)
      BY <2>1, <3>2
    <3>4. Answerable(i)
      BY <2>1, <2>3, <3>3 DEF Answerable
    <3>5. GotReply(i)
      BY <2>1, <2>2, <2>5, <3>2, <3>4 DEF WholeInv
    <3> QED BY <2>1, <2>4, <2>5, <3>2, <3>5 DEF GotReply
  <2>6. CASE i \notin 1 .. Len(replies)
    <3>1. OnMessage /\ ~shutdown /\ sent' = sent /\ replies' # replies
      BY <2>1, <2>4, <2>6 DEF OnMessage, wireVars
    <3>2. Len(replies) < i
      BY <2>1, <2>4, <2>6
    <3>3. Straight
      <4>1. ASSUME NEW j \in DOMAIN sent, j <= Len(replies) PROVE sent[j] # "body"
        <5>1. j \in 1 .. i - 1
          BY <2>1, <2>4, <3>2, <4>1
        <5> QED BY <2>3, <3>1, <5>1
      <4> QED BY <3>1, <4>1 DEF Straight
    <3>4. replies' = Append(replies, Reply(sent[Cur])) /\ Cur \in DOMAIN sent
          /\ \E reply \in ReplyType : replies' = Append(replies, reply)
      BY <2>2, <3>1, <3>3, NewReply
    <3>5. PICK c \in Nat : c = Cur /\ c = Len(replies) + 1
      BY <2>1 DEF Cur
    <3>6. Len(replies') = c
      BY <3>4, <3>5, AppendProperties DEF CallInv, ReplyType
    <3>7. i = c
      BY <2>1, <2>4, <3>2, <3>5, <3>6
    <3>8. replies'[c] = Reply(sent[c])
      <4>1. replies \in Seq(ReplyType)
        BY DEF CallInv, ReplyType
      <4>2. Reply(sent[c]) \in ReplyType
        <5>1. sent[c] \in Kinds
          BY <3>4, <3>5, ElementOfSeq, LenProperties DEF WireInv
        <5> QED BY <5>1, ReplyTypes
      <4> DEFINE reply == Reply(sent[c])
      <4>3. replies' = Append(replies, reply) /\ reply \in ReplyType
        BY <3>4, <3>5, <4>2
      <4> HIDE DEF reply
      <4>4. Append(replies, reply)[Len(replies) + 1] = reply
        BY <4>1, <4>3, AppendProperties
      <4>5. c = Len(replies) + 1
        BY <3>5
      <4>6. replies'[c] = reply
        BY <4>3, <4>4, <4>5
      <4> QED BY <4>6 DEF reply
    <3> QED BY <1>2, <3>1, <3>7, <3>8 DEF GotReply
  <2> QED BY <2>5, <2>6
<1> QED BY <1>1, <1>2 DEF WholeInv

-----------------------------------------------------------------------------
(* The theorems.                                                            *)

(* At the start, and after every step.                                      *)
LEMMA ParserStart == ParserInit => IInv
<1> SUFFICES ASSUME ParserInit PROVE IInv
  OBVIOUS
<1> USE DEF ParserInit
<1>1. Stream = <<>> /\ Linked(Stream, sent)
  <2>1. \A S : <<>> \in Seq(S) /\ <<>> \o <<>> = <<>> /\ Len(<<>>) = 0
    BY EmptySeq, ConcatEmptySeq
  <2> QED BY <2>1 DEF Stream, Linked
<1>2. WireInv
  BY <1>1, EmptySeq DEF WireInv
<1>3. NoRequest \in Requests
  BY NoRequestType
<1>4. CallInv
  BY <1>3, EmptySeq DEF CallInv
<1>5. Len(replies) = 0 /\ Len(sent) = 0 /\ Cur = 1 /\ AllSent
  BY EmptySeq DEF Cur, AllSent
<1>6. ParserInv
  <2>1. Starts(1, 1)
    BY <1>1, <1>5 DEF Starts, StartsAt, NextOf, NextAt
  <2> QED BY <1>5, <2>1 DEF ParserInv, Place
<1>7. PromptInv
  BY <1>5 DEF PromptInv, Read
<1>8. WholeInv
  BY DEF WholeInv
<1> QED BY <1>2, <1>4, <1>6, <1>7, <1>8 DEF IInv, RepliesFramed, CutsDoNotMatter

(* Every step, with those that change nothing here.                         *)
LEMMA ParserSteps ==
  ASSUME IInv, [ParserNext]_parserVars
  PROVE  IInv'
<1>1. CASE ParserNext
  BY <1>1, WireStep, CallStep, ParserStep, PromptStep, WholeStep, FramedStep, CutsStep DEF IInv
<1>2. CASE UNCHANGED parserVars
  <2>1. UNCHANGED <<sent, at, arrived, pieces, inputBuffer_, parseState_, request_, replies,
                    shutdown, pc, body_lenth>>
    BY <1>2 DEF parserVars, wireVars
  <2>2. WireInv' /\ CallInv' /\ RepliesFramed' /\ Stream' = Stream
    BY <2>1 DEF IInv, WireInv, CallInv, RepliesFramed, Stream
  <2>3. (Straight' <=> Straight) /\ Cur' = Cur /\ Kind' = Kind /\ Read' = Read
        /\ (AllSent' <=> AllSent) /\ (Prompt' <=> Prompt)
    BY <2>1 DEF Straight, Cur, Kind, Read, AllSent, Prompt
  <2>4. \A i, j : Starts(i, j)' <=> Starts(i, j)
    BY <2>1, <2>2 DEF Starts
  <2>5. \A i : (Answerable(i)' <=> Answerable(i)) /\ (GotReply(i)' <=> GotReply(i))
    BY <2>1 DEF Answerable, GotReply
  <2>6. ParserInv'
    BY <2>1, <2>3, <2>2 DEF IInv, ParserInv, Place, Starts
  <2>7. PromptInv' /\ WholeInv' /\ CutsDoNotMatter'
    BY <2>1, <2>3, <2>5 DEF IInv, PromptInv, WholeInv, CutsDoNotMatter
  <2> QED BY <2>2, <2>6, <2>7 DEF IInv
<1> QED BY <1>1, <1>2

(* Every request read has its reply.                                        *)
LEMMA ReadThenAnswered == IInv => RequestsAnswered
<1> SUFFICES ASSUME IInv, pc = "idle" PROVE AllAnswered /\ BodyInOnePiece
  BY DEF RequestsAnswered
<1> USE DEF IInv
<1>1. /\ DOMAIN sent = 1 .. Len(sent) /\ DOMAIN replies = 1 .. Len(replies)
      /\ Len(sent) \in Nat /\ Len(replies) \in Nat /\ Read \in Int /\ Read <= Len(sent)
  BY ReadFacts, LenProperties DEF WireInv, CallInv
<1>2. ASSUME NEW i \in 1 .. Read, Answerable(i), Prompt \/ sent[i] # "body",
             pieces # "crossing", i \notin DOMAIN replies
      PROVE  FALSE
  <2>1. i \in 1 .. Len(sent) /\ Len(replies) < i
    BY <1>1, <1>2
  <2>2. \A j \in 1 .. i - 1 : ~Closes(sent[j]) /\ sent[j] # "body"
    BY <1>2 DEF Answerable
  <2>3. \A j \in 1 .. Len(replies) : j \in 1 .. i - 1
    BY <1>1, <2>1
  <2>4. CASE shutdown
    <3> DEFINE l == Len(replies)
    <3>1. l \in 1 .. l
      BY <1>1, <2>4, EmptySeq DEF CallInv
    <3>2. l \in DOMAIN sent /\ replies[l] = Reply(sent[l])
      <4>1. ~ \E j \in DOMAIN sent : j <= l /\ sent[j] = "body"
        BY <1>1, <2>2, <2>3
      <4> QED BY <1>1, <3>1, <4>1 DEF CutsDoNotMatter, GotReply
    <3>3. ~replies[l].framed
      BY <1>1, <2>4, <3>1 DEF RepliesFramed
    <3>4. Reply(sent[l]).framed = ~Closes(sent[l])
      BY DEF Reply
    <3> QED BY <2>2, <2>3, <3>1, <3>2, <3>3, <3>4
  <2>5. CASE ~shutdown
    <3>1. Straight
      <4>1. ASSUME NEW j \in DOMAIN sent, j <= Len(replies) PROVE sent[j] # "body"
        BY <1>1, <2>2, <2>3, <4>1
      <4> QED BY <2>5, <4>1 DEF Straight
    <3>2. Prompt
      <4>1. Cur \in 1 .. i
        BY <1>1, <2>1 DEF Cur
      <4>2. CASE Cur = i
        BY <1>2, <4>2 DEF Prompt, Kind, WireInv
      <4>3. CASE Cur # i
        <5>1. Cur \in 1 .. i - 1
          BY <2>1, <4>1, <4>3
        <5>2. Kind # "body"
          BY <2>2, <5>1 DEF Kind
        <5> QED BY <1>2, <5>2 DEF Prompt, WireInv
      <4> QED BY <4>2, <4>3
    <3>3. Read = Len(replies)
      BY <3>1, <3>2 DEF PromptInv
    <3> QED BY <1>1, <2>1, <3>3
  <2> QED BY <2>4, <2>5
<1>3. AllAnswered
  <2> SUFFICES ASSUME pieces # "crossing", NEW i \in 1 .. Read, Answerable(i), sent[i] # "body"
               PROVE  GotReply(i)
    BY DEF AllAnswered
  <2>1. i \in DOMAIN replies
    BY <1>2
  <2>2. ASSUME NEW j \in DOMAIN sent, j <= i, sent[j] = "body" PROVE FALSE
    <3>1. j \in 1 .. i - 1
      BY <1>1, <2>2
    <3> QED BY <2>2, <3>1 DEF Answerable
  <2> QED BY <2>1, <2>2 DEF CutsDoNotMatter
<1>4. BodyInOnePiece
  <2> SUFFICES ASSUME pieces = "whole", NEW i \in 1 .. Read, Answerable(i)
               PROVE  GotReply(i)
    BY DEF BodyInOnePiece
  <2>1. i \in DOMAIN replies
    BY <1>2 DEF Prompt
  <2>2. i \in DOMAIN sent
    BY <1>1
  <2> QED BY <2>1, <2>2 DEF WholeInv
<1> QED BY <1>3, <1>4

(* The inductive invariant of the parser.                                   *)
THEOREM ParserInvariant == ParserSpec => []IInv
<1>1. ParserInit => IInv
  BY ParserStart
<1>2. IInv /\ [ParserNext]_parserVars => IInv'
  BY ParserSteps
<1> QED BY <1>1, <1>2, PTL DEF ParserSpec

(* parseRequest and onMessage: pieces do not change what is answered.       *)
THEOREM RequestsReadRight == ParserSpec => []CutsDoNotMatter
<1>1. IInv => CutsDoNotMatter
  BY DEF IInv
<1> QED BY <1>1, ParserInvariant, PTL

(* appendToBuffer and shutdown.                                             *)
THEOREM EveryReplyFramed == ParserSpec => []RepliesFramed
<1>1. IInv => RepliesFramed
  BY DEF IInv
<1> QED BY <1>1, ParserInvariant, PTL

(* onMessage: no request read is left.                                      *)
THEOREM NoRequestLeft == ParserSpec => []RequestsAnswered
BY ReadThenAnswered, ParserInvariant, PTL
=============================================================================
