------------------------- MODULE UsbipServerProofs -------------------------
(***************************************************************************)
(* Theorems about the USB/IP server and the list of URBs it shares with    *)
(* the system thread, for any set of URBs and endpoints, any scenario, any *)
(* order of completion and any number of connections.                      *)
(***************************************************************************)
EXTENDS UsbipServer, SequenceTheorems, FiniteSetTheorems, TLAPS

-----------------------------------------------------------------------------
(***************************************************************************)
(* The list (UrbList).                                                     *)
(***************************************************************************)
ListInv == ListTypeOK /\ ListWhole /\ IsInjective(listed)

LEMMA ListedFacts ==
    ASSUME ListTypeOK
    PROVE  /\ listed \in Seq(Urbs) /\ Len(listed) \in Nat /\ DOMAIN listed = 1 .. Len(listed)
           /\ \A i \in 1 .. Len(listed) : listed[i] \in Urbs /\ listed[i] # NoUrb
           /\ \A u : u \in Range(listed) <=> \E i \in 1 .. Len(listed) : listed[i] = u
           /\ listed = <<>> <=> Len(listed) = 0
<1>1. listed \in Seq(Urbs)
  BY DEF ListTypeOK
<1>2. /\ Len(listed) \in Nat /\ DOMAIN listed = 1 .. Len(listed)
      /\ \A i \in 1 .. Len(listed) : listed[i] \in Urbs
  BY <1>1, LenProperties, ElementOfSeq
<1>3. listed = <<>> <=> Len(listed) = 0
  BY <1>1, EmptySeq
<1> QED
  BY <1>1, <1>2, <1>3, UrbAssumption DEF Range

LEMMA RemoveAtIs ==
    ASSUME NEW S, NEW s \in Seq(S), NEW k \in 1 .. Len(s)
    PROVE  /\ RemoveAt(s, k) \in Seq(S)
           /\ Len(RemoveAt(s, k)) = Len(s) - 1
           /\ \A i \in 1 .. Len(s) - 1 : RemoveAt(s, k)[i] = IF i < k THEN s[i] ELSE s[i + 1]
<1> DEFINE a == SubSeq(s, 1, k - 1)
           b == SubSeq(s, k + 1, Len(s))
<1>1. Len(s) \in Nat
  BY LenProperties
<1>2. /\ a \in Seq(S) /\ Len(a) = k - 1 /\ \A i \in 1 .. k - 1 : a[i] = s[i]
  BY <1>1, SubSeqProperties
<1>3. /\ b \in Seq(S) /\ Len(b) = Len(s) - k
      /\ \A i \in 1 .. Len(s) - k : b[i] = s[k + i]
  <2>1. k + 1 \in 1 .. Len(s) + 1 /\ Len(s) \in k .. Len(s)
    BY <1>1
  <2> QED
    BY <1>1, <2>1, SubSeqProperties
<1> HIDE DEF a, b
<1>4. /\ a \o b \in Seq(S) /\ Len(a \o b) = Len(s) - 1
      /\ \A i \in 1 .. Len(s) - 1 : (a \o b)[i] = IF i <= k - 1 THEN a[i] ELSE b[i - (k - 1)]
  <2>1. /\ a \o b \in Seq(S) /\ Len(a \o b) = Len(a) + Len(b)
        /\ \A i \in 1 .. Len(a) + Len(b) :
              (a \o b)[i] = IF i <= Len(a) THEN a[i] ELSE b[i - Len(a)]
    BY <1>2, <1>3, ConcatProperties
  <2>2. Len(a) + Len(b) = Len(s) - 1
    BY <1>1, <1>2, <1>3
  <2> QED
    BY <1>2, <2>1, <2>2
<1>5. \A i \in 1 .. Len(s) - 1 : (a \o b)[i] = IF i < k THEN s[i] ELSE s[i + 1]
  <2> SUFFICES ASSUME NEW i \in 1 .. Len(s) - 1
               PROVE  (a \o b)[i] = IF i < k THEN s[i] ELSE s[i + 1]
    OBVIOUS
  <2>1. CASE i < k
    BY <1>1, <1>2, <1>4, <2>1
  <2>2. CASE ~(i < k)
    <3>1. i - (k - 1) \in 1 .. Len(s) - k /\ k + (i - (k - 1)) = i + 1
      BY <1>1, <2>2
    <3>2. (a \o b)[i] = b[i - (k - 1)]
      BY <1>1, <1>4, <2>2
    <3> QED
      BY <1>3, <2>2, <3>1, <3>2
  <2> QED
    BY <2>1, <2>2
<1> QED
  BY <1>4, <1>5 DEF RemoveAt, a, b

\* sys_urb_submit: the list stays whole, with u at its end.
LEMMA RegisterList ==
    ASSUME ListInv, NEW u \in Urbs, ~Registered(u), Register(u)
    PROVE  /\ ListInv'
           /\ listed' = Append(listed, u)
           /\ \A v : Registered(v)' <=> Registered(v) \/ v = u
<1> DEFINE n == Len(listed)
<1>1. /\ listed \in Seq(Urbs) /\ n \in Nat /\ DOMAIN listed = 1 .. n
      /\ \A i \in 1 .. n : listed[i] \in Urbs /\ listed[i] # NoUrb /\ listed[i] # u
      /\ listed = <<>> <=> n = 0
      /\ \A v : Registered(v) <=> \E i \in 1 .. n : listed[i] = v
  BY ListedFacts DEF ListInv, Registered
<1>2. /\ listed' = Append(listed, u)
      /\ listed' \in Seq(Urbs) /\ Len(listed') = n + 1 /\ DOMAIN listed' = 1 .. n + 1
      /\ \A i \in 1 .. n : listed'[i] = listed[i]
      /\ listed'[n + 1] = u
  BY <1>1, AppendProperties, LenProperties DEF Register
<1> HIDE DEF n
<1>3. \A v : Registered(v)' <=> Registered(v) \/ v = u
  BY <1>1, <1>2 DEF Registered, Range
<1>4. IsInjective(listed)'
  BY <1>1, <1>2 DEF ListInv, IsInjective
<1>5. /\ u # NoUrb /\ tail \in Urbs \cup {NoUrb} /\ head \in Urbs \cup {NoUrb}
      /\ next \in [Urbs -> Urbs \cup {NoUrb}] /\ prev \in [Urbs -> Urbs \cup {NoUrb}]
  BY UrbAssumption DEF ListInv, ListTypeOK
<1>6. ListTypeOK'
  BY <1>2, <1>5 DEF Register, ListTypeOK
<1>7. ListWhole'
  <2>1. listed' # <<>> /\ tail' = listed'[Len(listed')]
    BY <1>2, EmptySeq DEF Register
  <2>2. CASE n = 0
    <3>1. tail = NoUrb
      BY <1>1, <2>2 DEF ListInv, ListWhole
    <3>2. head' = u /\ next'[u] = NoUrb /\ tail' = u
      BY <1>5, <3>1 DEF Register
    <3> QED
      BY <1>2, <2>1, <2>2, <3>2 DEF ListWhole
  <2>3. CASE n # 0
    <3>1. /\ n \in 1 .. n /\ tail = listed[n] /\ head = listed[1] /\ next[tail] = NoUrb
          /\ \A i \in 1 .. n - 1 : next[listed[i]] = listed[i + 1] /\ prev[listed[i + 1]] = listed[i]
      BY <1>1, <2>3 DEF ListInv, ListWhole, n
    <3>2. tail # NoUrb /\ tail # u /\ tail \in Urbs
      BY <1>1, <3>1
    <3>3. /\ head' = head /\ tail' = u
          /\ next'[tail] = u /\ next'[u] = NoUrb
          /\ \A v \in Urbs : v # tail /\ v # u => next'[v] = next[v]
          /\ prev'[u] = tail /\ \A v \in Urbs : v # u => prev'[v] = prev[v]
      BY <1>5, <3>2 DEF Register
    <3>4. \A i \in 1 .. n - 1 : listed[i] # tail
      BY <1>1, <3>1 DEF ListInv, IsInjective
    <3>5. \A i \in 1 .. n : next'[listed'[i]] = listed'[i + 1] /\ prev'[listed'[i + 1]] = listed'[i]
      <4> SUFFICES ASSUME NEW i \in 1 .. n
                   PROVE  next'[listed'[i]] = listed'[i + 1] /\ prev'[listed'[i + 1]] = listed'[i]
        OBVIOUS
      <4>1. CASE i = n
        BY <1>2, <3>1, <3>3, <4>1
      <4>2. CASE i # n
        <5>1. i \in 1 .. n - 1 /\ i + 1 \in 1 .. n
          BY <1>1, <4>2
        <5>2. /\ listed'[i] = listed[i] /\ listed'[i + 1] = listed[i + 1]
              /\ listed[i] \in Urbs /\ listed[i] # u /\ listed[i] # tail /\ listed[i + 1] # u
              /\ listed[i + 1] \in Urbs
          BY ONLY <1>1, <1>2, <3>4, <5>1, i \in 1 .. n
        <5>3. next[listed[i]] = listed[i + 1] /\ prev[listed[i + 1]] = listed[i]
          BY ONLY <3>1, <5>1
        <5> QED
          BY ONLY <3>3, <5>2, <5>3
      <4> QED
        BY <4>1, <4>2
    <3>6. head' = listed'[1]
      BY <1>1, <1>2, <3>1, <3>3
    <3>7. Len(listed') - 1 = n
      BY <1>1, <1>2
    <3> QED
      BY <2>1, <3>3, <3>5, <3>6, <3>7 DEF ListWhole
  <2> QED
    BY <2>2, <2>3
<1> QED
  BY <1>2, <1>3, <1>4, <1>6, <1>7 DEF ListInv

\* sys_urb_unlink, when it follows no null pointer: the list stays whole,
\* without u.
LEMMA UnregisterList ==
    ASSUME ListInv, NEW u \in Urbs, Registered(u), Unregister(u)
    PROVE  /\ ListInv'
           /\ \A v : Registered(v)' <=> Registered(v) /\ v # u
           /\ Len(listed') = Len(listed) - 1
           /\ u = listed[1] => listed' = Tail(listed)
<1> DEFINE n == Len(listed)
           k == Place(u)
<1>1. /\ listed \in Seq(Urbs) /\ n \in Nat /\ DOMAIN listed = 1 .. n
      /\ \A i \in 1 .. n : listed[i] \in Urbs /\ listed[i] # NoUrb
      /\ listed = <<>> <=> n = 0
      /\ \A v : Registered(v) <=> \E i \in 1 .. n : listed[i] = v
  BY ListedFacts DEF ListInv, Registered
<1>2. k \in 1 .. n /\ listed[k] = u
  BY <1>1 DEF Place
<1>3. \A i, j \in 1 .. n : listed[i] = listed[j] => i = j
  BY <1>1 DEF ListInv, IsInjective
<1>4. /\ listed' \in Seq(Urbs) /\ Len(listed') = n - 1
      /\ \A i \in 1 .. n - 1 : listed'[i] = IF i < k THEN listed[i] ELSE listed[i + 1]
  <2>1. listed' = RemoveAt(listed, k)
    BY DEF Unregister
  <2> HIDE DEF k
  <2>2. k \in 1 .. Len(listed) /\ listed \in Seq(Urbs)
    BY <1>1, <1>2
  <2>3. /\ RemoveAt(listed, k) \in Seq(Urbs) /\ Len(RemoveAt(listed, k)) = Len(listed) - 1
        /\ \A i \in 1 .. Len(listed) - 1 :
              RemoveAt(listed, k)[i] = IF i < k THEN listed[i] ELSE listed[i + 1]
    BY ONLY <2>2, RemoveAtIs
  <2> QED
    BY <2>1, <2>3
<1> HIDE DEF n, k
<1>5. DOMAIN listed' = 1 .. n - 1
  BY <1>4, LenProperties
<1>6. IsInjective(listed)'
  BY <1>1, <1>2, <1>3, <1>4, <1>5 DEF IsInjective
<1>7. \A v : Registered(v)' <=> Registered(v) /\ v # u
  <2> SUFFICES ASSUME NEW v PROVE Registered(v)' <=> Registered(v) /\ v # u
    OBVIOUS
  <2>1. Registered(v)' <=> \E i \in 1 .. n - 1 : listed'[i] = v
    BY <1>5 DEF Registered, Range
  <2>2. ASSUME NEW i \in 1 .. n - 1, listed'[i] = v PROVE Registered(v) /\ v # u
    <3>1. \E j \in 1 .. n : j # k /\ listed[j] = v
      BY <1>1, <1>2, <1>4, <2>2
    <3> QED
      BY <1>1, <1>2, <1>3, <3>1
  <2>3. ASSUME NEW j \in 1 .. n, listed[j] = v, v # u
        PROVE  \E i \in 1 .. n - 1 : listed'[i] = v
    <3>1. CASE j < k
      <4>1. j \in 1 .. n - 1
        BY <1>1, <1>2, <3>1
      <4> QED
        BY <1>4, <2>3, <3>1, <4>1
    <3>2. CASE ~(j < k)
      <4>1. j - 1 \in 1 .. n - 1 /\ ~(j - 1 < k) /\ j - 1 + 1 = j
        BY <1>1, <1>2, <2>3, <3>2
      <4> QED
        BY <1>4, <2>3, <4>1
    <3> QED
      BY <3>1, <3>2
  <2> QED
    BY <1>1, <2>1, <2>2, <2>3
<1>8. n # 0 /\ listed # <<>>
  BY <1>1, <1>2
<1>9. /\ head = listed[1] /\ tail = listed[n] /\ next[tail] = NoUrb
      /\ \A i \in 1 .. n - 1 : next[listed[i]] = listed[i + 1] /\ prev[listed[i + 1]] = listed[i]
      /\ next \in [Urbs -> Urbs \cup {NoUrb}] /\ prev \in [Urbs -> Urbs \cup {NoUrb}]
  BY <1>8 DEF ListInv, ListWhole, ListTypeOK, n
<1>10. CASE u = head
  <2>1. k = 1 /\ \A i \in 1 .. n - 1 : listed'[i] = listed[i + 1]
    BY <1>1, <1>2, <1>3, <1>4, <1>8, <1>9, <1>10
  <2>2. /\ head' = next[u] /\ tail' = (IF u = tail THEN NoUrb ELSE tail)
        /\ next' = next /\ prev' = prev
    BY <1>10 DEF Unregister
  <2>3. ListTypeOK'
    BY <1>4, <1>9, <2>2 DEF ListInv, ListTypeOK
  <2>4. ListWhole'
    <3>1. CASE n = 1
      <4>1. listed' = <<>>
        BY <1>4, <3>1, EmptySeq
      <4>2. u = tail /\ next[u] = NoUrb
        BY <1>9, <1>10, <3>1
      <4> QED
        BY <2>2, <4>1, <4>2 DEF ListWhole
    <3>2. CASE n # 1
      <4>1. 1 \in 1 .. n - 1 /\ n - 1 \in 1 .. n - 1 /\ n - 1 + 1 = n /\ 1 \in 1 .. n /\ n \in 1 .. n
        BY <1>1, <1>8, <3>2
      <4>2. u # tail
        BY <1>3, <1>9, <1>10, <3>2, <4>1
      <4>3. head' = listed'[1] /\ tail' = listed'[n - 1] /\ next'[tail'] = NoUrb
        BY <1>9, <1>10, <2>1, <2>2, <4>1, <4>2
      <4>4. \A i \in 1 .. (n - 1) - 1 :
               next'[listed'[i]] = listed'[i + 1] /\ prev'[listed'[i + 1]] = listed'[i]
        <5> SUFFICES ASSUME NEW i \in 1 .. (n - 1) - 1
                     PROVE  next'[listed'[i]] = listed'[i + 1] /\ prev'[listed'[i + 1]] = listed'[i]
          OBVIOUS
        <5>1. i \in 1 .. n - 1 /\ i + 1 \in 1 .. n - 1
          BY <1>1
        <5> QED
          BY <1>9, <2>1, <2>2, <5>1
      <4>5. listed' # <<>>
        BY <1>4, <4>1, EmptySeq
      <4> QED
        BY <1>4, <4>3, <4>4, <4>5 DEF ListWhole
    <3> QED
      BY <3>1, <3>2
  <2>5. listed' = Tail(listed)
    <3>1. /\ Tail(listed) \in Seq(Urbs) /\ Len(Tail(listed)) = n - 1
          /\ \A i \in 1 .. n - 1 : Tail(listed)[i] = listed[i + 1]
      BY <1>1, <1>8, HeadTailProperties DEF n
    <3> QED
      BY <1>4, <2>1, <3>1, SeqEqual
  <2> QED
    BY <1>4, <1>6, <1>7, <2>3, <2>4, <2>5 DEF ListInv, n
<1>11. CASE u # head
  <2>1. prev[u] # NoUrb /\ next[u] # NoUrb
    BY <1>11 DEF Unregister, FollowsNull
  <2>2. k \in 2 .. n - 1
    BY <1>1, <1>2, <1>9, <1>11, <2>1
  <2>3. /\ k - 1 \in 1 .. n /\ k + 1 \in 1 .. n /\ k - 1 \in 1 .. n - 1 /\ k \in 1 .. n - 1
        /\ k - 1 + 1 = k /\ 1 \in 1 .. n /\ n \in 1 .. n
    BY <1>1, <2>2
  <2>4. prev[u] = listed[k - 1] /\ next[u] = listed[k + 1]
    BY <1>2, <1>9, <2>3
  <2>5. /\ head' = head /\ tail' = tail
        /\ next' = [next EXCEPT ![listed[k - 1]] = listed[k + 1]]
        /\ prev' = [prev EXCEPT ![listed[k + 1]] = listed[k - 1]]
    BY <1>11, <2>4 DEF Unregister
  <2>6. /\ next'[listed[k - 1]] = listed[k + 1] /\ prev'[listed[k + 1]] = listed[k - 1]
        /\ \A i \in 1 .. n : i # k - 1 => next'[listed[i]] = next[listed[i]]
        /\ \A i \in 1 .. n : i # k + 1 => prev'[listed[i]] = prev[listed[i]]
    BY <1>1, <1>3, <1>9, <2>3, <2>5
  <2>7. ListTypeOK'
    BY <1>1, <1>4, <1>9, <2>3, <2>5 DEF ListInv, ListTypeOK
  <2>8. /\ head' = listed'[1] /\ tail' = listed'[n - 1] /\ next'[tail'] = NoUrb
    <3>1. listed'[1] = listed[1]
      BY <1>4, <2>2, <2>3
    <3>2. listed'[n - 1] = listed[n]
      <4>1. n - 1 \in 1 .. n - 1 /\ ~(n - 1 < k) /\ n - 1 + 1 = n
        BY <1>1, <2>2
      <4> QED
        BY <1>4, <4>1
    <3>3. n # k - 1
      BY <1>1, <2>2
    <3> QED
      BY <1>9, <2>3, <2>5, <2>6, <3>1, <3>2, <3>3
  <2>9. \A i \in 1 .. (n - 1) - 1 :
           next'[listed'[i]] = listed'[i + 1] /\ prev'[listed'[i + 1]] = listed'[i]
    <3> SUFFICES ASSUME NEW i \in 1 .. (n - 1) - 1
                 PROVE  next'[listed'[i]] = listed'[i + 1] /\ prev'[listed'[i + 1]] = listed'[i]
      OBVIOUS
    <3>1. /\ i \in 1 .. n - 1 /\ i + 1 \in 1 .. n - 1 /\ i \in 1 .. n /\ i + 1 \in 1 .. n
          /\ i + 1 + 1 \in 1 .. n
      BY <1>1
    <3>2. CASE i + 1 < k
      <4>0. i < k
        BY <2>2, <3>2
      <4>1. listed'[i] = listed[i] /\ listed'[i + 1] = listed[i + 1]
        BY <1>4, <3>1, <3>2, <4>0
      <4>2. i # k - 1 /\ i + 1 # k + 1
        BY <3>2, <2>2
      <4> QED
        BY <1>9, <2>6, <3>1, <4>1, <4>2
    <3>3. CASE i + 1 = k
      <4>1. i = k - 1 /\ i < k /\ ~(i + 1 < k)
        BY <3>3
      <4>2. listed'[i] = listed[k - 1] /\ listed'[i + 1] = listed[k + 1]
        BY <1>4, <3>1, <3>3, <4>1
      <4> QED
        BY <2>6, <4>2
    <3>4. CASE i + 1 > k
      <4>1. ~(i < k) /\ ~(i + 1 < k) /\ i + 1 # k - 1 /\ i + 1 + 1 # k + 1
        BY <2>2, <3>4
      <4>2. listed'[i] = listed[i + 1] /\ listed'[i + 1] = listed[i + 1 + 1]
        BY <1>4, <3>1, <4>1
      <4> QED
        BY <1>9, <2>6, <3>1, <4>1, <4>2
    <3> QED
      BY <2>2, <3>1, <3>2, <3>3, <3>4
  <2>10. listed' # <<>>
    BY <1>4, <2>2, EmptySeq
  <2>11. ListWhole'
    BY <1>4, <2>8, <2>9, <2>10 DEF ListWhole
  <2>12. u # listed[1]
    BY <1>9, <1>11
  <2> QED
    BY <1>4, <1>6, <1>7, <2>7, <2>11, <2>12 DEF ListInv, n
<1> QED
  BY <1>10, <1>11

\* The first URB of the list can always be unlinked.
LEMMA FirstCanGo ==
    ASSUME ListInv, listed # <<>>
    PROVE  ~FollowsNull(listed[1])
BY DEF ListInv, ListWhole, FollowsNull
\* A registered URB has one owner: the system thread, the accept thread in a
\* control transfer, or one endpoint, once.
OneOwner ==
    /\ IsInjective(listed)
    /\ sysUrb # NoUrb => Registered(sysUrb)
    /\ cur # NoUrb <=> srv = "control"
    /\ cur # NoUrb => Registered(cur) /\ cur # sysUrb
    /\ \A e \in Eps : \A i \in DOMAIN linked[e] :
          Registered(linked[e][i]) /\ linked[e][i] \notin {sysUrb, cur}
    /\ \A e, f \in Eps : \A i \in DOMAIN linked[e], j \in DOMAIN linked[f] :
          linked[e][i] = linked[f][j] => e = f /\ i = j
    /\ srv # "accept" => conn # 0

\* What the accept thread has registered and not completed.
Outstanding(u) == u = cur \/ \E e \in Eps : u \in Range(linked[e])

Submits == {i \in DOMAIN inbox : inbox[i].kind = "SUBMIT"}

\* Patient clients that all use the same endpoint: the list is in the order of
\* completion, and what is outstanding is what the client that is connected waits for.
PatientOrder ==
    /\ conn = 0 => listed = IF sysUrb = NoUrb THEN <<>> ELSE <<sysUrb>>
    /\ conn # 0 => ready /\ sysLeft = 0 /\ sysUrb = NoUrb
    /\ srv = "control" => listed = <<cur>> /\ Control \in use.asks
    /\ \A e \in Eps : linked[e] # <<>> => listed = linked[e] /\ e \in use.asks
    /\ conn # 0 /\ listed # <<>> => \E u \in Urbs : Outstanding(u)

PatientRequests ==
    /\ srv = "accept" => ~open
    /\ waiting \subseteq 1 .. made
    /\ waiting # {} => open
    /\ open => conn # 0
    /\ \A u \in Urbs : Outstanding(u) => urb[u].conn = conn /\ urb[u].seq \in waiting
    /\ \A i \in Submits : inbox[i].seq \in waiting /\ inbox[i].what \in use.asks
    /\ \A u, v \in Urbs : Outstanding(u) /\ Outstanding(v) /\ urb[u].seq = urb[v].seq => u = v
    /\ \A u \in Urbs, i \in Submits : Outstanding(u) => urb[u].seq # inbox[i].seq
    /\ \A i, j \in Submits : inbox[i].seq = inbox[j].seq => i = j

PatientInv ==
    use.patient => PatientOrder /\ PatientRequests /\ Alive /\ ~rst /\ strays = {}

-----------------------------------------------------------------------------
(***************************************************************************)
(* Types, owners and the list, for every scenario.                         *)
(***************************************************************************)
ServerInv == use \in Scenario /\ TypeOK /\ ListInv /\ OneOwner

LEMMA UseFacts ==
    ASSUME use \in Scenario
    PROVE  /\ use.asks \subseteq Eps \cup {Control} /\ use.requests \in 0 .. MaxRequests
           /\ use.window \in Nat /\ use.connections \in Nat /\ use.sysTransfers \in Nat
           /\ use.patient \in BOOLEAN
BY DEF Scenario

LEMMA RequestSets ==
    ASSUME NEW w, w \subseteq 1 .. MaxRequests
    PROVE  /\ Cardinality(w) \in Nat
           /\ \A s : s \notin w => Cardinality(w \cup {s}) = Cardinality(w) + 1
           /\ \A s : Cardinality(w \ {s}) <= Cardinality(w)
<1>1. IsFiniteSet(w)
  <2>1. 1 \in Int /\ MaxRequests \in Int
    BY NumberAssumption
  <2>2. IsFiniteSet(1 .. MaxRequests)
    BY <2>1, FS_Interval
  <2> QED
    BY <2>2, FS_Subset
<1>2. /\ Cardinality(w) \in Nat
      /\ \A s : s \notin w => Cardinality(w \cup {s}) = Cardinality(w) + 1
  BY <1>1, FS_CardinalityType, FS_AddElement
<1>3. ASSUME NEW s PROVE Cardinality(w \ {s}) <= Cardinality(w)
  BY <1>1, <1>2, FS_Subset
<1> QED
  BY <1>2, <1>3

LEMMA ServerInit == Init => ServerInv
<1> SUFFICES ASSUME Init PROVE ServerInv
  OBVIOUS
<1>1. use \in Scenario
  BY ScenarioAssumption DEF Init
<1>2. Cardinality({}) = 0
  BY FS_EmptySet
<1>3. /\ <<>> \in Seq(Urbs) /\ <<>> \in Seq(Message)
      /\ DOMAIN (<<>>) = {} /\ DOMAIN listed = {}
  BY DEF Init, ListInit
<1>4. ListTypeOK
  BY <1>3 DEF Init, ListInit, ListTypeOK
<1>5. TypeOK
  <2>1. /\ sysLeft \in 0 .. use.sysTransfers /\ conn \in 0 .. use.connections
        /\ made \in 0 .. MaxRequests /\ waiting \subseteq 1 .. MaxRequests
        /\ Cardinality(waiting) <= use.window /\ strays \subseteq 1 .. use.connections
    BY <1>1, <1>2, UseFacts, NumberAssumption DEF Init
  <2>2. urb \in [Urbs -> [conn : 0 .. use.connections, seq : 0 .. MaxRequests]]
    BY <1>1, UseFacts, NumberAssumption DEF Init, Free
  <2>3. linked \in [Eps -> Seq(Urbs)] /\ inbox \in Seq(Message)
    BY <1>3 DEF Init
  <2> QED
    BY <1>4, <2>1, <2>2, <2>3 DEF Init, TypeOK
<1>6. IsInjective(listed)
  BY <1>3 DEF IsInjective
<1>7. ListInv
  BY <1>4, <1>6 DEF ListInv, ListWhole, Init, ListInit
<1>8. \A e \in Eps : DOMAIN linked[e] = {}
  BY <1>3 DEF Init
<1>9. OneOwner
  BY <1>6, <1>8 DEF OneOwner, Init
<1> QED
  BY <1>1, <1>5, <1>7, <1>9 DEF ServerInv

\* Steps that leave the list and the owners alone.
LEMMA OwnersKept ==
    ASSUME OneOwner, ListInv, UNCHANGED <<listVars, sysUrb, srv, cur, linked, conn>>
    PROVE  OneOwner' /\ ListInv' /\ ListTypeOK'
<1>1. UNCHANGED <<head, tail, next, prev, listed>>
  BY DEF listVars
<1>2. ListTypeOK' /\ ListInv' /\ IsInjective(listed)'
  BY <1>1 DEF ListInv, ListTypeOK, ListWhole
<1>3. \A u : Registered(u)' <=> Registered(u)
  BY <1>1 DEF Registered
<1> QED
  BY <1>2, <1>3 DEF OneOwner

LEMMA CrashKeeps ==
    ASSUME ServerInv, NEW why \in {"no", "null", "exit", "pipe"}, Crash(why)
    PROVE  ServerInv'
<1>1. UNCHANGED <<listVars, use, ready, sysLeft, sysUrb, srv, cur, conn, open, rst, inbox,
                  reply, made, waiting, urb, linked, strays>> /\ dead' = why
  BY DEF Crash, sysVars, connVars, clientVars
<1>2. OneOwner' /\ ListInv' /\ ListTypeOK'
  BY <1>1, OwnersKept DEF ServerInv
<1> QED
  BY <1>1, <1>2 DEF ServerInv, TypeOK

LEMMA StutterKeeps == ServerInv /\ UNCHANGED vars => ServerInv'
<1> SUFFICES ASSUME ServerInv, UNCHANGED vars PROVE ServerInv'
  OBVIOUS
<1>1. UNCHANGED <<listVars, use, ready, sysLeft, sysUrb, srv, cur, conn, open, rst, inbox,
                  reply, made, waiting, urb, linked, strays, dead>>
  BY DEF vars, sysVars, connVars, clientVars
<1>2. OneOwner' /\ ListInv' /\ ListTypeOK'
  BY <1>1, OwnersKept DEF ServerInv
<1> QED
  BY <1>1, <1>2 DEF ServerInv, TypeOK

LEMMA PublishKeeps == ServerInv /\ Publish => ServerInv'
<1> SUFFICES ASSUME ServerInv, Publish PROVE ServerInv'
  OBVIOUS
<1>1. UNCHANGED <<listVars, use, sysLeft, sysUrb, srv, cur, conn, open, rst, inbox,
                  reply, made, waiting, urb, linked, strays, dead>> /\ ready' = TRUE
  BY DEF Publish, connVars, clientVars
<1>2. OneOwner' /\ ListInv' /\ ListTypeOK'
  BY <1>1, OwnersKept DEF ServerInv
<1> QED
  BY <1>1, <1>2 DEF ServerInv, TypeOK

LEMMA SysSubmitKeeps ==
    ASSUME ServerInv, NEW u \in Urbs, SysSubmit(u)
    PROVE  ServerInv'
<1>1. /\ sysLeft > 0 /\ sysUrb = NoUrb /\ ~Registered(u) /\ Register(u)
      /\ sysUrb' = u /\ sysLeft' = sysLeft - 1
      /\ UNCHANGED <<use, ready, srv, cur, conn, open, rst, inbox, reply, made, waiting,
                     urb, linked, strays, dead>>
  BY DEF SysSubmit, connVars, clientVars
<1>2. ListInv' /\ \A v : Registered(v)' <=> Registered(v) \/ v = u
  BY <1>1, RegisterList DEF ServerInv
<1>3. ListTypeOK' /\ IsInjective(listed)'
  BY <1>2 DEF ListInv
<1>4. OneOwner'
  BY <1>1, <1>2, <1>3 DEF ServerInv, OneOwner
<1>5. sysLeft' \in 0 .. use.sysTransfers
  BY <1>1, UseFacts DEF ServerInv, TypeOK
<1> QED
  BY <1>1, <1>2, <1>3, <1>4, <1>5 DEF ServerInv, TypeOK

LEMMA SysDoneKeeps == ServerInv /\ SysDone => ServerInv'
<1> SUFFICES ASSUME ServerInv, SysDone PROVE ServerInv'
  OBVIOUS
<1>1. CASE Crash("null")
  BY <1>1, CrashKeeps
<1>2. CASE ~Crash("null")
  <2>1. /\ sysUrb # NoUrb /\ Unregister(sysUrb) /\ sysUrb' = NoUrb
        /\ UNCHANGED <<use, ready, sysLeft, srv, cur, conn, open, rst, inbox, reply, made,
                       waiting, urb, linked, strays, dead>>
    BY <1>2 DEF SysDone, connVars, clientVars
  <2>2. sysUrb \in Urbs /\ Registered(sysUrb)
    BY <2>1 DEF ServerInv, TypeOK, OneOwner
  <2>3. ListInv' /\ \A v : Registered(v)' <=> Registered(v) /\ v # sysUrb
    BY <2>1, <2>2, UnregisterList DEF ServerInv
  <2>4. ListTypeOK' /\ IsInjective(listed)'
    BY <2>3 DEF ListInv
  <2>5. \A e \in Eps : \A i \in DOMAIN linked[e] : linked[e][i] \in Urbs
    BY ElementOfSeq, LenProperties DEF ServerInv, TypeOK
  <2>6. OneOwner'
    BY <2>1, <2>3, <2>4, <2>5, UrbAssumption DEF ServerInv, OneOwner
  <2> QED
    BY <2>1, <2>3, <2>4, <2>6 DEF ServerInv, TypeOK
<1> QED
  BY <1>1, <1>2

LEMMA ConnectKeeps == ServerInv /\ Connect => ServerInv'
<1> SUFFICES ASSUME ServerInv, Connect PROVE ServerInv'
  OBVIOUS
<1>1. /\ srv = "accept" /\ conn < use.connections /\ srv' = "recv"
      /\ conn' = conn + 1 /\ open' = TRUE /\ rst' = FALSE
      /\ reply' = "none" /\ made' = 0 /\ waiting' = {}
      /\ UNCHANGED <<listVars, use, ready, sysLeft, sysUrb, cur, urb, linked, strays, dead>>
  BY DEF Connect, sysVars
<1>2. PICK first \in Firsts : inbox' = <<[kind |-> first, what |-> Control, seq |-> 0]>>
  BY DEF Connect
<1>3. UNCHANGED <<head, tail, next, prev, listed>>
  BY <1>1 DEF listVars
<1>4. ListTypeOK' /\ ListInv' /\ IsInjective(listed)'
  BY <1>3 DEF ServerInv, ListInv, ListTypeOK, ListWhole
<1>5. \A u : Registered(u)' <=> Registered(u)
  BY <1>3 DEF Registered
<1>6. conn \in Nat /\ conn' \in 0 .. use.connections /\ conn' # 0
  <2>1. use \in Scenario /\ conn \in 0 .. use.connections
    BY DEF ServerInv, TypeOK
  <2>2. use.connections \in Nat
    BY ONLY <2>1, UseFacts
  <2>3. conn < use.connections /\ conn' = conn + 1
    BY ONLY <1>1
  <2> QED
    BY ONLY <2>1, <2>2, <2>3
<1>7. OneOwner'
  <2>1. /\ OneOwner /\ sysUrb' = sysUrb /\ cur' = cur /\ linked' = linked
        /\ srv = "accept" /\ srv' = "recv" /\ listed' = listed
    BY <1>1, <1>3 DEF ServerInv
  <2>2. \A e \in Eps : \A i \in DOMAIN linked'[e] :
           linked'[e][i] \in Range(listed') /\ linked'[e][i] \notin {sysUrb', cur'}
    BY ONLY <2>1 DEF OneOwner, Registered
  <2>3. \A e, f \in Eps : \A i \in DOMAIN linked'[e], j \in DOMAIN linked'[f] :
           linked'[e][i] = linked'[f][j] => e = f /\ i = j
    BY ONLY <2>1 DEF OneOwner
  <2>4. /\ sysUrb' # NoUrb => sysUrb' \in Range(listed')
        /\ cur' # NoUrb <=> srv' = "control"
        /\ cur' # NoUrb => cur' \in Range(listed') /\ cur' # sysUrb'
    BY ONLY <2>1 DEF OneOwner, Registered
  <2> QED
    BY ONLY <1>4, <1>6, <2>2, <2>3, <2>4 DEF OneOwner, Registered
<1>8. inbox' \in Seq(Message)
  BY <1>2, NumberAssumption DEF Message
<1>9. Cardinality(waiting') <= use.window
  BY <1>1, FS_EmptySet, UseFacts DEF ServerInv
<1>10. made' \in 0 .. MaxRequests /\ waiting' \subseteq 1 .. MaxRequests
  BY <1>1, NumberAssumption
<1>11. TypeOK'
  BY <1>1, <1>4, <1>6, <1>8, <1>9, <1>10 DEF ServerInv, TypeOK
<1> QED
  BY <1>1, <1>4, <1>7, <1>11 DEF ServerInv

LEMMA AskKeeps ==
    ASSUME ServerInv, NEW what \in use.asks, Ask(what)
    PROVE  ServerInv' /\ made + 1 \in 1 .. MaxRequests
<1>1. /\ made < use.requests /\ Cardinality(waiting) < use.window
      /\ made' = made + 1 /\ waiting' = waiting \cup {made + 1}
      /\ inbox' = Append(inbox, [kind |-> "SUBMIT", what |-> what, seq |-> made + 1])
      /\ UNCHANGED <<listVars, use, ready, sysLeft, sysUrb, srv, cur, conn, open, rst,
                     reply, urb, linked, strays, dead>>
  BY DEF Ask, sysVars, connVars
<1>2. OneOwner' /\ ListInv' /\ ListTypeOK'
  BY <1>1, OwnersKept DEF ServerInv
<1>3. made + 1 \in 1 .. MaxRequests /\ made + 1 \in 0 .. MaxRequests
  BY <1>1, UseFacts, NumberAssumption DEF ServerInv, TypeOK
<1>4. waiting' \subseteq 1 .. MaxRequests
  BY <1>1, <1>3 DEF ServerInv, TypeOK
<1>5. Cardinality(waiting') <= use.window
  <2>1. /\ waiting \subseteq 1 .. MaxRequests /\ use.window \in Nat
        /\ Cardinality(waiting) \in Nat
        /\ made + 1 \notin waiting => Cardinality(waiting \cup {made + 1}) = Cardinality(waiting) + 1
    BY RequestSets, UseFacts DEF ServerInv, TypeOK
  <2>2. CASE made + 1 \in waiting
    <3>1. waiting' = waiting
      BY <1>1, <2>2
    <3> QED
      BY <3>1 DEF ServerInv, TypeOK
  <2>3. CASE made + 1 \notin waiting
    BY <1>1, <2>1, <2>3
  <2> QED
    BY <2>2, <2>3
<1>6. inbox' \in Seq(Message)
  <2>1. what \in Eps \cup {Control}
    BY UseFacts DEF ServerInv
  <2>2. [kind |-> "SUBMIT", what |-> what, seq |-> made + 1] \in Message
    BY <1>3, <2>1 DEF Message
  <2> QED
    BY <1>1, <2>2, AppendProperties DEF ServerInv, TypeOK
<1> QED
  BY <1>1, <1>2, <1>3, <1>4, <1>5, <1>6 DEF ServerInv, TypeOK

LEMMA TimeOutKeeps ==
    ASSUME ServerInv, NEW s \in 1 .. MaxRequests, TimeOut(s)
    PROVE  ServerInv'
<1>1. /\ waiting' = waiting \ {s}
      /\ inbox' = Append(inbox, [kind |-> "UNLINK", what |-> Control, seq |-> s])
      /\ UNCHANGED <<listVars, use, ready, sysLeft, sysUrb, srv, cur, conn, open, rst,
                     reply, made, urb, linked, strays, dead>>
  BY DEF TimeOut, sysVars, connVars
<1>2. OneOwner' /\ ListInv' /\ ListTypeOK'
  BY <1>1, OwnersKept DEF ServerInv
<1>3. waiting' \subseteq 1 .. MaxRequests /\ Cardinality(waiting') <= use.window
  <2>1. /\ waiting \subseteq 1 .. MaxRequests /\ use.window \in Nat
        /\ Cardinality(waiting) \in Nat /\ Cardinality(waiting \ {s}) \in Nat
        /\ Cardinality(waiting \ {s}) <= Cardinality(waiting) /\ Cardinality(waiting) <= use.window
    BY RequestSets, UseFacts DEF ServerInv, TypeOK
  <2> QED
    BY <1>1, <2>1
<1>4. inbox' \in Seq(Message)
  <2>1. [kind |-> "UNLINK", what |-> Control, seq |-> s] \in Message
    BY NumberAssumption DEF Message
  <2> QED
    BY <1>1, <2>1, AppendProperties DEF ServerInv, TypeOK
<1> QED
  BY <1>1, <1>2, <1>3, <1>4 DEF ServerInv, TypeOK

LEMMA CloseKeeps == ServerInv /\ Close => ServerInv'
<1> SUFFICES ASSUME ServerInv, Close PROVE ServerInv'
  OBVIOUS
<1>1. UNCHANGED <<listVars, use, ready, sysLeft, sysUrb, srv, cur, conn, rst, inbox,
                  reply, made, waiting, urb, linked, strays, dead>> /\ open' = FALSE
  BY DEF Close, sysVars, clientVars
<1>2. OneOwner' /\ ListInv' /\ ListTypeOK'
  BY <1>1, OwnersKept DEF ServerInv
<1> QED
  BY <1>1, <1>2 DEF ServerInv, TypeOK

LEMMA RecvKeeps ==
    ASSUME ServerInv, RecvImport \/ RecvDevlist \/ RecvUnlink
    PROVE  ServerInv'
<1>1. CASE Crash("null")
  BY <1>1, CrashKeeps
<1>2. CASE ~Crash("null")
  <2>1. /\ inbox # <<>> /\ inbox' = Tail(inbox)
        /\ reply' \in {reply, "import", "refused", "list"}
        /\ UNCHANGED <<listVars, use, ready, sysLeft, sysUrb, srv, cur, conn, open, rst,
                       made, waiting, urb, linked, strays, dead>>
    BY <1>2 DEF RecvImport, RecvDevlist, RecvUnlink, Received, sysVars, connVars, clientVars
  <2>2. OneOwner' /\ ListInv' /\ ListTypeOK'
    BY <2>1, OwnersKept DEF ServerInv
  <2>3. inbox' \in Seq(Message)
    BY <2>1, HeadTailProperties DEF ServerInv, TypeOK
  <2>4. reply' \in {"none", "import", "refused", "list"}
    BY <2>1 DEF ServerInv, TypeOK
  <2> QED
    BY <2>1, <2>2, <2>3, <2>4 DEF ServerInv, TypeOK
<1> QED
  BY <1>1, <1>2

LEMMA RecvEndKeeps == ServerInv /\ RecvEnd => ServerInv'
<1> SUFFICES ASSUME ServerInv, RecvEnd PROVE ServerInv'
  OBVIOUS
<1>1. CASE Crash("exit")
  BY <1>1, CrashKeeps
<1>2. CASE ~Crash("exit")
  <2>1. /\ srv = "recv" /\ srv' = "accept"
        /\ UNCHANGED <<listVars, use, ready, sysLeft, sysUrb, cur, conn, open, rst, inbox,
                       reply, made, waiting, urb, linked, strays, dead>>
    BY <1>2 DEF RecvEnd, sysVars, connVars, clientVars
  <2>2. UNCHANGED <<head, tail, next, prev, listed>>
    BY <2>1 DEF listVars
  <2>3. ListTypeOK' /\ ListInv' /\ IsInjective(listed)'
    BY <2>2 DEF ServerInv, ListInv, ListTypeOK, ListWhole
  <2>4. \A u : Registered(u)' <=> Registered(u)
    BY <2>2 DEF Registered
  <2>5. OneOwner'
    BY <2>1, <2>3, <2>4 DEF ServerInv, OneOwner
  <2> QED
    BY <2>1, <2>3, <2>5 DEF ServerInv, TypeOK
<1> QED
  BY <1>1, <1>2

LEMMA LinkedFacts ==
    ASSUME TypeOK
    PROVE  \A e \in Eps : /\ linked[e] \in Seq(Urbs) /\ Len(linked[e]) \in Nat
                          /\ DOMAIN linked[e] = 1 .. Len(linked[e])
                          /\ \A i \in 1 .. Len(linked[e]) : linked[e][i] \in Urbs
                          /\ linked[e] = <<>> <=> Len(linked[e]) = 0
<1> SUFFICES ASSUME NEW e \in Eps
             PROVE  /\ linked[e] \in Seq(Urbs) /\ Len(linked[e]) \in Nat
                    /\ DOMAIN linked[e] = 1 .. Len(linked[e])
                    /\ \A i \in 1 .. Len(linked[e]) : linked[e][i] \in Urbs
                    /\ linked[e] = <<>> <=> Len(linked[e]) = 0
  OBVIOUS
<1>1. linked[e] \in Seq(Urbs)
  BY DEF TypeOK
<1> QED
  BY <1>1, LenProperties, ElementOfSeq, EmptySeq

\* A bulk request is linked behind those of its endpoint.
LEMMA LinkedLast ==
    ASSUME TypeOK, NEW e \in Eps, NEW u \in Urbs,
           linked' = [linked EXCEPT ![e] = Append(@, u)]
    PROVE  /\ linked' \in [Eps -> Seq(Urbs)]
           /\ DOMAIN linked'[e] = 1 .. Len(linked[e]) + 1
           /\ linked'[e][Len(linked[e]) + 1] = u
           /\ \A i \in 1 .. Len(linked[e]) : linked'[e][i] = linked[e][i]
           /\ \A f \in Eps : f # e => linked'[f] = linked[f]
<1>1. /\ linked[e] \in Seq(Urbs) /\ linked \in [Eps -> Seq(Urbs)]
      /\ linked'[e] = Append(linked[e], u)
  BY DEF TypeOK
<1>2. /\ Append(linked[e], u) \in Seq(Urbs)
      /\ Len(Append(linked[e], u)) = Len(linked[e]) + 1
      /\ Append(linked[e], u)[Len(linked[e]) + 1] = u
      /\ \A i \in 1 .. Len(linked[e]) : Append(linked[e], u)[i] = linked[e][i]
  BY <1>1, AppendProperties
<1>3. DOMAIN linked'[e] = 1 .. Len(linked[e]) + 1
  BY <1>1, <1>2, LenProperties
<1> QED
  BY <1>1, <1>2, <1>3

\* The oldest one leaves.
LEMMA LinkedFirst ==
    ASSUME TypeOK, NEW e \in Eps, linked[e] # <<>>,
           linked' = [linked EXCEPT ![e] = Tail(@)]
    PROVE  /\ linked' \in [Eps -> Seq(Urbs)]
           /\ Head(linked[e]) = linked[e][1] /\ 1 \in DOMAIN linked[e]
           /\ Head(linked[e]) \in Urbs
           /\ linked'[e] = Tail(linked[e])
           /\ Len(linked'[e]) = Len(linked[e]) - 1
           /\ DOMAIN linked'[e] = 1 .. Len(linked[e]) - 1
           /\ \A i \in 1 .. Len(linked[e]) - 1 :
                 linked'[e][i] = linked[e][i + 1] /\ i + 1 \in DOMAIN linked[e] /\ i + 1 # 1
           /\ \A f \in Eps : f # e => linked'[f] = linked[f]
<1>1. /\ linked[e] \in Seq(Urbs) /\ linked \in [Eps -> Seq(Urbs)]
      /\ linked'[e] = Tail(linked[e])
  BY DEF TypeOK
<1>2. /\ Len(linked[e]) \in Nat /\ Len(linked[e]) # 0
      /\ DOMAIN linked[e] = 1 .. Len(linked[e])
  BY LinkedFacts
<1>3. /\ Tail(linked[e]) \in Seq(Urbs) /\ Head(linked[e]) = linked[e][1]
      /\ Head(linked[e]) \in Urbs
      /\ Len(Tail(linked[e])) = Len(linked[e]) - 1
      /\ \A i \in 1 .. Len(linked[e]) - 1 : Tail(linked[e])[i] = linked[e][i + 1]
  BY <1>1, HeadTailProperties
<1>4. DOMAIN linked'[e] = 1 .. Len(linked[e]) - 1
  BY <1>1, <1>3, LenProperties
<1>5. \A i \in 1 .. Len(linked[e]) - 1 : i + 1 \in DOMAIN linked[e] /\ i + 1 # 1
  BY <1>2
<1>6. 1 \in DOMAIN linked[e]
  BY <1>2
<1> QED
  BY <1>1, <1>3, <1>4, <1>5, <1>6

LEMMA RecvSubmitKeeps ==
    ASSUME ServerInv, NEW u \in Urbs, RecvSubmit(u)
    PROVE  ServerInv'
<1> DEFINE m == Head(inbox)
<1>1. /\ Received("SUBMIT") /\ ~Registered(u) /\ Register(u)
      /\ urb' = [urb EXCEPT ![u] = [conn |-> conn, seq |-> m.seq]]
      /\ inbox' = Tail(inbox)
      /\ UNCHANGED <<use, ready, sysLeft, sysUrb, conn, open, rst, reply, made, waiting,
                     strays, dead>>
  BY DEF RecvSubmit, sysVars, connVars, clientVars
<1>2. IF m.what = Control
      THEN srv' = "control" /\ cur' = u /\ UNCHANGED linked
      ELSE linked' = [linked EXCEPT ![m.what] = Append(@, u)] /\ UNCHANGED <<srv, cur>>
  BY DEF RecvSubmit
<1>3. srv = "recv" /\ inbox # <<>>
  BY <1>1 DEF Received
<1>4. inbox' \in Seq(Message) /\ m \in Message
  BY <1>1, <1>3, HeadTailProperties DEF ServerInv, TypeOK
<1>5. m.what \in Eps \cup {Control} /\ m.seq \in 0 .. MaxRequests
  BY <1>4 DEF Message
<1> HIDE DEF m
<1>6. urb' \in [Urbs -> [conn : 0 .. use.connections, seq : 0 .. MaxRequests]]
  BY <1>1, <1>5 DEF ServerInv, TypeOK
<1>7. ListInv' /\ \A v : Registered(v)' <=> Registered(v) \/ v = u
  BY <1>1, RegisterList DEF ServerInv
<1>8. ListTypeOK' /\ IsInjective(listed)'
  BY <1>7 DEF ListInv
<1>9. conn # 0 /\ cur = NoUrb /\ u # NoUrb /\ sysUrb # u
  BY <1>1, <1>3, UrbAssumption DEF ServerInv, TypeOK, OneOwner
<1>10. \A e \in Eps : \A i \in DOMAIN linked[e] :
          linked[e][i] \in Urbs /\ linked[e][i] # u /\ linked[e][i] # NoUrb
  BY <1>1, LinkedFacts, UrbAssumption DEF ServerInv, OneOwner
<1>11. CASE m.what = Control
  <2>1. srv' = "control" /\ cur' = u /\ linked' = linked
    BY <1>2, <1>11
  <2>2. OneOwner'
    BY <1>1, <1>7, <1>8, <1>9, <1>10, <2>1 DEF ServerInv, OneOwner
  <2> QED
    BY <1>1, <1>4, <1>6, <1>7, <1>8, <2>1, <2>2 DEF ServerInv, TypeOK
<1>12. CASE m.what # Control
  <2> DEFINE e == m.what
             n == Len(linked[e])
  <2>1. /\ linked' = [linked EXCEPT ![e] = Append(@, u)] /\ srv' = srv /\ cur' = cur
        /\ e \in Eps
    BY <1>2, <1>5, <1>12
  <2> HIDE DEF e
  <2>2. /\ linked' \in [Eps -> Seq(Urbs)]
        /\ DOMAIN linked'[e] = 1 .. n + 1
        /\ linked'[e][n + 1] = u
        /\ \A i \in 1 .. n : linked'[e][i] = linked[e][i]
        /\ \A f \in Eps : f # e => linked'[f] = linked[f]
    BY <2>1, LinkedLast DEF ServerInv
  <2>3. n \in Nat /\ DOMAIN linked[e] = 1 .. n
    BY <2>1, LinkedFacts DEF ServerInv
  <2> HIDE DEF n
  <2>4. \A f \in Eps : \A i \in DOMAIN linked'[f] :
           \/ f = e /\ i = n + 1 /\ linked'[f][i] = u
           \/ i \in DOMAIN linked[f] /\ linked'[f][i] = linked[f][i]
    <3> SUFFICES ASSUME NEW f \in Eps, NEW i \in DOMAIN linked'[f],
                        ~(f = e /\ i = n + 1)
                 PROVE  i \in DOMAIN linked[f] /\ linked'[f][i] = linked[f][i]
      BY <2>2
    <3>1. CASE f = e
      <4>1. i \in 1 .. n
        BY <2>2, <2>3, <3>1
      <4> QED
        BY <2>2, <2>3, <3>1, <4>1
    <3>2. CASE f # e
      BY <2>2, <3>2
    <3> QED
      BY <3>1, <3>2
  <2>5. \A f \in Eps : \A i \in DOMAIN linked'[f] :
           linked'[f][i] \in Range(listed') /\ linked'[f][i] \notin {sysUrb', cur'}
    BY <1>1, <1>7, <1>9, <1>10, <2>1, <2>4 DEF ServerInv, OneOwner, Registered
  <2>6. \A f, g \in Eps : \A i \in DOMAIN linked'[f], j \in DOMAIN linked'[g] :
           linked'[f][i] = linked'[g][j] => f = g /\ i = j
    BY <1>10, <2>4 DEF ServerInv, OneOwner
  <2>7. OneOwner'
    BY <1>1, <1>7, <1>8, <1>9, <2>1, <2>5, <2>6 DEF ServerInv, OneOwner, Registered
  <2>8. use \in Scenario /\ TypeOK
    BY DEF ServerInv
  <2>9. TypeOK'
    <3>1. /\ UNCHANGED <<use, ready, sysLeft, sysUrb, conn, open, rst, reply, made, waiting,
                          strays, dead>>
          /\ srv' = srv /\ cur' = cur
      BY ONLY <1>1, <2>1
    <3>2. /\ ready' \in BOOLEAN /\ sysLeft' \in 0 .. use'.sysTransfers
          /\ sysUrb' \in Urbs \cup {NoUrb} /\ cur' \in Urbs \cup {NoUrb}
          /\ srv' \in {"accept", "recv", "control"}
          /\ conn' \in 0 .. use'.connections /\ open' \in BOOLEAN /\ rst' \in BOOLEAN
      BY ONLY <3>1, <2>8 DEF TypeOK
    <3>3. /\ reply' \in {"none", "import", "refused", "list"} /\ made' \in 0 .. MaxRequests
          /\ waiting' \subseteq 1 .. MaxRequests /\ Cardinality(waiting') <= use'.window
          /\ strays' \subseteq 1 .. use'.connections
          /\ dead' \in {"no", "null", "exit", "pipe"}
      BY ONLY <3>1, <2>8 DEF TypeOK
    <3>4. urb' \in [Urbs -> [conn : 0 .. use'.connections, seq : 0 .. MaxRequests]]
      BY ONLY <1>6, <3>1
    <3> QED
      BY ONLY <1>4, <1>8, <2>2, <3>2, <3>3, <3>4 DEF TypeOK
  <2> QED
    BY ONLY <1>1, <1>7, <2>7, <2>8, <2>9 DEF ServerInv
<1> QED
  BY <1>11, <1>12

\* on_urb_complete, without what becomes of srv, cur and linked.
LEMMA FinishFacts ==
    ASSUME ServerInv, NEW u \in Urbs, Registered(u), Finish(u)
    PROVE  /\ ListInv' /\ ListTypeOK' /\ IsInjective(listed)'
           /\ \A v : Registered(v)' <=> Registered(v) /\ v # u
           /\ urb' = [urb EXCEPT ![u] = Free]
           /\ urb' \in [Urbs -> [conn : 0 .. use.connections, seq : 0 .. MaxRequests]]
           /\ rst' \in BOOLEAN
           /\ waiting' \subseteq waiting
           /\ waiting' \subseteq 1 .. MaxRequests /\ Cardinality(waiting') <= use.window
           /\ strays' \subseteq 1 .. use.connections
           /\ dead' \in {"no", "null", "exit", "pipe"}
           /\ UNCHANGED <<use, ready, sysLeft, sysUrb, conn, open, inbox, reply, made>>
<1>1. /\ Answer(u) /\ Unregister(u) /\ urb' = [urb EXCEPT ![u] = Free]
      /\ UNCHANGED <<use, ready, sysLeft, sysUrb, conn, open, inbox, reply, made>>
  BY DEF Finish, sysVars
<1>2. ListInv' /\ \A v : Registered(v)' <=> Registered(v) /\ v # u
  BY <1>1, UnregisterList DEF ServerInv
<1>3. urb' \in [Urbs -> [conn : 0 .. use.connections, seq : 0 .. MaxRequests]]
  BY <1>1, UseFacts, NumberAssumption DEF ServerInv, TypeOK, Free
<1>4. rst' \in BOOLEAN /\ dead' \in {"no", "null", "exit", "pipe"}
  BY <1>1 DEF ServerInv, TypeOK, Answer
<1>5. strays' \subseteq 1 .. use.connections
  <2>1. srv # "accept" => conn \in 1 .. use.connections
    BY UseFacts DEF ServerInv, TypeOK, OneOwner
  <2>2. strays' = strays \/ (srv # "accept" /\ strays' = strays \cup {conn})
    BY <1>1 DEF Answer
  <2> QED
    BY <2>1, <2>2 DEF ServerInv, TypeOK
<1>6. waiting' = waiting \/ waiting' = waiting \ {urb[u].seq}
  BY <1>1 DEF Answer
<1>7. waiting \subseteq 1 .. MaxRequests /\ Cardinality(waiting) <= use.window /\ use.window \in Nat
  BY UseFacts DEF ServerInv, TypeOK
<1>8. Cardinality(waiting') <= use.window
  <2>1. waiting' \subseteq 1 .. MaxRequests
    BY <1>6, <1>7
  <2>2. Cardinality(waiting) \in Nat /\ Cardinality(waiting') \in Nat
    BY <1>7, <2>1, RequestSets
  <2>3. Cardinality(waiting') <= Cardinality(waiting)
    <3>1. \A s : Cardinality(waiting \ {s}) <= Cardinality(waiting)
      BY <1>7, RequestSets
    <3> QED
      BY <1>6, <2>2, <3>1
  <2> QED
    BY <1>7, <2>2, <2>3
<1>9. ListTypeOK' /\ IsInjective(listed)'
  BY <1>2 DEF ListInv
<1> QED
  BY <1>1, <1>2, <1>3, <1>4, <1>5, <1>6, <1>7, <1>8, <1>9

LEMMA ControlDoneKeeps == ServerInv /\ ControlDone => ServerInv'
<1> SUFFICES ASSUME ServerInv, ControlDone PROVE ServerInv'
  OBVIOUS
<1>1. CASE Crash("null")
  BY <1>1, CrashKeeps
<1>2. CASE ~Crash("null")
  <2>1. /\ srv = "control" /\ Finish(cur)
        /\ srv' = "recv" /\ cur' = NoUrb /\ linked' = linked
    BY <1>2 DEF ControlDone
  <2>2. cur \in Urbs /\ Registered(cur) /\ conn # 0
    BY <2>1 DEF ServerInv, TypeOK, OneOwner
  <2>3. /\ ListInv' /\ ListTypeOK' /\ IsInjective(listed)'
        /\ \A v : Registered(v)' <=> Registered(v) /\ v # cur
        /\ urb' \in [Urbs -> [conn : 0 .. use.connections, seq : 0 .. MaxRequests]]
        /\ rst' \in BOOLEAN
        /\ waiting' \subseteq 1 .. MaxRequests /\ Cardinality(waiting') <= use.window
        /\ strays' \subseteq 1 .. use.connections
        /\ dead' \in {"no", "null", "exit", "pipe"}
        /\ UNCHANGED <<use, ready, sysLeft, sysUrb, conn, open, inbox, reply, made>>
    BY <2>1, <2>2, FinishFacts
  <2>4. \A e \in Eps : \A i \in DOMAIN linked[e] : linked[e][i] \in Urbs
    BY LinkedFacts DEF ServerInv
  <2>5. OneOwner'
    BY <2>1, <2>2, <2>3, <2>4, UrbAssumption DEF ServerInv, OneOwner
  <2>6. TypeOK'
    BY <2>1, <2>3 DEF ServerInv, TypeOK
  <2> QED
    BY <2>3, <2>5, <2>6 DEF ServerInv
<1> QED
  BY <1>1, <1>2

LEMMA BulkDoneKeeps ==
    ASSUME ServerInv, NEW e \in Eps, BulkDone(e)
    PROVE  ServerInv'
<1>1. CASE Crash("null")
  BY <1>1, CrashKeeps
<1>2. CASE ~Crash("null")
  <2> DEFINE u == Head(linked[e])
             n == Len(linked[e])
  <2>1. /\ linked[e] # <<>> /\ Finish(u)
        /\ linked' = [linked EXCEPT ![e] = Tail(@)] /\ srv' = srv /\ cur' = cur
    BY <1>2 DEF BulkDone
  <2>2. /\ linked' \in [Eps -> Seq(Urbs)]
        /\ u = linked[e][1] /\ 1 \in DOMAIN linked[e] /\ u \in Urbs
        /\ DOMAIN linked'[e] = 1 .. n - 1
        /\ \A i \in 1 .. n - 1 :
              linked'[e][i] = linked[e][i + 1] /\ i + 1 \in DOMAIN linked[e] /\ i + 1 # 1
        /\ \A f \in Eps : f # e => linked'[f] = linked[f]
    BY <2>1, LinkedFirst DEF ServerInv
  <2>3. n \in Nat /\ DOMAIN linked[e] = 1 .. n
    BY LinkedFacts DEF ServerInv
  <2>4. Registered(u) /\ u # sysUrb /\ u # cur
    BY <2>2 DEF ServerInv, OneOwner
  <2> HIDE DEF u, n
  <2>5. /\ ListInv' /\ ListTypeOK' /\ IsInjective(listed)'
        /\ \A v : Registered(v)' <=> Registered(v) /\ v # u
        /\ urb' \in [Urbs -> [conn : 0 .. use.connections, seq : 0 .. MaxRequests]]
        /\ rst' \in BOOLEAN
        /\ waiting' \subseteq 1 .. MaxRequests /\ Cardinality(waiting') <= use.window
        /\ strays' \subseteq 1 .. use.connections
        /\ dead' \in {"no", "null", "exit", "pipe"}
        /\ UNCHANGED <<use, ready, sysLeft, sysUrb, conn, open, inbox, reply, made>>
    BY <2>1, <2>2, <2>4, FinishFacts
  <2>6. \A f \in Eps : \A i \in DOMAIN linked'[f] :
           \E k \in DOMAIN linked[f] :
              /\ linked'[f][i] = linked[f][k] /\ ~(f = e /\ k = 1)
              /\ k = IF f = e THEN i + 1 ELSE i
    BY <2>2
  <2>7. \A f \in Eps : \A i \in DOMAIN linked'[f] :
           linked'[f][i] \in Range(listed') /\ linked'[f][i] \notin {sysUrb', cur'}
    BY <2>1, <2>2, <2>5, <2>6 DEF ServerInv, OneOwner, Registered
  <2>8. \A f, g \in Eps : \A i \in DOMAIN linked'[f], j \in DOMAIN linked'[g] :
           linked'[f][i] = linked'[g][j] => f = g /\ i = j
    <3> SUFFICES ASSUME NEW f \in Eps, NEW g \in Eps, NEW i \in DOMAIN linked'[f],
                        NEW j \in DOMAIN linked'[g], linked'[f][i] = linked'[g][j]
                 PROVE  f = g /\ i = j
      OBVIOUS
    <3>1. PICK k \in DOMAIN linked[f] :
             linked'[f][i] = linked[f][k] /\ k = IF f = e THEN i + 1 ELSE i
      BY <2>6
    <3>2. PICK l \in DOMAIN linked[g] :
             linked'[g][j] = linked[g][l] /\ l = IF g = e THEN j + 1 ELSE j
      BY <2>6
    <3>3. \A i1 \in DOMAIN linked[f], j1 \in DOMAIN linked[g] :
             linked[f][i1] = linked[g][j1] => f = g /\ i1 = j1
      BY DEF ServerInv, OneOwner
    <3>4. f = g /\ k = l
      BY <3>1, <3>2, <3>3
    <3>5. CASE f = e
      <4>1. i \in Int /\ j \in Int /\ i + 1 = j + 1
        BY <2>2, <3>1, <3>2, <3>4, <3>5
      <4> QED
        BY <3>4, <4>1
    <3>6. CASE f # e
      BY <3>1, <3>2, <3>4, <3>6
    <3> QED
      BY <3>5, <3>6
  <2>9. OneOwner'
    BY <2>1, <2>4, <2>5, <2>7, <2>8 DEF ServerInv, OneOwner, Registered
  <2>10. TypeOK'
    BY <2>1, <2>2, <2>5 DEF ServerInv, TypeOK
  <2> QED
    BY <2>5, <2>9, <2>10 DEF ServerInv
<1> QED
  BY <1>1, <1>2

LEMMA ServerStep == ServerInv /\ [Next]_vars => ServerInv'
<1> SUFFICES ASSUME ServerInv, [Next]_vars PROVE ServerInv'
  OBVIOUS
<1>1. CASE UNCHANGED vars
  BY <1>1, StutterKeeps
<1>2. CASE System
  BY <1>2, PublishKeeps, SysDoneKeeps, SysSubmitKeeps DEF System
<1>3. CASE Client
  BY <1>3, ConnectKeeps, CloseKeeps, AskKeeps, TimeOutKeeps DEF Client
<1>4. CASE Server
  BY <1>4, RecvKeeps, RecvEndKeeps, ControlDoneKeeps, RecvSubmitKeeps DEF Server
<1>5. CASE \E e \in Eps : BulkDone(e)
  BY <1>5, BulkDoneKeeps
<1> QED
  BY <1>1, <1>2, <1>3, <1>4, <1>5 DEF Next

\* Whatever clients, threads and connections do, the variables keep their types.
THEOREM ServerTypeCorrect == Spec => []TypeOK
<1>1. ServerInv => TypeOK
  BY DEF ServerInv
<1> QED
  BY <1>1, ServerInit, ServerStep, PTL DEF Spec

\* The list of URBs is whole for any number of URBs, whatever order the transfers
\* of several endpoints and threads complete in, as long as no null pointer
\* has been followed: a URB that is unlinked is on the list, once.
THEOREM UrbListWhole == Spec => []ListWhole
<1>1. ServerInv => ListWhole
  BY DEF ServerInv, ListInv
<1> QED
  BY <1>1, ServerInit, ServerStep, PTL DEF Spec

-----------------------------------------------------------------------------
(***************************************************************************)
(* Patient clients, each of which uses one endpoint or the control pipe.   *)
(***************************************************************************)
OneEndpoint == \A s \in Scenarios : s.patient => \A x, y \in s.asks : x = y

LEMMA OutstandingSame ==
    ASSUME UNCHANGED <<cur, linked>>
    PROVE  \A u : Outstanding(u)' <=> Outstanding(u)
BY DEF Outstanding, Range

\* A step that changes neither owners nor requests, though the server may have
\* read d messages that are not requests.
LEMMA RequestsSame ==
    ASSUME PatientRequests, NEW d \in Int,
           UNCHANGED <<use, srv, cur, conn, open, made, waiting, urb, linked>>,
           \A i \in Submits' : i \in Int /\ i + d \in Submits /\ inbox'[i] = inbox[i + d]
    PROVE  PatientRequests'
<1>1. \A u : Outstanding(u)' <=> Outstanding(u)
  BY OutstandingSame
<1>2. \A i, j \in Submits' : inbox'[i].seq = inbox'[j].seq => i = j
  <2> SUFFICES ASSUME NEW i \in Submits', NEW j \in Submits', inbox'[i].seq = inbox'[j].seq
               PROVE  i = j
    OBVIOUS
  <2>1. i + d = j + d
    BY DEF PatientRequests
  <2>2. i \in Int /\ j \in Int
    OBVIOUS
  <2> QED
    BY <2>1, <2>2
<1>3. \A i \in Submits' : inbox'[i].seq \in waiting /\ inbox'[i].what \in use.asks
  BY DEF PatientRequests
<1>4. \A u \in Urbs, i \in Submits' : Outstanding(u) => urb[u].seq # inbox'[i].seq
  BY DEF PatientRequests
<1> QED
  BY <1>1, <1>2, <1>3, <1>4 DEF PatientRequests

LEMMA InboxFacts ==
    ASSUME TypeOK
    PROVE  /\ inbox \in Seq(Message) /\ Len(inbox) \in Nat /\ DOMAIN inbox = 1 .. Len(inbox)
           /\ inbox # <<>> => 1 \in DOMAIN inbox /\ Head(inbox) = inbox[1]
<1>1. inbox \in Seq(Message)
  BY DEF TypeOK
<1>2. inbox # <<>> => Len(inbox) # 0
  BY <1>1, EmptySeq
<1> QED
  BY <1>1, <1>2, LenProperties, HeadTailProperties

LEMMA InboxTail ==
    ASSUME TypeOK, inbox # <<>>, inbox' = Tail(inbox)
    PROVE  \A i \in Submits' :
              i \in Int /\ i + 1 # 1 /\ i + 1 \in Submits /\ inbox'[i] = inbox[i + 1]
<1>1. /\ inbox \in Seq(Message) /\ Len(inbox) \in Nat /\ DOMAIN inbox = 1 .. Len(inbox)
  BY InboxFacts
<1>2. /\ Tail(inbox) \in Seq(Message) /\ Len(Tail(inbox)) = Len(inbox) - 1
      /\ \A i \in 1 .. Len(inbox) - 1 : Tail(inbox)[i] = inbox[i + 1]
  BY <1>1, HeadTailProperties
<1>3. DOMAIN inbox' = 1 .. Len(inbox) - 1
  BY <1>2, LenProperties
<1>4. \A i \in 1 .. Len(inbox) - 1 : i \in Int /\ i + 1 # 1 /\ i + 1 \in DOMAIN inbox
  BY <1>1
<1> QED
  BY <1>2, <1>3, <1>4 DEF Submits

\* The order of completion does not change either.
LEMMA OrderSame ==
    ASSUME PatientOrder, ready => ready',
           UNCHANGED <<listed, use, sysLeft, sysUrb, srv, cur, conn, linked>>
    PROVE  PatientOrder'
<1>1. \A u : Outstanding(u)' <=> Outstanding(u)
  BY OutstandingSame
<1> QED
  BY <1>1 DEF PatientOrder

LEMMA PatientSystem ==
    ASSUME ServerInv, use.patient, PatientInv, System
    PROVE  PatientInv'
<1>1. /\ PatientOrder /\ PatientRequests /\ dead = "no" /\ ~rst /\ strays = {}
  BY DEF PatientInv, Alive
<1>2. CASE Publish
  <2>1. /\ ready' = TRUE
        /\ UNCHANGED <<listVars, use, sysLeft, sysUrb, srv, cur, conn, open, rst, inbox,
                       reply, made, waiting, urb, linked, strays, dead>>
    BY <1>2 DEF Publish, connVars, clientVars
  <2>2. listed' = listed
    BY <2>1 DEF listVars
  <2>3. PatientOrder'
    BY <1>1, <2>1, <2>2, OrderSame
  <2>4. \A i \in Submits' : i \in Int /\ i + 0 \in Submits /\ inbox'[i] = inbox[i + 0]
    BY <2>1, InboxFacts DEF ServerInv, Submits
  <2>5. PatientRequests'
    BY <1>1, <2>1, <2>4, RequestsSame
  <2> QED
    BY <1>1, <2>1, <2>3, <2>5 DEF PatientInv, Alive
<1>3. ASSUME NEW u \in Urbs, SysSubmit(u) PROVE PatientInv'
  <2>1. /\ sysLeft > 0 /\ sysUrb = NoUrb /\ ~Registered(u) /\ Register(u) /\ sysUrb' = u
        /\ sysLeft' = sysLeft - 1
        /\ UNCHANGED <<use, ready, srv, cur, conn, open, rst, inbox, reply, made, waiting,
                       urb, linked, strays, dead>>
    BY <1>3 DEF SysSubmit, connVars, clientVars
  <2>2. conn = 0 /\ listed = <<>>
    BY <1>1, <2>1 DEF PatientOrder
  <2>3. listed' = <<u>> /\ u # NoUrb
    BY <2>1, <2>2, RegisterList, UrbAssumption DEF ServerInv
  <2>4. srv = "accept"
    BY <2>2 DEF ServerInv, OneOwner
  <2>5. \A e \in Eps : linked[e] = <<>>
    BY <1>1, <2>2 DEF PatientOrder
  <2>6. PatientOrder'
    BY <2>1, <2>2, <2>3, <2>4, <2>5 DEF PatientOrder
  <2>7. \A i \in Submits' : i \in Int /\ i + 0 \in Submits /\ inbox'[i] = inbox[i + 0]
    BY <2>1, InboxFacts DEF ServerInv, Submits
  <2>8. PatientRequests'
    BY <1>1, <2>1, <2>7, RequestsSame
  <2> QED
    BY <1>1, <2>1, <2>6, <2>8 DEF PatientInv, Alive
<1>4. CASE SysDone
  <2>1. sysUrb # NoUrb
    BY <1>4 DEF SysDone
  <2>2. conn = 0 /\ listed = <<sysUrb>> /\ sysUrb \in Urbs
    BY <1>1, <2>1 DEF PatientOrder, ServerInv, TypeOK
  <2>3. listed # <<>> /\ listed[1] = sysUrb /\ Tail(listed) = <<>>
    BY <2>2
  <2>4. ~FollowsNull(sysUrb)
    BY <2>3, FirstCanGo DEF ServerInv
  <2>5. /\ Unregister(sysUrb) /\ sysUrb' = NoUrb
        /\ UNCHANGED <<use, ready, sysLeft, srv, cur, conn, open, rst, inbox, reply, made,
                       waiting, urb, linked, strays, dead>>
    BY <1>4, <2>4 DEF SysDone, connVars, clientVars
  <2>6. listed' = <<>>
    <3>1. Registered(sysUrb)
      BY <2>1 DEF ServerInv, OneOwner
    <3> QED
      BY <2>2, <2>3, <2>5, <3>1, UnregisterList DEF ServerInv
  <2>7. srv = "accept"
    BY <2>2 DEF ServerInv, OneOwner
  <2>8. \A e \in Eps : linked[e] = <<>>
    <3> SUFFICES ASSUME NEW e \in Eps, linked[e] # <<>> PROVE FALSE
      OBVIOUS
    <3>1. listed = linked[e]
      BY <1>1 DEF PatientOrder
    <3>2. 1 \in DOMAIN linked[e] /\ linked[e][1] = sysUrb
      BY <2>2, <3>1
    <3> QED
      BY <3>2 DEF ServerInv, OneOwner
  <2>9. PatientOrder'
    BY <2>2, <2>5, <2>6, <2>7, <2>8 DEF PatientOrder
  <2>10. \A i \in Submits' : i \in Int /\ i + 0 \in Submits /\ inbox'[i] = inbox[i + 0]
    BY <2>5, InboxFacts DEF ServerInv, Submits
  <2>11. PatientRequests'
    BY <1>1, <2>5, <2>10, RequestsSame
  <2> QED
    BY <1>1, <2>5, <2>9, <2>11 DEF PatientInv, Alive
<1> QED
  BY <1>2, <1>3, <1>4 DEF System

LEMMA PatientConnect ==
    ASSUME ServerInv, use.patient, PatientInv, Connect
    PROVE  PatientInv'
<1>1. /\ PatientOrder /\ PatientRequests /\ dead = "no" /\ ~rst /\ strays = {}
  BY DEF PatientInv, Alive
<1>2. /\ srv = "accept" /\ srv' = "recv" /\ conn' = conn + 1 /\ open' = TRUE /\ rst' = FALSE
      /\ ready /\ sysLeft = 0 /\ sysUrb = NoUrb /\ made' = 0 /\ waiting' = {}
      /\ UNCHANGED <<listVars, use, ready, sysLeft, sysUrb, cur, urb, linked, strays, dead>>
  BY DEF Connect, sysVars
<1>3. PICK first \in Firsts : inbox' = <<[kind |-> first, what |-> Control, seq |-> 0]>>
  BY DEF Connect
<1>4. waiting = {}
  BY <1>1, <1>2 DEF PatientRequests
<1>5. \A u \in Urbs : ~Outstanding(u) /\ ~Outstanding(u)'
  BY <1>1, <1>2, <1>4, OutstandingSame DEF PatientRequests
<1>6. listed = <<>> /\ listed' = <<>>
  <2>1. listed' = listed
    BY <1>2 DEF listVars
  <2> QED
    BY <1>1, <1>2, <1>5, <2>1 DEF PatientOrder
<1>7. conn' # 0
  BY <1>2, UseFacts DEF ServerInv, TypeOK
<1>8. \A e \in Eps : linked[e] = <<>>
  BY <1>1, <1>6 DEF PatientOrder
<1>9. PatientOrder'
  BY <1>2, <1>6, <1>7, <1>8 DEF PatientOrder
<1>10. Submits' = {}
  BY <1>3 DEF Submits, Firsts
<1>11. PatientRequests'
  BY <1>2, <1>5, <1>7, <1>10 DEF PatientRequests
<1> QED
  BY <1>1, <1>2, <1>9, <1>11 DEF PatientInv, Alive

LEMMA PatientClient ==
    ASSUME ServerInv, use.patient, PatientInv, Client
    PROVE  PatientInv'
<1>1. /\ PatientOrder /\ PatientRequests /\ dead = "no" /\ ~rst /\ strays = {}
  BY DEF PatientInv, Alive
<1>2. CASE Close
  <2>1. /\ waiting = {} /\ open' = FALSE
        /\ UNCHANGED <<listVars, use, ready, sysLeft, sysUrb, srv, cur, conn, rst, inbox,
                       reply, made, waiting, urb, linked, strays, dead>>
    BY <1>2 DEF Close, sysVars, clientVars
  <2>2. listed' = listed
    BY <2>1 DEF listVars
  <2>3. PatientOrder'
    BY <1>1, <2>1, <2>2, OrderSame
  <2>4. Submits' = Submits /\ \A u : Outstanding(u)' <=> Outstanding(u)
    BY <2>1, OutstandingSame DEF Submits
  <2>5. PatientRequests'
    BY <1>1, <2>1, <2>4 DEF PatientRequests
  <2> QED
    BY <1>1, <2>1, <2>3, <2>5 DEF PatientInv, Alive
<1>3. ASSUME NEW what \in use.asks, Ask(what) PROVE PatientInv'
  <2> DEFINE m == [kind |-> "SUBMIT", what |-> what, seq |-> made + 1]
  <2>1. /\ open /\ made' = made + 1 /\ waiting' = waiting \cup {made + 1}
        /\ inbox' = Append(inbox, m)
        /\ UNCHANGED <<listVars, use, ready, sysLeft, sysUrb, srv, cur, conn, open, rst,
                       reply, urb, linked, strays, dead>>
    BY <1>3 DEF Ask, sysVars, connVars
  <2>2. listed' = listed
    BY <2>1 DEF listVars
  <2>3. PatientOrder'
    BY <1>1, <2>1, <2>2, OrderSame
  <2>4. made \in Nat /\ made + 1 \notin waiting /\ waiting' \subseteq 1 .. made'
    BY <1>1, <2>1, NumberAssumption DEF PatientRequests, ServerInv, TypeOK
  <2>5. /\ inbox \in Seq(Message) /\ Len(inbox) \in Nat /\ DOMAIN inbox = 1 .. Len(inbox)
    BY InboxFacts DEF ServerInv
  <2>6. m.what = what /\ m.seq = made + 1
    OBVIOUS
  <2>7. m \in Message
    BY <1>3, AskKeeps, UseFacts, NumberAssumption DEF Message, ServerInv
  <2> HIDE DEF m
  <2>8. /\ DOMAIN inbox' = 1 .. Len(inbox) + 1 /\ inbox'[Len(inbox) + 1] = m
        /\ \A i \in 1 .. Len(inbox) : inbox'[i] = inbox[i]
    BY <2>1, <2>5, <2>7, AppendProperties, LenProperties
  <2>9. \A i \in Submits' : \/ i \in Submits /\ inbox'[i] = inbox[i]
                            \/ i = Len(inbox) + 1 /\ inbox'[i] = m
    <3> SUFFICES ASSUME NEW i \in Submits', i # Len(inbox) + 1
                 PROVE  i \in Submits /\ inbox'[i] = inbox[i]
      BY <2>8
    <3>1. i \in 1 .. Len(inbox)
      BY <2>5, <2>8 DEF Submits
    <3> QED
      BY <2>5, <2>8, <3>1 DEF Submits
  <2>10. \A u : Outstanding(u)' <=> Outstanding(u)
    BY <2>1, OutstandingSame
  <2>11. \A i \in Submits' : inbox'[i].seq \in waiting' /\ inbox'[i].what \in use.asks
    BY <1>1, <1>3, <2>1, <2>6, <2>9 DEF PatientRequests
  <2>12. \A i, j \in Submits' : inbox'[i].seq = inbox'[j].seq => i = j
    BY <1>1, <2>4, <2>6, <2>9 DEF PatientRequests
  <2>13. \A u \in Urbs, i \in Submits' : Outstanding(u) => urb[u].seq # inbox'[i].seq
    BY <1>1, <2>4, <2>6, <2>9 DEF PatientRequests
  <2>14. PatientRequests'
    BY <1>1, <2>1, <2>4, <2>10, <2>11, <2>12, <2>13 DEF PatientRequests
  <2> QED
    BY <1>1, <2>1, <2>3, <2>14 DEF PatientInv, Alive
<1>4. \A s \in 1 .. MaxRequests : ~TimeOut(s)
  BY DEF TimeOut
<1> QED
  BY <1>2, <1>3, <1>4, PatientConnect DEF Client

\* The first answer and what is not a request.
LEMMA PatientRecv ==
    ASSUME ServerInv, use.patient, PatientInv, RecvImport \/ RecvDevlist \/ RecvUnlink
    PROVE  PatientInv'
<1>1. /\ PatientOrder /\ PatientRequests /\ dead = "no" /\ ~rst /\ strays = {}
  BY DEF PatientInv, Alive
<1>2. srv = "recv" /\ inbox # <<>>
  BY DEF RecvImport, RecvDevlist, RecvUnlink, Received
<1>3. ready
  BY <1>1, <1>2 DEF PatientOrder, ServerInv, OneOwner
<1>4. /\ inbox' = Tail(inbox)
      /\ UNCHANGED <<listVars, use, ready, sysLeft, sysUrb, srv, cur, conn, open, rst,
                     made, waiting, urb, linked, strays, dead>>
  BY <1>3 DEF RecvImport, RecvDevlist, RecvUnlink, sysVars, connVars, clientVars
<1>5. listed' = listed
  BY <1>4 DEF listVars
<1>6. PatientOrder'
  BY <1>1, <1>4, <1>5, OrderSame
<1>7. \A i \in Submits' : i \in Int /\ i + 1 \in Submits /\ inbox'[i] = inbox[i + 1]
  BY <1>2, <1>4, InboxTail DEF ServerInv
<1>8. PatientRequests'
  <2>1. 1 \in Int
    OBVIOUS
  <2> QED
    BY <1>1, <1>4, <1>7, <2>1, RequestsSame
<1> QED
  BY <1>1, <1>4, <1>6, <1>8 DEF PatientInv, Alive

LEMMA PatientRecvEnd ==
    ASSUME ServerInv, use.patient, PatientInv, RecvEnd
    PROVE  PatientInv'
<1>1. /\ PatientOrder /\ PatientRequests /\ dead = "no" /\ ~rst /\ strays = {}
  BY DEF PatientInv, Alive
<1>2. /\ srv = "recv" /\ ~open /\ inbox = <<>> /\ srv' = "accept"
      /\ UNCHANGED <<listVars, use, ready, sysLeft, sysUrb, cur, conn, open, rst, inbox,
                     reply, made, waiting, urb, linked, strays, dead>>
  BY <1>1 DEF RecvEnd, sysVars, connVars, clientVars
<1>3. listed' = listed
  BY <1>2 DEF listVars
<1>4. Submits' = Submits /\ \A u : Outstanding(u)' <=> Outstanding(u)
  BY <1>2, OutstandingSame DEF Submits
<1>5. PatientOrder'
  BY <1>1, <1>2, <1>3, <1>4 DEF PatientOrder
<1>6. PatientRequests'
  BY <1>1, <1>2, <1>4 DEF PatientRequests
<1> QED
  BY <1>1, <1>2, <1>5, <1>6 DEF PatientInv, Alive

\* The answer goes to the client that waits for it.
LEMMA PatientAnswer ==
    ASSUME ServerInv, PatientInv, use.patient,
           NEW u \in Urbs, Outstanding(u), Finish(u)
    PROVE  /\ waiting' = waiting \ {urb[u].seq} /\ open /\ conn # 0 /\ srv # "accept"
           /\ urb' = [urb EXCEPT ![u] = Free]
           /\ UNCHANGED <<use, ready, sysLeft, sysUrb, conn, open, rst, inbox, reply, made,
                          strays, dead>>
<1>1. PatientRequests
  BY DEF PatientInv
<1>2. urb[u].conn = conn /\ urb[u].seq \in waiting
  BY <1>1 DEF PatientRequests
<1>3. open /\ conn # 0 /\ srv # "accept"
  BY <1>1, <1>2 DEF PatientRequests
<1> QED
  BY <1>2, <1>3 DEF Finish, Answer, sysVars

\* The requests that are left, when u is answered.
LEMMA RequestsAfter ==
    ASSUME ServerInv, PatientRequests, NEW u \in Urbs, Outstanding(u),
           waiting' = waiting \ {urb[u].seq}, open, conn # 0, srv' # "accept",
           urb' = [urb EXCEPT ![u] = Free],
           UNCHANGED <<use, conn, open, inbox, made>>,
           \A v \in Urbs : Outstanding(v)' => Outstanding(v) /\ v # u
    PROVE  PatientRequests'
<1>1. Submits' = Submits
  BY DEF Submits
<1>2. \A v \in Urbs : v # u => urb'[v] = urb[v]
  BY DEF ServerInv, TypeOK
<1>3. \A v \in Urbs : Outstanding(v)' => urb'[v] = urb[v] /\ urb[v].seq # urb[u].seq
  BY <1>2 DEF PatientRequests
<1>4. \A v \in Urbs : Outstanding(v)' => urb'[v].conn = conn' /\ urb'[v].seq \in waiting'
  BY <1>3 DEF PatientRequests
<1>5. \A i \in Submits : inbox[i].seq # urb[u].seq
  BY DEF PatientRequests
<1>6. \A i \in Submits' : inbox'[i].seq \in waiting' /\ inbox'[i].what \in use'.asks
  BY <1>1, <1>5 DEF PatientRequests
<1>7. \A v, w \in Urbs : Outstanding(v)' /\ Outstanding(w)' /\ urb'[v].seq = urb'[w].seq => v = w
  BY <1>3 DEF PatientRequests
<1>8. \A v \in Urbs, i \in Submits' : Outstanding(v)' => urb'[v].seq # inbox'[i].seq
  BY <1>1, <1>3 DEF PatientRequests
<1>9. \A i, j \in Submits' : inbox'[i].seq = inbox'[j].seq => i = j
  BY <1>1 DEF PatientRequests
<1>10. waiting' \subseteq 1 .. made'
  BY DEF PatientRequests
<1> QED
  BY <1>4, <1>6, <1>7, <1>8, <1>9, <1>10 DEF PatientRequests

LEMMA PatientSubmit ==
    ASSUME ServerInv, use.patient, \A x, y \in use.asks : x = y, PatientInv,
           NEW u \in Urbs, RecvSubmit(u)
    PROVE  PatientInv'
<1> DEFINE m == Head(inbox)
<1>1. /\ PatientOrder /\ PatientRequests /\ dead = "no" /\ ~rst /\ strays = {}
  BY DEF PatientInv, Alive
<1>2. /\ srv = "recv" /\ inbox # <<>> /\ m.kind = "SUBMIT" /\ ~Registered(u) /\ Register(u)
      /\ urb' = [urb EXCEPT ![u] = [conn |-> conn, seq |-> m.seq]]
      /\ inbox' = Tail(inbox)
      /\ UNCHANGED <<use, ready, sysLeft, sysUrb, conn, open, rst, reply, made, waiting,
                     strays, dead>>
  BY DEF RecvSubmit, Received, sysVars, connVars, clientVars
<1>3. IF m.what = Control
      THEN srv' = "control" /\ cur' = u /\ UNCHANGED linked
      ELSE linked' = [linked EXCEPT ![m.what] = Append(@, u)] /\ UNCHANGED <<srv, cur>>
  BY DEF RecvSubmit
<1>4. 1 \in Submits /\ m = inbox[1]
  BY <1>2, InboxFacts DEF ServerInv, Submits
<1>5. \A i \in Submits' : i \in Int /\ i + 1 # 1 /\ i + 1 \in Submits /\ inbox'[i] = inbox[i + 1]
  BY <1>2, InboxTail DEF ServerInv
<1> HIDE DEF m
<1>6. m.what \in use.asks /\ m.seq \in waiting /\ m.what \in Eps \cup {Control}
  BY <1>1, <1>4, UseFacts DEF PatientRequests, ServerInv
<1>7. conn # 0 /\ cur = NoUrb /\ u # NoUrb
  BY <1>2, UrbAssumption DEF ServerInv, OneOwner
<1>8. listed' = Append(listed, u)
  BY <1>2, RegisterList DEF ServerInv
<1>9. \A e \in Eps : u \notin Range(linked[e])
  <2>1. \A e \in Eps : \A i \in DOMAIN linked[e] : linked[e][i] # u
    BY <1>2 DEF ServerInv, OneOwner
  <2> QED
    BY <2>1 DEF Range
<1>10. ~Outstanding(u)
  BY <1>7, <1>9 DEF Outstanding
<1>11. /\ \A v \in Urbs : Outstanding(v)' <=> Outstanding(v) \/ v = u
       /\ PatientOrder'
  <2>1. CASE m.what = Control
    <3>1. srv' = "control" /\ cur' = u /\ linked' = linked
      BY <1>3, <2>1
    <3>2. \A e \in Eps : linked[e] = <<>>
      BY <1>1, <1>6, <2>1, NumberAssumption DEF PatientOrder
    <3>3. \A v \in Urbs : Outstanding(v) <=> FALSE
      <4>1. \A e \in Eps : DOMAIN linked[e] = {}
        BY <3>2
      <4> QED
        BY <1>7, <4>1, UrbAssumption DEF Outstanding, Range
    <3>4. \A v \in Urbs : Outstanding(v)' <=> v = u
      <4>1. \A e \in Eps : DOMAIN linked'[e] = {}
        BY <3>1, <3>2
      <4> QED
        BY <3>1, <4>1 DEF Outstanding, Range
    <3>5. listed = <<>>
      BY <1>1, <1>7, <3>3 DEF PatientOrder
    <3>6. listed' = <<u>>
      BY <1>8, <3>5
    <3>7. PatientOrder'
      BY <1>1, <1>2, <1>6, <1>7, <2>1, <3>1, <3>2, <3>4, <3>6 DEF PatientOrder
    <3> QED
      BY <3>3, <3>4, <3>7
  <2>2. CASE m.what # Control
    <3> DEFINE e == m.what
    <3>1. /\ linked' = [linked EXCEPT ![e] = Append(@, u)] /\ srv' = srv /\ cur' = cur
          /\ e \in Eps
      BY <1>3, <1>6, <2>2
    <3>2. e \in use.asks
      BY <1>6
    <3> HIDE DEF e
    <3>3. /\ linked'[e] = Append(linked[e], u)
          /\ \A f \in Eps : f # e => linked'[f] = linked[f]
      BY <3>1 DEF ServerInv, TypeOK
    <3>4. \A f \in Eps : f # e => linked[f] = <<>> /\ linked'[f] = <<>>
      BY <1>1, <3>2, <3>3 DEF PatientOrder
    <3>5. \A v \in Urbs : Outstanding(v)' <=> Outstanding(v) \/ v = u
      <4>1. \A v : v \in Range(linked'[e]) <=> v \in Range(linked[e]) \/ v = u
        <5> DEFINE n == Len(linked[e])
        <5>1. /\ DOMAIN linked'[e] = 1 .. n + 1 /\ linked'[e][n + 1] = u
              /\ \A i \in 1 .. n : linked'[e][i] = linked[e][i]
          BY <3>1, LinkedLast DEF ServerInv
        <5>2. n \in Nat /\ DOMAIN linked[e] = 1 .. n
          BY <3>1, LinkedFacts DEF ServerInv
        <5> HIDE DEF n
        <5>3. \A i \in 1 .. n + 1 : i = n + 1 \/ i \in 1 .. n
          BY <5>2
        <5>4. n + 1 \in 1 .. n + 1 /\ \A i \in 1 .. n : i \in 1 .. n + 1
          BY <5>2
        <5> QED
          BY <5>1, <5>2, <5>3, <5>4 DEF Range
      <4> QED
        BY <3>1, <3>3, <4>1 DEF Outstanding
    <3>6. listed = linked[e]
      <4>1. CASE linked[e] # <<>>
        BY <1>1, <3>1, <4>1 DEF PatientOrder
      <4>2. CASE linked[e] = <<>>
        <5>1. \A f \in Eps : DOMAIN linked[f] = {}
          BY <3>4, <4>2
        <5>2. \A v \in Urbs : ~Outstanding(v)
          BY <1>7, <5>1, UrbAssumption DEF Outstanding, Range
        <5> QED
          BY <1>1, <1>7, <4>2, <5>2 DEF PatientOrder
      <4> QED
        BY <4>1, <4>2
    <3>7. listed' = linked'[e]
      BY <1>8, <3>3, <3>6
    <3>8. \A f \in Eps : linked'[f] # <<>> => listed' = linked'[f] /\ f \in use.asks
      BY <3>2, <3>4, <3>7
    <3>9. PatientOrder'
      BY <1>1, <1>2, <1>7, <3>1, <3>5, <3>8 DEF PatientOrder
    <3> QED
      BY <3>5, <3>9
  <2> QED
    BY <2>1, <2>2
<1>12. urb'[u] = [conn |-> conn, seq |-> m.seq] /\ \A v \in Urbs : v # u => urb'[v] = urb[v]
  BY <1>2 DEF ServerInv, TypeOK
<1>13. srv' # "accept"
  BY <1>2, <1>3
<1>14. \A i \in Submits' : inbox'[i].seq \in waiting /\ inbox'[i].what \in use.asks
                           /\ inbox'[i].seq # m.seq
  BY <1>1, <1>4, <1>5 DEF PatientRequests
<1>15. \A v \in Urbs : Outstanding(v) => v # u /\ urb'[v] = urb[v] /\ urb[v].seq # m.seq
  BY <1>1, <1>4, <1>10, <1>12 DEF PatientRequests
<1>16. \A i, j \in Submits' : inbox'[i].seq = inbox'[j].seq => i = j
  <2> SUFFICES ASSUME NEW i \in Submits', NEW j \in Submits', inbox'[i].seq = inbox'[j].seq
               PROVE  i = j
    OBVIOUS
  <2>1. i + 1 = j + 1 /\ i \in Int /\ j \in Int
    BY <1>1, <1>5 DEF PatientRequests
  <2> QED
    BY <2>1
<1>17. PatientRequests'
  <2>1. \A v \in Urbs : Outstanding(v)' => urb'[v].conn = conn' /\ urb'[v].seq \in waiting'
    BY <1>1, <1>2, <1>6, <1>11, <1>12, <1>15 DEF PatientRequests
  <2>2. \A v, w \in Urbs : Outstanding(v)' /\ Outstanding(w)' /\ urb'[v].seq = urb'[w].seq => v = w
    BY <1>1, <1>11, <1>12, <1>15 DEF PatientRequests
  <2>3. \A v \in Urbs, i \in Submits' : Outstanding(v)' => urb'[v].seq # inbox'[i].seq
    <3> SUFFICES ASSUME NEW v \in Urbs, NEW i \in Submits', Outstanding(v)'
                 PROVE  urb'[v].seq # inbox'[i].seq
      OBVIOUS
    <3>1. CASE v = u
      BY <1>12, <1>14, <3>1
    <3>2. CASE v # u
      BY <1>1, <1>5, <1>11, <1>15, <3>2 DEF PatientRequests
    <3> QED
      BY <3>1, <3>2
  <2> QED
    BY <1>1, <1>2, <1>13, <1>14, <1>16, <2>1, <2>2, <2>3 DEF PatientRequests
<1> QED
  BY <1>1, <1>2, <1>11, <1>17 DEF PatientInv, Alive

LEMMA PatientControl ==
    ASSUME ServerInv, use.patient, \A x, y \in use.asks : x = y, PatientInv, ControlDone
    PROVE  PatientInv'
<1>1. /\ PatientOrder /\ PatientRequests /\ dead = "no" /\ ~rst /\ strays = {}
  BY DEF PatientInv, Alive
<1>2. srv = "control"
  BY DEF ControlDone
<1>3. listed = <<cur>> /\ Control \in use.asks /\ cur \in Urbs /\ Registered(cur)
  BY <1>1, <1>2 DEF PatientOrder, ServerInv, TypeOK, OneOwner
<1>4. listed # <<>> /\ listed[1] = cur /\ Tail(listed) = <<>>
  BY <1>3
<1>5. ~FollowsNull(cur)
  BY <1>4, FirstCanGo DEF ServerInv
<1>6. Finish(cur) /\ srv' = "recv" /\ cur' = NoUrb /\ linked' = linked
  BY <1>5 DEF ControlDone
<1>7. listed' = <<>>
  BY <1>3, <1>4, <1>6, UnregisterList DEF ServerInv, Finish
<1>8. \A e \in Eps : linked[e] = <<>>
  BY <1>1, <1>3, NumberAssumption DEF PatientOrder
<1>9. \A v \in Urbs : ~Outstanding(v)'
  <2>1. \A e \in Eps : DOMAIN linked'[e] = {}
    BY <1>6, <1>8
  <2> QED
    BY <1>6, <2>1, UrbAssumption DEF Outstanding, Range
<1>10. Outstanding(cur)
  BY DEF Outstanding
<1>11. /\ waiting' = waiting \ {urb[cur].seq} /\ open /\ conn # 0
       /\ urb' = [urb EXCEPT ![cur] = Free]
       /\ UNCHANGED <<use, ready, sysLeft, sysUrb, conn, open, rst, inbox, reply, made,
                      strays, dead>>
  BY <1>3, <1>6, <1>10, PatientAnswer
<1>12. PatientOrder'
  BY <1>1, <1>6, <1>7, <1>8, <1>11 DEF PatientOrder
<1>13. PatientRequests'
  BY <1>1, <1>3, <1>6, <1>9, <1>10, <1>11, RequestsAfter
<1> QED
  BY <1>1, <1>11, <1>12, <1>13 DEF PatientInv, Alive

LEMMA PatientBulk ==
    ASSUME ServerInv, use.patient, \A x, y \in use.asks : x = y, PatientInv,
           NEW e \in Eps, BulkDone(e)
    PROVE  PatientInv'
<1> DEFINE u == Head(linked[e])
<1>1. /\ PatientOrder /\ PatientRequests /\ dead = "no" /\ ~rst /\ strays = {}
  BY DEF PatientInv, Alive
<1>2. linked[e] # <<>>
  BY DEF BulkDone
<1>3. listed = linked[e] /\ e \in use.asks
  BY <1>1, <1>2 DEF PatientOrder
<1>4. listed[1] = u /\ 1 \in DOMAIN linked[e] /\ u \in Urbs /\ u = linked[e][1]
  <2>1. linked[e] \in Seq(Urbs) /\ Len(linked[e]) # 0 /\ Len(linked[e]) \in Nat
        /\ DOMAIN linked[e] = 1 .. Len(linked[e])
    BY <1>2, LinkedFacts DEF ServerInv
  <2> QED
    BY <1>2, <1>3, <2>1, HeadTailProperties
<1>5. ~FollowsNull(u)
  BY <1>2, <1>3, <1>4, FirstCanGo DEF ServerInv
<1>6. Finish(u) /\ linked' = [linked EXCEPT ![e] = Tail(@)] /\ srv' = srv /\ cur' = cur
  BY <1>5 DEF BulkDone
<1> HIDE DEF u
<1>7. Registered(u) /\ u # cur
  BY <1>4 DEF ServerInv, OneOwner
<1>8. listed' = Tail(listed)
  BY <1>4, <1>6, <1>7, UnregisterList DEF ServerInv, Finish
<1>9. linked'[e] = Tail(linked[e]) /\ \A f \in Eps : f # e => linked'[f] = linked[f]
  BY <1>6 DEF ServerInv, TypeOK
<1>10. \A f \in Eps : f # e => linked[f] = <<>>
  BY <1>1, <1>3 DEF PatientOrder
<1>11. srv # "control"
  BY <1>1, <1>3, NumberAssumption DEF PatientOrder
<1>12. cur = NoUrb /\ cur' = NoUrb
  BY <1>6, <1>11 DEF ServerInv, OneOwner
<1>13. Outstanding(u)
  BY <1>4 DEF Outstanding, Range
<1>14. /\ waiting' = waiting \ {urb[u].seq} /\ open /\ conn # 0 /\ srv # "accept"
       /\ urb' = [urb EXCEPT ![u] = Free]
       /\ UNCHANGED <<use, ready, sysLeft, sysUrb, conn, open, rst, inbox, reply, made,
                      strays, dead>>
  BY <1>4, <1>6, <1>13, PatientAnswer
<1>15. /\ DOMAIN linked'[e] = 1 .. Len(linked[e]) - 1 /\ linked'[e] \in Seq(Urbs)
       /\ \A i \in DOMAIN linked'[e] : \E j \in DOMAIN linked[e] : j # 1 /\ linked'[e][i] = linked[e][j]
  <2>1. /\ linked' \in [Eps -> Seq(Urbs)] /\ DOMAIN linked'[e] = 1 .. Len(linked[e]) - 1
        /\ \A i \in 1 .. Len(linked[e]) - 1 :
              linked'[e][i] = linked[e][i + 1] /\ i + 1 \in DOMAIN linked[e] /\ i + 1 # 1
    BY <1>2, <1>6, LinkedFirst DEF ServerInv
  <2> QED
    BY <2>1
<1>16. \A v \in Urbs : Outstanding(v)' => Outstanding(v) /\ v # u
  <2> SUFFICES ASSUME NEW v \in Urbs, Outstanding(v)' PROVE Outstanding(v) /\ v # u
    OBVIOUS
  <2>1. \E f \in Eps : \E i \in DOMAIN linked'[f] : linked'[f][i] = v
    BY <1>12, UrbAssumption DEF Outstanding, Range
  <2>2. \A f \in Eps : f # e => DOMAIN linked'[f] = {}
    BY <1>9, <1>10
  <2>3. PICK j \in DOMAIN linked[e] : j # 1 /\ v = linked[e][j]
    BY <1>15, <2>1, <2>2
  <2>4. v # u
    BY <1>4, <2>3 DEF ServerInv, OneOwner
  <2> QED
    BY <2>3, <2>4 DEF Outstanding, Range
<1>17. listed' # <<>> => \E v \in Urbs : Outstanding(v)'
  <2> SUFFICES ASSUME listed' # <<>> PROVE \E v \in Urbs : Outstanding(v)'
    OBVIOUS
  <2>1. linked'[e] # <<>> /\ linked'[e] \in Seq(Urbs)
    BY <1>3, <1>8, <1>9, <1>15
  <2>2. 1 \in DOMAIN linked'[e] /\ linked'[e][1] \in Urbs
    <3>1. Len(linked'[e]) \in Nat /\ Len(linked'[e]) # 0
          /\ DOMAIN linked'[e] = 1 .. Len(linked'[e])
      BY <2>1, LenProperties, EmptySeq
    <3> QED
      BY <2>1, <3>1, ElementOfSeq
  <2> QED
    BY <2>2 DEF Outstanding, Range
<1>18. \A f \in Eps : linked'[f] # <<>> => listed' = linked'[f] /\ f \in use.asks
  BY <1>3, <1>8, <1>9, <1>10
<1>19. PatientOrder'
  BY <1>1, <1>6, <1>11, <1>14, <1>17, <1>18 DEF PatientOrder
<1>20. PatientRequests'
  BY <1>1, <1>4, <1>6, <1>13, <1>14, <1>16, RequestsAfter
<1> QED
  BY <1>1, <1>14, <1>19, <1>20 DEF PatientInv, Alive

LEMMA PatientInit == Init => PatientInv
<1> SUFFICES ASSUME Init PROVE PatientInv
  OBVIOUS
<1>1. /\ listed = <<>> /\ sysUrb = NoUrb /\ srv = "accept" /\ cur = NoUrb /\ conn = 0
      /\ ~open /\ ~rst /\ waiting = {} /\ strays = {} /\ dead = "no" /\ inbox = <<>>
      /\ \A e \in Eps : linked[e] = <<>> /\ DOMAIN linked[e] = {}
  BY DEF Init, ListInit
<1>2. PatientOrder
  BY <1>1 DEF PatientOrder
<1>3. Submits = {}
  BY <1>1 DEF Submits
<1>4. \A u \in Urbs : ~Outstanding(u)
  BY <1>1, UrbAssumption DEF Outstanding, Range
<1>5. PatientRequests
  BY <1>1, <1>3, <1>4 DEF PatientRequests
<1> QED
  BY <1>1, <1>2, <1>5 DEF PatientInv, Alive

LEMMA PatientStutter ==
    ASSUME ServerInv, PatientInv, use.patient, UNCHANGED vars
    PROVE  PatientInv'
<1>1. UNCHANGED <<listed, use, ready, sysLeft, sysUrb, srv, cur, conn, open, rst, inbox,
                  reply, made, waiting, urb, linked, strays, dead>>
  BY DEF vars, listVars, sysVars, connVars, clientVars
<1>2. PatientOrder'
  BY <1>1, OrderSame DEF PatientInv
<1>3. \A i \in Submits' : i \in Int /\ i + 0 \in Submits /\ inbox'[i] = inbox[i + 0]
  BY <1>1, InboxFacts DEF ServerInv, Submits
<1>4. PatientRequests'
  BY <1>1, <1>3, RequestsSame DEF PatientInv
<1> QED
  BY <1>1, <1>2, <1>4 DEF PatientInv, Alive

\* However many patient clients come one after the other, and however many
\* requests each has outstanding: if each uses one endpoint, or the control pipe
\* only, no null pointer of the URB list is followed, no answer
\* goes to a client that has gone, and none to another client's connection.
THEOREM PatientClientsServed ==
    ASSUME OneEndpoint
    PROVE  Spec => []PatientClientsAreServed
<1> DEFINE Inv == ServerInv /\ use \in Scenarios /\ PatientInv
<1>1. Init => Inv
  BY ServerInit, PatientInit DEF Init
<1>2. Inv /\ [Next]_vars => Inv'
  <2> SUFFICES ASSUME Inv, [Next]_vars PROVE Inv'
    OBVIOUS
  <2>1. ServerInv'
    BY ServerStep
  <2>2. use' = use
    BY DEF Next, System, Client, Server, Publish, SysDone, SysSubmit, Connect, Close, Ask,
           TimeOut, RecvImport, RecvDevlist, RecvUnlink, RecvEnd, RecvSubmit, ControlDone,
           BulkDone, Finish, Crash, sysVars, vars
  <2>3. use' \in Scenarios
    BY <2>2
  <2>4. CASE ~use.patient
    BY <2>1, <2>2, <2>3, <2>4 DEF PatientInv
  <2>5. CASE use.patient
    <3>1. \A x, y \in use.asks : x = y
      BY <2>5 DEF OneEndpoint
    <3>2. CASE UNCHANGED vars
      BY <2>1, <2>3, <2>5, <3>2, PatientStutter
    <3>3. CASE System
      BY <2>1, <2>3, <2>5, <3>3, PatientSystem
    <3>4. CASE Client
      BY <2>1, <2>3, <2>5, <3>4, PatientClient
    <3>5. CASE Server
      BY <2>1, <2>3, <2>5, <3>1, <3>5, PatientRecv, PatientRecvEnd, PatientControl, PatientSubmit
         DEF Server
    <3>6. ASSUME NEW e \in Eps, BulkDone(e) PROVE Inv'
      BY <2>1, <2>3, <2>5, <3>1, <3>6, PatientBulk
    <3> QED
      BY <3>2, <3>3, <3>4, <3>5, <3>6 DEF Next
  <2> QED
    BY <2>4, <2>5
<1>3. Inv => PatientClientsAreServed
  BY DEF PatientInv, PatientClientsAreServed
<1> QED
  BY <1>1, <1>2, <1>3, PTL DEF Spec
=============================================================================
