------------------------------ MODULE UrbList ------------------------------
(***************************************************************************)
(* The doubly linked list of registered URBs in sys.c, pointer by pointer. *)
(* Both operations run inside the lock of sys_t, so each is one step.      *)
(* listed is a ghost: the URBs that should be on the list, oldest first.   *)
(***************************************************************************)
EXTENDS Naturals, Sequences, SequencesExt

CONSTANTS Urbs,    \* addresses of URBs, reused after urb_free
          NoUrb    \* NULL

ASSUME UrbAssumption == NoUrb \notin Urbs

VARIABLES head, tail,    \* sys->urb_list_head, urb_list_tail
          next, prev,    \* URB -> its next and prev pointers
          listed

listVars == <<head, tail, next, prev, listed>>

ListTypeOK == /\ head \in Urbs \cup {NoUrb}
              /\ tail \in Urbs \cup {NoUrb}
              /\ next \in [Urbs -> Urbs \cup {NoUrb}]
              /\ prev \in [Urbs -> Urbs \cup {NoUrb}]
              /\ listed \in Seq(Urbs)

ListInit == /\ head = NoUrb
            /\ tail = NoUrb
            /\ next = [u \in Urbs |-> NoUrb]
            /\ prev = [u \in Urbs |-> NoUrb]
            /\ listed = <<>>

\* Mutant: new URBs go to the front.
RegisterAtHead(u) ==
    /\ head' = u
    /\ tail' = IF tail = NoUrb THEN u ELSE tail
    /\ next' = [next EXCEPT ![u] = head]
    /\ prev' = IF head = NoUrb THEN [prev EXCEPT ![u] = NoUrb]
                               ELSE [prev EXCEPT ![u] = NoUrb, ![head] = u]
    /\ listed' = <<u>> \o listed

\* urb_init zeroes the URB, sys_urb_submit puts it at the end.
Register(u) ==
    /\ IF tail = NoUrb
       THEN /\ head' = u
            /\ next' = [next EXCEPT ![u] = NoUrb]
            /\ prev' = [prev EXCEPT ![u] = NoUrb]
       ELSE /\ head' = head
            /\ next' = [next EXCEPT ![tail] = u, ![u] = NoUrb]
            /\ prev' = [prev EXCEPT ![u] = tail]
    /\ tail' = u
    /\ listed' = Append(listed, u)

\* sys_urb_unlink follows prev and next of a URB that is not the first: at the
\* end of the list next is NULL.
FollowsNull(u) == u # head /\ (prev[u] = NoUrb \/ next[u] = NoUrb)

Place(u) == CHOOSE i \in DOMAIN listed : listed[i] = u

\* Mutant: the last URB leaves its pointer behind.
UnregisterKeepsTail(u) ==
    /\ ~FollowsNull(u)
    /\ IF u = head
       THEN /\ head' = next[u]
            /\ UNCHANGED <<tail, next, prev>>
       ELSE /\ next' = [next EXCEPT ![prev[u]] = next[u]]
            /\ prev' = [prev EXCEPT ![next[u]] = prev[u]]
            /\ UNCHANGED <<head, tail>>
    /\ listed' = RemoveAt(listed, Place(u))

Unregister(u) ==
    /\ ~FollowsNull(u)
    /\ IF u = head
       THEN /\ tail' = IF u = tail THEN NoUrb ELSE tail
            /\ head' = next[u]
            /\ UNCHANGED <<next, prev>>
       ELSE /\ next' = [next EXCEPT ![prev[u]] = next[u]]
            /\ prev' = [prev EXCEPT ![next[u]] = prev[u]]
            /\ UNCHANGED <<head, tail>>
    /\ listed' = RemoveAt(listed, Place(u))

\* The pointers describe the URBs that are registered, in order, both ways;
\* nothing a later operation follows leads to a URB that was freed.
ListWhole ==
    IF listed = <<>>
    THEN head = NoUrb /\ tail = NoUrb
    ELSE /\ head = listed[1]
         /\ tail = listed[Len(listed)]
         /\ next[tail] = NoUrb
         /\ \A i \in 1 .. Len(listed) - 1 : /\ next[listed[i]] = listed[i + 1]
                                            /\ prev[listed[i + 1]] = listed[i]
=============================================================================
