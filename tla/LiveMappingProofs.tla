---------------------------- MODULE LiveMappingProofs ----------------------------
(***************************************************************************)
(* For any number of threads, keys and calls, with the GIL and without: a  *)
(* handle that node(key) has returned stays the one the entry holds.  With *)
(* the GIL, and key functions that do not raise, LiveMapping implements    *)
(* MappingPromise.                                                         *)
(***************************************************************************)
EXTENDS LiveMapping, SequenceTheorems, FiniteSetTheorems, TLAPS

NodeSteps == {"node_check", "node_promote", "node_read"}
SetSteps == {"convert", "set_read", "set_write"}
Places == NodeSteps \cup SetSteps \cup {"idle", "key_function"}
Outcomes == {"ok", "error", "plain"} \cup Handles
Args == [key : Keys \cup {None}, value : Values \cup {None}]

\* The mapping and the handles.
Typed ==
  /\ slot \in [Keys -> Slots \cup {None}]
  /\ heap \in [Handles -> EntryData \cup {None}]
  /\ order \in Seq(Keys) /\ drained \in Seq(Keys)
  /\ sorting \in Threads \cup {None}
  /\ handed \in [Keys -> Handles \cup {None}]

\* The entries are those of the order, or while a sort runs the drained ones.
Ordered ==
  /\ IsInjective(order) /\ IsInjective(drained)
  /\ ToSet(order) \cup ToSet(drained) = {k \in Keys : slot[k] # None}
  /\ sorting = None => drained = <<>>
  /\ sorting # None => order = <<>>

\* The threads: a call in progress knows its key and its value, and the one in the key
\* function is the one that sorts.
Pending ==
  /\ pc \in [Threads -> Places]
  /\ arg \in [Threads -> Args]
  /\ outcome \in [Threads -> Outcomes]
  /\ holder \in Threads \cup {None}
  /\ \A t \in Threads :
       /\ pc[t] \in NodeSteps \cup SetSteps => arg[t].key \in Keys
       /\ pc[t] \in SetSteps => arg[t].value \in Values
       /\ pc[t] = "key_function" => sorting = t

\* What a slot or a caller refers to has been given out.
GivenOut ==
  /\ \A k \in Keys : slot[k] # None /\ slot[k].handle # None => heap[slot[k].handle] # None
  /\ \A t \in Threads : outcome[t] \in Handles => heap[outcome[t]] # None

Inv == Typed /\ Ordered /\ Pending /\ GivenOut /\ HandlesAreLive

(***************************************************************************)
(* Facts about the sequences.                                              *)
(***************************************************************************)
LEMMA ToSetOfSeq ==
  ASSUME NEW S, NEW s \in Seq(S)
  PROVE  /\ ToSet(s) = {s[i] : i \in 1 .. Len(s)}
         /\ ToSet(s) \subseteq S
BY DEF ToSet

LEMMA Appended ==
  ASSUME NEW S, NEW s \in Seq(S), NEW e \in S
  PROVE  /\ Append(s, e) \in Seq(S)
         /\ ToSet(Append(s, e)) = ToSet(s) \cup {e}
<1>1. Append(s, e) \in Seq(S) /\ Len(Append(s, e)) = Len(s) + 1
  OBVIOUS
<1>2. \A i \in 1 .. Len(s) + 1 : Append(s, e)[i] = IF i = Len(s) + 1 THEN e ELSE s[i]
  OBVIOUS
<1>3. QED
  BY <1>1, <1>2 DEF ToSet

\* RemoveAt keeps what stands at the other places, and nothing else.
LEMMA Removed ==
  ASSUME NEW S, NEW s \in Seq(S), NEW i \in 1 .. Len(s),
         IsInjective(s)
  PROVE  LET r == RemoveAt(s, i)
         IN  /\ r \in Seq(S)
             /\ ToSet(r) = ToSet(s) \ {s[i]}
             /\ IsInjective(r)
<1> DEFINE r == RemoveAt(s, i)
<1> DEFINE p == SubSeq(s, 1, i - 1)
           q == SubSeq(s, i + 1, Len(s))
<1>p. p \in Seq(S) /\ Len(p) = i - 1 /\ \A j \in 1 .. i - 1 : p[j] = s[j]
  <2>1. \A j \in 1 .. i - 1 : s[j] \in S
    OBVIOUS
  <2>2. QED
    BY <2>1, SubSeqProperties
<1>q. q \in Seq(S) /\ Len(q) = Len(s) - i /\ \A j \in 1 .. Len(s) - i : q[j] = s[i + j]
  <2>1. \A j \in i + 1 .. Len(s) : s[j] \in S
    OBVIOUS
  <2>2. QED
    BY <2>1, SubSeqProperties
<1>r. r = p \o q
  BY DEF RemoveAt
<1> HIDE DEF p, q, r
<1>1. r \in Seq(S) /\ Len(r) = Len(s) - 1
  BY <1>p, <1>q, <1>r, ConcatProperties
<1>2. \A j \in 1 .. Len(s) - 1 : r[j] = IF j < i THEN s[j] ELSE s[j + 1]
  <2> SUFFICES ASSUME NEW j \in 1 .. Len(s) - 1
               PROVE  r[j] = IF j < i THEN s[j] ELSE s[j + 1]
    OBVIOUS
  <2>1. r[j] = IF j <= Len(p) THEN p[j] ELSE q[j - Len(p)]
    BY <1>p, <1>q, <1>r, ConcatProperties
  <2>2. CASE j < i
    BY <1>p, <2>1, <2>2
  <2>3. CASE ~(j < i)
    BY <1>p, <1>q, <2>1, <2>3
  <2>4. QED
    BY <2>2, <2>3
<1>i. \A a, b \in 1 .. Len(s) : s[a] = s[b] => a = b
  BY DEF IsInjective
<1>3. ToSet(r) \subseteq ToSet(s) \ {s[i]}
  <2> SUFFICES ASSUME NEW j \in 1 .. Len(s) - 1 PROVE r[j] \in ToSet(s) \ {s[i]}
    BY <1>1 DEF ToSet
  <2>1. CASE j < i
    BY <1>2, <1>i, <2>1 DEF ToSet
  <2>2. CASE ~(j < i)
    BY <1>2, <1>i, <2>2 DEF ToSet
  <2>3. QED
    BY <2>1, <2>2
<1>4. ToSet(s) \ {s[i]} \subseteq ToSet(r)
  <2> SUFFICES ASSUME NEW j \in 1 .. Len(s), j # i PROVE s[j] \in ToSet(r)
    BY DEF ToSet
  <2>1. CASE j < i
    <3>1. j \in 1 .. Len(s) - 1 /\ r[j] = s[j]
      BY <1>2, <2>1
    <3>2. QED
      BY <1>1, <3>1 DEF ToSet
  <2>2. CASE ~(j < i)
    <3>1. j - 1 \in 1 .. Len(s) - 1 /\ r[j - 1] = s[j]
      BY <1>2, <2>2
    <3>2. QED
      BY <1>1, <3>1 DEF ToSet
  <2>3. QED
    BY <2>1, <2>2
<1>5. IsInjective(r)
  BY <1>1, <1>2, <1>i DEF IsInjective
<1>6. QED
  BY <1>1, <1>3, <1>4, <1>5 DEF r

\* A sequence of the elements of a set has each of them, once.
LEMMA Rearranged ==
  ASSUME NEW S, IsFiniteSet(S), NEW s \in SetToSeqs(S)
  PROVE  s \in Seq(S) /\ ToSet(s) = S /\ IsInjective(s)
<1> DEFINE n == Cardinality(S)
<1>1. n \in Nat
  BY FS_CardinalityType
<1>2. s \in [1 .. n -> S] /\ \A i, j \in 1 .. n : i # j => s[i] # s[j]
  BY DEF SetToSeqs
<1>3. Cardinality(1 .. n) = n
  BY <1>1, FS_Interval
<1> HIDE DEF n
<1>4. s \in Injection(1 .. n, S)
  BY <1>2 DEF Injection, IsInjective
<1>5. s \in Surjection(1 .. n, S)
  BY <1>3, <1>4, FS_Injection DEF n
<1>6. ToSet(s) = S
  BY <1>2, <1>5 DEF Surjection, ToSet
<1>7. QED
  BY <1>1, <1>2, <1>4, <1>6 DEF Injection

(***************************************************************************)
(* The threads.                                                            *)
(***************************************************************************)
LEMMA Moved ==
  ASSUME Pending, NEW t \in Threads, NEW where \in Places, Goto(t, where)
  PROVE  /\ pc' \in [Threads -> Places]
         /\ pc'[t] = where /\ \A u \in Threads \ {t} : pc'[u] = pc[u]
         /\ holder' \in Threads \cup {None}
BY DEF Pending, Goto

\* A step of thread t that neither begins nor ends a sort.
LEMMA PendingKept ==
  ASSUME Pending, NEW t \in Threads, NEW where \in Places \ {"key_function"},
         Goto(t, where), sorting' = sorting,
         arg' \in [Threads -> Args], \A u \in Threads \ {t} : arg'[u] = arg[u],
         where \in NodeSteps \cup SetSteps => arg'[t].key \in Keys,
         where \in SetSteps => arg'[t].value \in Values,
         outcome' \in [Threads -> Outcomes]
  PROVE  Pending'
<1>1. /\ pc' \in [Threads -> Places]
      /\ pc'[t] = where /\ \A u \in Threads \ {t} : pc'[u] = pc[u]
      /\ holder' \in Threads \cup {None}
  BY Moved
<1>2. ASSUME NEW u \in Threads
      PROVE  /\ pc'[u] \in NodeSteps \cup SetSteps => arg'[u].key \in Keys
             /\ pc'[u] \in SetSteps => arg'[u].value \in Values
             /\ pc'[u] = "key_function" => sorting' = u
  <2>1. CASE u = t
    BY <1>1, <2>1
  <2>2. CASE u # t
    BY <1>1, <2>2 DEF Pending
  <2>3. QED
    BY <2>1, <2>2
<1>3. QED
  BY <1>1, <1>2 DEF Pending

\* A step of thread t that leaves the mapping alone.
LEMMA Quiet ==
  ASSUME Inv, UNCHANGED <<mapping, sort, handed>>,
         \A u \in Threads : outcome'[u] \in Handles => heap[outcome'[u]] # None
  PROVE  Typed' /\ Ordered' /\ GivenOut' /\ HandlesAreLive'
<1>1. UNCHANGED <<order, slot, heap, sorting, drained, handed>>
  BY DEF mapping, sort
<1>2. Typed' /\ HandlesAreLive'
  BY <1>1 DEF Inv, Typed, HandlesAreLive
<1>3. Ordered'
  BY <1>1 DEF Inv, Ordered
<1>4. GivenOut'
  BY <1>1 DEF Inv, GivenOut
<1>5. QED
  BY <1>2, <1>3, <1>4

LEMMA ConflictInv == ASSUME Inv, NEW t \in Threads, Conflict(t) PROVE Inv'
<1>1. /\ Goto(t, "idle") /\ outcome' = [outcome EXCEPT ![t] = "error"]
      /\ UNCHANGED <<mapping, sort, arg, handed>>
  BY DEF Conflict, End
<1>2. /\ outcome' \in [Threads -> Outcomes]
      /\ \A u \in Threads : outcome'[u] \in Handles => heap[outcome'[u]] # None
  BY <1>1, LiveMappingConstants DEF Inv, Pending, GivenOut, Outcomes
<1>3. Pending'
  BY <1>1, <1>2, PendingKept DEF Inv, Pending, Places, NodeSteps, SetSteps, sort
<1>4. QED
  BY <1>1, <1>2, <1>3, Quiet DEF Inv

LEMMA NodeInv == ASSUME Inv, NEW t \in Threads, Node(t) PROVE Inv'
<1>1. PICK k \in Keys : arg' = [arg EXCEPT ![t].key = k]
  BY DEF Node
<1>2. Goto(t, "node_check") /\ UNCHANGED <<outcome, mapping, sort, handed>>
  BY DEF Node, Continue
<1>3. /\ arg' \in [Threads -> Args] /\ arg'[t].key \in Keys
      /\ \A u \in Threads \ {t} : arg'[u] = arg[u]
  BY <1>1 DEF Inv, Pending, Args
<1>4. Pending'
  BY <1>2, <1>3, PendingKept DEF Inv, Pending, Places, NodeSteps, SetSteps, sort
<1>5. QED
  BY <1>2, <1>4, Quiet DEF Inv, GivenOut

LEMMA NodeCheckInv == ASSUME Inv, NEW t \in Threads, NodeCheck(t) PROVE Inv'
<1>1. UNCHANGED <<mapping, sort, arg, handed>> /\ pc[t] = "node_check"
  BY DEF NodeCheck, At
<1>2. \/ Goto(t, "idle") /\ outcome' = [outcome EXCEPT ![t] = "error"]
      \/ Goto(t, "node_promote") /\ UNCHANGED outcome
      \/ Goto(t, "node_read") /\ UNCHANGED outcome
  BY DEF NodeCheck, End, Continue
<1>3. /\ outcome' \in [Threads -> Outcomes]
      /\ \A u \in Threads : outcome'[u] \in Handles => heap[outcome'[u]] # None
  BY <1>2, LiveMappingConstants DEF Inv, Pending, GivenOut, Outcomes
<1>4. arg[t].key \in Keys
  BY <1>1 DEF Inv, Pending, NodeSteps
<1>5. Pending'
  BY <1>1, <1>2, <1>3, <1>4, PendingKept DEF Inv, Pending, Places, NodeSteps, SetSteps, sort
<1>6. QED
  BY <1>1, <1>3, <1>5, Quiet DEF Inv

LEMMA SetInv == ASSUME Inv, NEW t \in Threads, Set(t) PROVE Inv'
<1>1. PICK k \in Keys, v \in Values : arg' = [arg EXCEPT ![t] = [key |-> k, value |-> v]]
  BY DEF Set
<1>2. Goto(t, "convert") /\ UNCHANGED <<outcome, mapping, sort, handed>>
  BY DEF Set, Continue
<1>3. /\ arg' \in [Threads -> Args] /\ arg'[t].key \in Keys /\ arg'[t].value \in Values
      /\ \A u \in Threads \ {t} : arg'[u] = arg[u]
  BY <1>1 DEF Inv, Pending, Args
<1>4. Pending'
  BY <1>2, <1>3, PendingKept DEF Inv, Pending, Places, NodeSteps, SetSteps, sort
<1>5. QED
  BY <1>2, <1>4, Quiet DEF Inv, GivenOut

LEMMA SetOnInv == ASSUME Inv, NEW t \in Threads, SetConvert(t) \/ SetRead(t) PROVE Inv'
<1>1. UNCHANGED <<outcome, mapping, sort, arg, handed>> /\ pc[t] \in SetSteps
  BY DEF SetConvert, SetRead, At, Continue, SetSteps
<1>2. Goto(t, "set_read") \/ Goto(t, "set_write")
  BY DEF SetConvert, SetRead, Continue
<1>3. arg[t].key \in Keys /\ arg[t].value \in Values
  BY <1>1 DEF Inv, Pending
<1>4. Pending'
  BY <1>1, <1>2, <1>3, PendingKept DEF Inv, Pending, Places, SetSteps, sort
<1>5. QED
  BY <1>1, <1>4, Quiet DEF Inv, GivenOut

(***************************************************************************)
(* Steps that write.                                                       *)
(***************************************************************************)
LEMMA Entries ==
  ASSUME Inv, NEW k \in Keys, Has(k)
  PROVE  slot[k] \in Slots /\ Data(slot[k]) \in EntryData
<1>1. slot[k] # None /\ slot[k] \in Slots
  BY DEF Inv, Typed, Ordered, Has
<1>2. slot[k].handle # None => heap[slot[k].handle] \in EntryData
  BY <1>1 DEF Inv, Typed, GivenOut, Slots
<1>3. QED
  BY <1>1, <1>2 DEF Data, Slots

LEMMA NodePromoteInv == ASSUME Inv, NEW t \in Threads, NodePromote(t) PROVE Inv'
<1> DEFINE k == arg[t].key
           h == CHOOSE h \in Fresh : TRUE
<1>1. pc[t] = "node_promote" /\ UNCHANGED <<sort, arg>> /\ Fresh # {}
  BY DEF NodePromote, At
<1>2. k \in Keys
  BY <1>1 DEF Inv, Pending, NodeSteps
<1>3. h \in Handles /\ heap[h] = None
  <2>1. h \in Fresh
    BY <1>1
  <2>2. QED
    BY <2>1 DEF Fresh
<1>4. CASE ~Has(k)
  <2>1. Goto(t, "idle") /\ outcome' = [outcome EXCEPT ![t] = "error"] /\ UNCHANGED <<mapping, handed>>
    BY <1>4 DEF NodePromote, End
  <2>2. /\ outcome' \in [Threads -> Outcomes]
        /\ \A u \in Threads : outcome'[u] \in Handles => heap[outcome'[u]] # None
    BY <2>1, LiveMappingConstants DEF Inv, Pending, GivenOut, Outcomes
  <2>3. Pending'
    BY <1>1, <2>1, <2>2, PendingKept DEF Inv, Pending, Places, NodeSteps, SetSteps, sort
  <2>4. QED
    BY <1>1, <2>1, <2>2, <2>3, Quiet DEF Inv
<1>5. CASE Has(k)
  <2>1. /\ heap' = [heap EXCEPT ![h] = Promoted(slot[k])]
        /\ slot' = [slot EXCEPT ![k] = LivePy(h)]
        /\ handed' = [handed EXCEPT ![k] = h]
        /\ Goto(t, "idle") /\ outcome' = [outcome EXCEPT ![t] = h]
        /\ UNCHANGED <<order, sorting, drained>>
    BY <1>5 DEF NodePromote, End, sort
  <2> HIDE DEF k, h
  <2>2. Null \in EntryData
    BY DEF Null, EntryData
  <2>3. /\ Promoted(slot[k]) \in EntryData /\ Promoted(slot[k]) # None
        /\ LivePy(h) \in Slots /\ LivePy(h) # None /\ LivePy(h).handle = h
        /\ slot[k] # None
    <3>1. slot[k] \in Slots
      BY <1>2, <1>5, Entries
    <3>2. Promoted(slot[k]) \in EntryData
      BY <2>2, <3>1 DEF Promoted, Slots
    <3>3. LivePy(h) \in Slots /\ LivePy(h).handle = h
      BY <1>3, <2>2 DEF LivePy, Slots
    <3>4. QED
      BY <3>1, <3>2, <3>3, NoneIsNoEntry
  <2>4. Typed'
    BY <1>2, <1>3, <2>1, <2>3 DEF Inv, Typed
  <2>5. Ordered'
    BY <1>2, <2>1, <2>3 DEF Inv, Typed, Ordered
  <2>6. outcome' \in [Threads -> Outcomes]
    BY <1>3, <2>1 DEF Inv, Pending, Outcomes
  <2>7. Pending'
    BY <1>1, <2>1, <2>6, PendingKept DEF Inv, Pending, Places, NodeSteps, SetSteps
  <2>8. GivenOut'
    <3>1. \A g \in Handles : heap[g] # None => heap'[g] # None
      BY <1>3, <2>1, <2>3 DEF Inv, Typed
    <3>2. heap'[h] # None
      BY <1>3, <2>1, <2>3 DEF Inv, Typed
    <3>3. ASSUME NEW j \in Keys, slot'[j] # None, slot'[j].handle # None
          PROVE  heap'[slot'[j].handle] # None
      <4>1. CASE j = k
        BY <1>2, <2>1, <2>3, <3>2, <4>1 DEF Inv, Typed
      <4>2. CASE j # k
        <5>1. slot'[j] = slot[j] /\ slot[j] \in Slots
          BY <1>2, <2>1, <3>3, <4>2 DEF Inv, Typed
        <5>2. slot[j].handle \in Handles
          BY <3>3, <5>1 DEF Slots
        <5>3. QED
          BY <3>1, <3>3, <5>1, <5>2 DEF Inv, GivenOut
      <4>3. QED
        BY <4>1, <4>2
    <3>4. ASSUME NEW u \in Threads, outcome'[u] \in Handles
          PROVE  heap'[outcome'[u]] # None
      BY <2>1, <3>1, <3>2, <3>4 DEF Inv, Pending, GivenOut
    <3>5. QED
      BY <3>3, <3>4 DEF GivenOut
  <2>9. HandlesAreLive'
    BY <1>2, <2>1, <2>3 DEF Inv, Typed, HandlesAreLive
  <2>10. QED
    BY <2>4, <2>5, <2>7, <2>8, <2>9 DEF Inv
<1>6. QED
  BY <1>4, <1>5

LEMMA NodeReadInv == ASSUME Inv, NEW t \in Threads, NodeRead(t) PROVE Inv'
<1> DEFINE k == arg[t].key
<1>1. /\ pc[t] = "node_read" /\ UNCHANGED <<order, slot, heap, sorting, drained, arg>>
      /\ Goto(t, "idle")
  BY DEF NodeRead, At, mapping, sort, End
<1>2. k \in Keys
  BY <1>1 DEF Inv, Pending, NodeSteps
<1>3. \/ handed' = handed /\ (\/ outcome' = [outcome EXCEPT ![t] = "error"]
                             \/ outcome' = [outcome EXCEPT ![t] = "plain"])
      \/ /\ Has(k) /\ slot[k].handle # None
         /\ handed' = [handed EXCEPT ![k] = slot[k].handle]
         /\ outcome' = [outcome EXCEPT ![t] = slot[k].handle]
  BY DEF NodeRead, End
<1> HIDE DEF k
<1>4. Has(k) => slot[k] # None /\ slot[k].handle \in Handles \cup {None}
  BY <1>2, Entries, NoneIsNoEntry DEF Slots
<1>5. Typed'
  BY <1>1, <1>2, <1>3, <1>4 DEF Inv, Typed
<1>6. HandlesAreLive'
  BY <1>1, <1>2, <1>3, <1>4 DEF Inv, Typed, HandlesAreLive
<1>7. /\ outcome' \in [Threads -> Outcomes]
      /\ \A u \in Threads : outcome'[u] \in Handles => heap[outcome'[u]] # None
  <2>1. CASE handed' = handed /\ (\/ outcome' = [outcome EXCEPT ![t] = "error"]
                                  \/ outcome' = [outcome EXCEPT ![t] = "plain"])
    BY <2>1, LiveMappingConstants DEF Inv, Pending, GivenOut, Outcomes
  <2>2. CASE /\ Has(k) /\ slot[k].handle # None
             /\ outcome' = [outcome EXCEPT ![t] = slot[k].handle]
    BY <1>2, <1>4, <2>2 DEF Inv, Pending, GivenOut, Outcomes
  <2>3. QED
    BY <1>3, <2>1, <2>2
<1>8. Ordered'
  BY <1>1 DEF Inv, Ordered
<1>9. GivenOut'
  BY <1>1, <1>7 DEF Inv, GivenOut
<1>10. Pending'
  BY <1>1, <1>7, PendingKept DEF Inv, Pending, Places, NodeSteps, SetSteps
<1>11. QED
  BY <1>5, <1>6, <1>8, <1>9, <1>10 DEF Inv

LEMMA AnnotateInv == ASSUME Inv, NEW t \in Threads, Annotate(t) PROVE Inv'
<1> DEFINE h == outcome[t]
<1>1. /\ h \in Handles /\ heap' = [heap EXCEPT ![h].note = TRUE]
      /\ Goto(t, "idle") /\ UNCHANGED <<order, slot, sorting, drained, arg, outcome, handed>>
  BY DEF Annotate, sort
<1> HIDE DEF h
<1>2. heap[h] \in EntryData
  BY <1>1 DEF Inv, Typed, GivenOut, h
<1>3. heap' = [heap EXCEPT ![h] = [heap[h] EXCEPT !.note = TRUE]]
  BY <1>1
<1>4. [heap[h] EXCEPT !.note = TRUE] \in EntryData
  BY <1>2 DEF EntryData
<1>5. heap' \in [Handles -> EntryData \cup {None}]
  BY <1>1, <1>3, <1>4 DEF Inv, Typed
<1>6. \A g \in Handles : heap[g] # None => heap'[g] # None
  BY <1>1, <1>3, <1>4, NoneIsNoEntry DEF Inv, Typed
<1>7. Typed' /\ HandlesAreLive'
  BY <1>1, <1>5 DEF Inv, Typed, HandlesAreLive
<1>8. Ordered'
  BY <1>1 DEF Inv, Ordered
<1>9. GivenOut'
  <2>1. \A k \in Keys : slot[k] # None /\ slot[k].handle # None => slot[k].handle \in Handles
    BY DEF Inv, Typed, Slots
  <2>2. QED
    BY <1>1, <1>6, <2>1 DEF Inv, GivenOut
<1>10. Pending'
  BY <1>1, PendingKept DEF Inv, Pending, Places, NodeSteps, SetSteps
<1>11. QED
  BY <1>7, <1>8, <1>9, <1>10 DEF Inv

\* An entry that is stored has no handle: none has been handed out for it.
LEMMA StoreInv ==
  ASSUME Inv, NEW t \in Threads, NEW k \in Keys, NEW s \in Slots, s.handle = None,
         Store(k, s), Free,
         Goto(t, "idle"), outcome' = [outcome EXCEPT ![t] = "ok"], UNCHANGED <<sort, arg>>
  PROVE  Inv'
<1>1. /\ slot' = [slot EXCEPT ![k] = s]
      /\ handed' = [handed EXCEPT ![k] = None]
      /\ order' = IF Has(k) THEN order ELSE Append(order, k)
      /\ UNCHANGED <<heap, sorting, drained>>
  BY DEF Store, sort
<1>2. s \in Slots /\ s # None /\ s.handle = None
  BY NoneIsNoEntry
<1>3. order' \in Seq(Keys) /\ ToSet(order') = ToSet(order) \cup {k} /\ IsInjective(order')
  <2>1. CASE Has(k)
    BY <1>1, <2>1 DEF Has, Inv, Typed, Ordered
  <2>2. CASE ~Has(k)
    <3>1. order \in Seq(Keys) /\ IsInjective(order) /\ order' = Append(order, k)
      BY <1>1, <2>2 DEF Inv, Typed, Ordered
    <3>2. \A i \in 1 .. Len(order) : order[i] # k
      BY <2>2, <3>1 DEF Has, ToSet
    <3>3. IsInjective(order')
      BY <3>1, <3>2 DEF IsInjective
    <3>4. QED
      BY <3>1, <3>3, Appended
  <2>3. QED
    BY <2>1, <2>2
<1>4. Typed'
  BY <1>1, <1>2, <1>3 DEF Inv, Typed
<1>5. Ordered'
  <2>1. ToSet(order') \cup ToSet(drained') = {j \in Keys : slot'[j] # None}
    BY <1>1, <1>2, <1>3 DEF Inv, Typed, Ordered
  <2>2. QED
    BY <1>1, <1>3, <2>1 DEF Inv, Ordered, Free
<1>6. outcome' \in [Threads -> Outcomes]
  BY DEF Inv, Pending, Outcomes
<1>7. Pending'
  BY <1>1, <1>6, PendingKept DEF Inv, Pending, Places, NodeSteps, SetSteps
<1>8. GivenOut'
  BY <1>1, <1>2, LiveMappingConstants DEF Inv, Typed, Pending, GivenOut
<1>9. HandlesAreLive'
  BY <1>1, <1>2 DEF Inv, Typed, HandlesAreLive
<1>10. QED
  BY <1>4, <1>5, <1>7, <1>8, <1>9 DEF Inv

LEMMA SetWriteInv == ASSUME Inv, NEW t \in Threads, SetWrite(t) PROVE Inv'
<1> DEFINE k == arg[t].key
           data == [value |-> arg[t].value, alias |-> FALSE, note |-> Has(k) /\ read[t] = TRUE]
<1>1. /\ pc[t] = "set_write" /\ Free /\ Store(k, Inline(data))
      /\ Goto(t, "idle") /\ outcome' = [outcome EXCEPT ![t] = "ok"] /\ UNCHANGED <<sort, arg>>
  BY DEF SetWrite, At, End
<1>2. k \in Keys /\ arg[t].value \in Values
  BY <1>1 DEF Inv, Pending, SetSteps
<1>3. data \in EntryData
  <2>1. (Has(k) /\ read[t] = TRUE) \in BOOLEAN
    OBVIOUS
  <2>2. QED
    BY <1>2, <2>1 DEF EntryData
<1> HIDE DEF data
<1>4. Inline(data) \in Slots /\ Inline(data).handle = None
  BY <1>3 DEF Inline, Slots
<1> HIDE DEF k
<1>5. QED
  BY <1>1, <1>2, <1>4, StoreInv

\* A call that fails at its first borrow.
LEMMA RefusedInv ==
  ASSUME Inv, NEW t \in Threads, End(t, "error"), UNCHANGED <<mapping, sort, handed, arg>>
  PROVE  Inv'
<1>1. Goto(t, "idle") /\ outcome' = [outcome EXCEPT ![t] = "error"]
  BY DEF End
<1>2. /\ outcome' \in [Threads -> Outcomes]
      /\ \A u \in Threads : outcome'[u] \in Handles => heap[outcome'[u]] # None
  BY <1>1, LiveMappingConstants DEF Inv, Pending, GivenOut, Outcomes
<1>3. Pending'
  BY <1>1, <1>2, PendingKept DEF Inv, Pending, Places, NodeSteps, SetSteps, sort
<1>4. QED
  BY <1>1, <1>2, <1>3, Quiet DEF Inv

LEMMA SetAliasInv == ASSUME Inv, NEW t \in Threads, SetAlias(t) PROVE Inv'
<1>1. UNCHANGED <<sort, arg>>
  BY DEF SetAlias
<1>2. CASE End(t, "error") /\ UNCHANGED <<mapping, handed>>
  BY <1>1, <1>2, RefusedInv
<1>3. CASE ~(End(t, "error") /\ UNCHANGED <<mapping, handed>>)
  <2>1. PICK k \in Keys :
          /\ Free /\ Has(k) /\ End(t, "ok")
          /\ Store(k, [Inline([Data(slot[k]) EXCEPT !.note = FALSE, !.alias = TRUE])
                         EXCEPT !.nested = Data(slot[k]).alias])
    BY <1>3 DEF SetAlias
  <2>2. Data(slot[k]) \in EntryData
    BY <2>1, Entries
  <2>3. /\ [Data(slot[k]) EXCEPT !.note = FALSE, !.alias = TRUE] \in EntryData
        /\ Data(slot[k]).alias \in BOOLEAN
    BY <2>2 DEF EntryData
  <2>4. ASSUME NEW d \in EntryData, NEW b \in BOOLEAN
        PROVE  [Inline(d) EXCEPT !.nested = b] \in Slots
               /\ [Inline(d) EXCEPT !.nested = b].handle = None
    BY DEF Inline, Slots
  <2>5. QED
    BY <1>1, <2>1, <2>3, <2>4, StoreInv DEF End
<1>4. QED
  BY <1>2, <1>3

LEMMA DelInv == ASSUME Inv, NEW t \in Threads, Del(t) PROVE Inv'
<1>1. UNCHANGED <<sort, arg>>
  BY DEF Del
<1>2. CASE End(t, "error") /\ UNCHANGED <<mapping, handed>>
  BY <1>1, <1>2, RefusedInv
<1>3. CASE ~(End(t, "error") /\ UNCHANGED <<mapping, handed>>)
  <2>1. PICK k \in Keys :
          /\ Free /\ Has(k)
          /\ slot' = [slot EXCEPT ![k] = None]
          /\ order' = RemoveAt(order, Place(k))
          /\ handed' = [handed EXCEPT ![k] = None]
          /\ End(t, "ok") /\ UNCHANGED heap
    BY <1>3 DEF Del
  <2>2. order \in Seq(Keys) /\ IsInjective(order)
    BY DEF Inv, Typed, Ordered
  <2>3. Place(k) \in 1 .. Len(order) /\ order[Place(k)] = k
    <3>1. \E i \in DOMAIN order : order[i] = k
      BY <2>1 DEF Has, ToSet
    <3>2. QED
      BY <2>2, <3>1 DEF Place
  <2>4. order' \in Seq(Keys) /\ ToSet(order') = ToSet(order) \ {k} /\ IsInjective(order')
    BY <2>1, <2>2, <2>3, Removed
  <2>5. UNCHANGED <<sorting, drained>> /\ Goto(t, "idle") /\ outcome' = [outcome EXCEPT ![t] = "ok"]
    BY <1>1, <2>1 DEF sort, End
  <2>6. Typed'
    BY <2>1, <2>4, <2>5 DEF Inv, Typed
  <2>7. Ordered'
    <3>1. ToSet(drained) = {}
      BY <2>1 DEF Inv, Ordered, Free, ToSet
    <3>2. ToSet(order') \cup ToSet(drained') = {j \in Keys : slot'[j] # None}
      BY <2>1, <2>4, <2>5, <3>1 DEF Inv, Typed, Ordered
    <3>3. QED
      BY <2>1, <2>4, <2>5, <3>2 DEF Inv, Ordered, Free
  <2>8. outcome' \in [Threads -> Outcomes]
    BY <2>5 DEF Inv, Pending, Outcomes
  <2>9. Pending'
    BY <1>1, <2>5, <2>8, PendingKept DEF Inv, Pending, Places, NodeSteps, SetSteps
  <2>10. GivenOut'
    BY <2>1, <2>5, LiveMappingConstants DEF Inv, Typed, Pending, GivenOut
  <2>11. HandlesAreLive'
    BY <2>1 DEF Inv, Typed, HandlesAreLive
  <2>12. QED
    BY <2>6, <2>7, <2>9, <2>10, <2>11 DEF Inv
<1>4. QED
  BY <1>2, <1>3

(***************************************************************************)
(* A sort.                                                                 *)
(***************************************************************************)
LEMMA SortInv == ASSUME Inv, NEW t \in Threads, Sort(t) PROVE Inv'
<1>1. UNCHANGED <<slot, heap, arg, handed>>
  BY DEF Sort
<1>2. CASE End(t, "error") /\ UNCHANGED <<order, sort>>
  BY <1>1, <1>2, RefusedInv DEF mapping
<1>3. CASE ~(End(t, "error") /\ UNCHANGED <<order, sort>>)
  <2>1. /\ Free /\ sorting' = t /\ drained' = order /\ order' = <<>>
        /\ Goto(t, "key_function") /\ UNCHANGED outcome
    BY <1>3 DEF Sort, Continue
  <2>2. Typed' /\ HandlesAreLive'
    BY <1>1, <2>1 DEF Inv, Typed, HandlesAreLive
  <2>3. Ordered'
    <3>1. drained = <<>>
      BY <2>1 DEF Inv, Ordered, Free
    <3>2. t # None
      BY LiveMappingConstants
    <3>3. QED
      BY <1>1, <2>1, <3>1, <3>2 DEF Inv, Ordered, ToSet, IsInjective
  <2>4. GivenOut'
    BY <1>1, <2>1 DEF Inv, GivenOut
  <2>5. /\ pc' \in [Threads -> Places] /\ pc'[t] = "key_function"
        /\ \A u \in Threads \ {t} : pc'[u] = pc[u]
        /\ holder' \in Threads \cup {None}
    BY <2>1, Moved DEF Inv, Places
  <2>6. \A u \in Threads : pc[u] # "key_function"
    BY <2>1, LiveMappingConstants DEF Inv, Pending, Free
  <2>7. Pending'
    BY <1>1, <2>1, <2>5, <2>6 DEF Inv, Pending, NodeSteps, SetSteps
  <2>8. QED
    BY <2>2, <2>3, <2>4, <2>7 DEF Inv
<1>4. QED
  BY <1>2, <1>3

\* The thread that sorts leaves its key function: no other is in one.
LEMMA SortEnds ==
  ASSUME Inv, NEW t \in Threads, pc[t] = "key_function",
         sorting' = None, Goto(t, "idle"), UNCHANGED arg, outcome' \in [Threads -> Outcomes]
  PROVE  Pending'
<1>1. /\ pc' \in [Threads -> Places] /\ pc'[t] = "idle"
      /\ \A u \in Threads \ {t} : pc'[u] = pc[u]
      /\ holder' \in Threads \cup {None}
  BY Moved DEF Inv, Places
<1>2. \A u \in Threads \ {t} : pc[u] # "key_function"
  BY DEF Inv, Pending
<1>3. QED
  BY <1>1, <1>2 DEF Inv, Pending, NodeSteps, SetSteps

LEMMA SortReturnsInv == ASSUME Inv, NEW t \in Threads, SortReturns(t) PROVE Inv'
<1>1. /\ pc[t] = "key_function" /\ order' \in SetToSeqs(ToSet(drained))
      /\ sorting' = None /\ drained' = <<>>
      /\ Goto(t, "idle") /\ outcome' = [outcome EXCEPT ![t] = "ok"]
      /\ UNCHANGED <<slot, heap, arg, handed>>
  BY DEF SortReturns, End
<1>2. ToSet(drained) \subseteq Keys
  BY ToSetOfSeq DEF Inv, Typed
<1>3. order' \in Seq(ToSet(drained)) /\ ToSet(order') = ToSet(drained) /\ IsInjective(order')
  <2>1. IsFiniteSet(ToSet(drained))
    BY <1>2, FS_Subset, LiveMappingConstants
  <2>2. QED
    BY <1>1, <2>1, Rearranged
<1>4. order = <<>>
  BY <1>1, LiveMappingConstants DEF Inv, Pending, Ordered
<1>5. Typed' /\ HandlesAreLive'
  <2>1. order' \in Seq(Keys)
    BY <1>2, <1>3
  <2>2. QED
    BY <1>1, <2>1 DEF Inv, Typed, HandlesAreLive
<1>6. Ordered'
  BY <1>1, <1>3, <1>4 DEF Inv, Ordered, ToSet, IsInjective
<1>7. GivenOut'
  BY <1>1, LiveMappingConstants DEF Inv, Pending, GivenOut
<1>8. outcome' \in [Threads -> Outcomes]
  BY <1>1 DEF Inv, Pending, Outcomes
<1>9. Pending'
  BY <1>1, <1>8, SortEnds
<1>10. QED
  BY <1>5, <1>6, <1>7, <1>9 DEF Inv

LEMMA SortRaisesInv == ASSUME Inv, NEW t \in Threads, SortRaises(t) PROVE Inv'
<1>1. /\ pc[t] = "key_function"
      /\ slot' = [k \in Keys |-> IF k \in ToSet(drained) THEN None ELSE slot[k]]
      /\ handed' = [k \in Keys |-> IF k \in ToSet(drained) THEN None ELSE handed[k]]
      /\ sorting' = None /\ drained' = <<>>
      /\ Goto(t, "idle") /\ outcome' = [outcome EXCEPT ![t] = "error"]
      /\ UNCHANGED <<order, heap, arg>>
  BY DEF SortRaises, End
<1>2. order = <<>>
  BY <1>1, LiveMappingConstants DEF Inv, Pending, Ordered
<1>3. Typed'
  BY <1>1 DEF Inv, Typed
<1>4. HandlesAreLive'
  BY <1>1 DEF Inv, Typed, HandlesAreLive
<1>5. Ordered'
  <2>1. ToSet(order') = {} /\ ToSet(drained') = {}
    BY <1>1, <1>2 DEF ToSet
  <2>2. \A k \in Keys : slot'[k] = None
    BY <1>1, <1>2 DEF Inv, Ordered, ToSet
  <2>3. QED
    BY <1>1, <2>1, <2>2 DEF Inv, Ordered, IsInjective
<1>6. GivenOut'
  BY <1>1, LiveMappingConstants DEF Inv, Pending, GivenOut
<1>7. outcome' \in [Threads -> Outcomes]
  BY <1>1 DEF Inv, Pending, Outcomes
<1>8. Pending'
  BY <1>1, <1>7, SortEnds
<1>9. QED
  BY <1>3, <1>4, <1>5, <1>6, <1>8 DEF Inv

(***************************************************************************)
(* The theorems.                                                           *)
(***************************************************************************)
LEMMA InitInv == Init => Inv
<1> SUFFICES ASSUME Init PROVE Inv
  OBVIOUS
<1>1. order \in Seq(Keys) /\ ToSet(order) = Keys /\ IsInjective(order)
  BY Rearranged, LiveMappingConstants DEF Init
<1>2. \A k \in Keys : slot[k] \in Slots /\ slot[k] # None /\ slot[k].handle = None
  <2>1. ASSUME NEW d \in [value : {"old"}, note : BOOLEAN, alias : BOOLEAN]
        PROVE  Inline(d) \in Slots /\ Inline(d).handle = None
    BY DEF Inline, Slots, EntryData
  <2>2. QED
    BY <2>1, NoneIsNoEntry DEF Init
<1>3. Typed
  <2>1. slot \in [Keys -> Slots \cup {None}]
    BY <1>2 DEF Init
  <2>2. QED
    BY <1>1, <2>1 DEF Init, Typed
<1>4. Ordered
  BY <1>1, <1>2 DEF Init, Ordered, ToSet, IsInjective
<1>5. Pending
  BY LiveMappingConstants DEF Init, Pending, Places, NodeSteps, SetSteps, Args, Outcomes
<1>6. GivenOut /\ HandlesAreLive
  BY <1>2, LiveMappingConstants DEF Init, GivenOut, HandlesAreLive
<1>7. QED
  BY <1>3, <1>4, <1>5, <1>6 DEF Inv

LEMMA NextInv == Inv /\ [Next]_vars => Inv'
<1> SUFFICES ASSUME Inv, [Next]_vars PROVE Inv'
  OBVIOUS
<1>1. CASE UNCHANGED vars
  BY <1>1 DEF vars, mapping, sort, local, Inv, Typed, Ordered, Pending, GivenOut, HandlesAreLive
<1>2. ASSUME NEW t \in Threads, Step(t) PROVE Inv'
  BY <1>2, ConflictInv, NodeInv, NodeCheckInv, NodePromoteInv, NodeReadInv, AnnotateInv,
     SetInv, SetOnInv, SetWriteInv, SetAliasInv, DelInv,
     SortInv, SortReturnsInv, SortRaisesInv DEF Step
<1>3. QED
  BY <1>1, <1>2 DEF Next

LEMMA InvHolds == Spec => []Inv
BY InitInv, NextInv, PTL DEF Spec

\* Whatever calls run and wherever threads give way, also in the midst of a sort, the
\* mapping holds the handle that node(key) has returned for an entry: its setters reach
\* the document (docs/api.md).
THEOREM HandlesStayLive == Spec => []HandlesAreLive
BY InvHolds, PTL DEF Inv

\* Every variable has its type, and the entries are those of the order or, while a sort
\* runs, those it has drained (sort.rs): none is named twice or not at all.
THEOREM TypeCorrect == Spec => []TypeOK
<1>1. Inv => TypeOK
  <2> SUFFICES ASSUME Inv PROVE TypeOK
    OBVIOUS
  <2>1. IsInjective(order \o drained) /\ ToSet(order \o drained) = ToSet(order) \cup ToSet(drained)
    <3>1. CASE sorting = None
      <4>1. drained = <<>> /\ order \o drained = order
        BY <3>1 DEF Inv, Typed, Ordered
      <4>2. QED
        BY <4>1 DEF Inv, Ordered, ToSet
    <3>2. CASE sorting # None
      <4>1. order = <<>> /\ order \o drained = drained
        BY <3>2 DEF Inv, Typed, Ordered
      <4>2. QED
        BY <4>1 DEF Inv, Ordered, ToSet
    <3>3. QED
      BY <3>1, <3>2
  <2>2. QED
    BY <2>1 DEF Inv, Typed, Ordered, Pending, Places, NodeSteps, SetSteps, TypeOK
<1>2. QED
  BY <1>1, InvHolds, PTL

(***************************************************************************)
(* With the GIL, nothing comes between two borrows of a call.              *)
(***************************************************************************)
Alone ==
  \A t \in Threads :
    /\ pc[t] \notin {"idle"} \cup CallsPython => holder = t
    /\ pc[t] = "node_promote" /\ Has(arg[t].key) => slot[arg[t].key].handle = None

LEMMA Scheduled ==
  ASSUME setting.gil, UNCHANGED setting, Inv, Alone, NEW t \in Threads, Runs(t),
         NEW where \in Places, Goto(t, where),
         where = "node_promote" =>
           /\ UNCHANGED <<order, slot, arg>>
           /\ Has(arg[t].key) => slot[arg[t].key].handle = None
  PROVE  Alone'
<1>1. pc'[t] = where /\ \A u \in Threads \ {t} : pc'[u] = pc[u]
  BY Moved DEF Inv
<1>2. \A u \in Threads \ {t} : pc[u] \in {"idle"} \cup CallsPython
  BY LiveMappingConstants DEF Alone, Runs
<1>3. where \notin {"idle"} \cup CallsPython => holder' = t
  BY DEF Goto
<1>4. ASSUME where = "node_promote"
      PROVE  (Has(arg[t].key) => slot[arg[t].key].handle = None)'
  BY <1>4 DEF Has
<1>5. ASSUME NEW u \in Threads
      PROVE  (/\ pc[u] \notin {"idle"} \cup CallsPython => holder = u
              /\ pc[u] = "node_promote" /\ Has(arg[u].key) => slot[arg[u].key].handle = None)'
  <2>1. CASE u = t
    BY <1>1, <1>3, <1>4, <2>1
  <2>2. CASE u # t
    BY <1>1, <1>2, <2>2 DEF CallsPython
  <2>3. QED
    BY <2>1, <2>2
<1>6. QED
  BY <1>5 DEF Alone

\* Steps of a thread other than NodeCheck leave it at another place than node_promote.
LEMMA StepsRun ==
  ASSUME NEW t \in Threads, Step(t)
  PROVE  /\ Runs(t)
         /\ \/ \E where \in Places \ {"node_promote"} : Goto(t, where)
            \/ NodeCheck(t)
<1>1. CASE Conflict(t)
  BY <1>1 DEF Conflict, End, Places
<1>2. CASE Node(t) \/ NodePromote(t) \/ NodeRead(t) \/ Annotate(t)
  BY <1>2 DEF Node, NodePromote, NodeRead, Annotate, Begin, At, End, Continue, Places, NodeSteps
<1>3. CASE NodeCheck(t)
  BY <1>3 DEF NodeCheck, At
<1>4. CASE Set(t) \/ SetConvert(t) \/ SetRead(t) \/ SetWrite(t)
  BY <1>4 DEF Set, SetConvert, SetRead, SetWrite, Begin, At, End, Continue, Places, SetSteps
<1>5. CASE SetAlias(t) \/ Del(t)
  BY <1>5 DEF SetAlias, Del, Begin, End, Places
<1>6. CASE Sort(t) \/ SortReturns(t) \/ SortRaises(t)
  BY <1>6 DEF Sort, SortReturns, SortRaises, Begin, End, Continue, Places
<1>7. QED
  BY <1>1, <1>2, <1>3, <1>4, <1>5, <1>6 DEF Step

LEMMA AloneHolds == Spec => [](setting.gil => Alone)
<1>1. Init => (setting.gil => Alone)
  BY DEF Init, Alone, CallsPython
<1>2. Inv /\ (setting.gil => Alone) /\ [Next]_vars => (setting.gil => Alone)'
  <2>0. [Next]_vars => UNCHANGED setting
    BY DEF Next, vars
  <2> SUFFICES ASSUME Inv, Alone, [Next]_vars, setting.gil, UNCHANGED setting PROVE Alone'
    BY <2>0
  <2>1. CASE UNCHANGED vars
    BY <2>1 DEF vars, mapping, local, Alone, Has
  <2>2. ASSUME NEW t \in Threads, Step(t) PROVE Alone'
    <3>1. Runs(t)
      BY <2>2, StepsRun
    <3>2. CASE \E where \in Places \ {"node_promote"} : Goto(t, where)
      BY <3>1, <3>2, Scheduled
    <3>3. CASE NodeCheck(t)
      <4>1. PICK where \in Places : Goto(t, where) /\
              (where = "node_promote" /\ Has(arg[t].key) =>
                 IsScalarChild(slot[arg[t].key]))
        BY <3>3 DEF NodeCheck, End, Continue, Places, NodeSteps
      <4>2. UNCHANGED <<order, slot, arg>>
        BY <3>3 DEF NodeCheck, mapping
      <4>3. QED
        BY <3>1, <4>1, <4>2, Scheduled DEF IsScalarChild
    <3>4. QED
      BY <2>2, <3>2, <3>3, StepsRun
  <2>3. QED
    BY <2>1, <2>2 DEF Next
<1>3. QED
  BY <1>1, <1>2, InvHolds, PTL DEF Spec

\* With the GIL, node(key) returns the same object until the entry is assigned or
\* deleted: a second promotion would replace the first handle (py_mapping.rs).
THEOREM NodeStaysTheSame == Spec => NodeIsStable
<1> DEFINE Stable == setting.gil =>
                       \A k \in Keys :
                         handed[k] # None /\ handed'[k] # None => handed'[k] = handed[k]
<1>1. Inv /\ (setting.gil => Alone) /\ [Next]_vars => [Stable]_vars
  <2> SUFFICES ASSUME Inv, setting.gil, Alone, NEW t \in Threads, Step(t), NEW j \in Keys,
                      handed[j] # None, handed'[j] # None
               PROVE  handed'[j] = handed[j]
    BY DEF Next
  <2>1. slot[j] # None /\ slot[j].handle = handed[j]
    BY DEF Inv, HandlesAreLive
  <2>2. handed \in [Keys -> Handles \cup {None}]
    BY DEF Inv, Typed
  <2>3. CASE NodePromote(t)
    <3>1. ~Has(arg[t].key) \/ slot[arg[t].key].handle = None
      BY <2>3 DEF Alone, NodePromote, At
    <3>2. arg[t].key = j => UNCHANGED handed
      BY <2>1, <2>3, <3>1 DEF NodePromote
    <3>3. arg[t].key # j => handed'[j] = handed[j]
      BY <2>2, <2>3 DEF NodePromote
    <3>4. QED
      BY <3>2, <3>3
  <2>4. CASE NodeRead(t)
    BY <2>1, <2>2, <2>4 DEF NodeRead
  <2>5. CASE Conflict(t) \/ Node(t) \/ NodeCheck(t) \/ Annotate(t)
    BY <2>5 DEF Conflict, Node, NodeCheck, Annotate
  <2>6. CASE Set(t) \/ SetConvert(t) \/ SetRead(t) \/ Sort(t) \/ SortReturns(t)
    BY <2>6 DEF Set, SetConvert, SetRead, Sort, SortReturns
  <2>7. CASE SetWrite(t) \/ SetAlias(t) \/ Del(t)
    BY <2>2, <2>7 DEF SetWrite, SetAlias, Del, Store
  <2>8. CASE SortRaises(t)
    BY <2>8 DEF SortRaises
  <2>9. QED
    BY <2>3, <2>4, <2>5, <2>6, <2>7, <2>8 DEF Step
<1>2. QED
  BY <1>1, InvHolds, AloneHolds, PTL DEF Spec, NodeIsStable

(***************************************************************************)
(* With the GIL and key functions that do not raise, the mapping           *)
(* implements MappingPromise.                                              *)
(***************************************************************************)
\* No two entries share a handle.
Separate ==
  \A j, k \in Keys :
    slot[j] # None /\ slot[k] # None /\ slot[j].handle # None
    /\ slot[j].handle = slot[k].handle => j = k

\* What __setitem__ has read of the old entry is so still when it writes.
ReadIsCurrent ==
  /\ DOMAIN read = Threads
  /\ \A t \in Threads :
       pc[t] = "set_write" =>
         LET k == arg[t].key
         IN  read[t] = IF Has(k) THEN Data(slot[k]).note ELSE None

\* Only NodePromote puts a handle into a slot, and it is a fresh one.
LEMMA SeparateStep ==
  ASSUME Inv, Separate, NEW t \in Threads, Step(t)
  PROVE  Separate'
<1>0. slot \in [Keys -> Slots \cup {None}]
  BY DEF Inv, Typed
<1>1. CASE slot' = slot
  BY <1>1 DEF Separate
<1>2. CASE \E k \in Keys : \E s \in Slots \cup {None} :
             s.handle = None /\ slot' = [slot EXCEPT ![k] = s]
  BY <1>0, <1>2 DEF Separate
<1>3. CASE NodePromote(t)
  <2> DEFINE k == arg[t].key
             h == CHOOSE h \in Fresh : TRUE
  <2>1. pc[t] = "node_promote" /\ Fresh # {} /\ k \in Keys
    BY <1>3 DEF NodePromote, At, Inv, Pending, NodeSteps
  <2>2. h \in Handles /\ heap[h] = None
    <3>1. h \in Fresh
      BY <2>1
    <3>2. QED
      BY <3>1 DEF Fresh
  <2>3. slot' = slot \/ slot' = [slot EXCEPT ![k] = LivePy(h)]
    BY <1>3 DEF NodePromote, mapping
  <2> HIDE DEF h, k
  <2>4. LivePy(h).handle = h
    BY DEF LivePy
  <2>5. \A j \in Keys : slot[j] # None => slot[j].handle # h
    BY <2>2, LiveMappingConstants DEF Inv, GivenOut
  <2>6. QED
    BY <1>0, <2>1, <2>3, <2>4, <2>5 DEF Separate
<1>4. CASE Conflict(t) \/ Node(t) \/ NodeCheck(t) \/ NodeRead(t) \/ Annotate(t)
  BY <1>1, <1>4 DEF Conflict, Node, NodeCheck, NodeRead, Annotate, mapping
<1>5. CASE Set(t) \/ SetConvert(t) \/ SetRead(t) \/ Sort(t) \/ SortReturns(t)
  BY <1>1, <1>5 DEF Set, SetConvert, SetRead, Sort, SortReturns, mapping
<1>6. CASE SetWrite(t) \/ SetAlias(t) \/ Del(t) \/ SortRaises(t)
  <2>1. \A j \in Keys : slot'[j] # None /\ slot'[j].handle # None =>
                          slot[j] # None /\ slot[j].handle = slot'[j].handle
    <3>1. CASE SetWrite(t)
      BY <1>0, <3>1 DEF SetWrite, Store, Inline
    <3>2. CASE SetAlias(t)
      BY <1>0, <3>2 DEF SetAlias, Store, Inline, mapping
    <3>3. CASE Del(t)
      BY <1>0, <3>3 DEF Del, mapping
    <3>4. CASE SortRaises(t)
      BY <1>0, <3>4 DEF SortRaises
    <3>5. QED
      BY <1>6, <3>1, <3>2, <3>3, <3>4
  <2>2. QED
    BY <2>1 DEF Separate
<1>7. QED
  BY <1>3, <1>4, <1>5, <1>6 DEF Step

\* Nothing runs between the two borrows of __setitem__.
LEMMA ReadIsCurrentStep ==
  ASSUME Inv, setting.gil, Alone, ReadIsCurrent, NEW t \in Threads, Step(t)
  PROVE  ReadIsCurrent'
<1>0. DOMAIN read' = Threads
  <2>1. DOMAIN read = Threads
    BY DEF ReadIsCurrent
  <2>2. CASE UNCHANGED read
    BY <2>1, <2>2
  <2>3. CASE SetRead(t) \/ SetWrite(t)
    BY <2>1, <2>3 DEF SetRead, SetWrite
  <2>4. CASE Conflict(t) \/ Node(t) \/ NodeCheck(t) \/ NodePromote(t) \/ NodeRead(t)
    BY <2>2, <2>4 DEF Conflict, Node, NodeCheck, NodePromote, NodeRead
  <2>5. CASE \/ Annotate(t) \/ Set(t) \/ SetConvert(t) \/ SetAlias(t) \/ Del(t)
             \/ Sort(t) \/ SortReturns(t) \/ SortRaises(t)
    BY <2>2, <2>5 DEF Annotate, Set, SetConvert, SetAlias, Del, Sort, SortReturns, SortRaises
  <2>6. QED
    BY <2>3, <2>4, <2>5 DEF Step
<1>1. Runs(t)
  BY StepsRun
<1>2. \A u \in Threads \ {t} : pc[u] \in {"idle"} \cup CallsPython
  BY <1>1, LiveMappingConstants DEF Alone, Runs
<1>3. CASE \E where \in Places \ {"set_write"} : Goto(t, where)
  <2>1. \A u \in Threads : pc'[u] # "set_write"
    BY <1>2, <1>3, Moved DEF Inv, CallsPython
  <2>2. QED
    BY <1>0, <2>1 DEF ReadIsCurrent
<1>4. CASE SetRead(t)
  <2>1. /\ read' = [read EXCEPT ![t] = IF Has(arg[t].key) THEN Data(slot[arg[t].key]).note
                                                          ELSE None]
        /\ Goto(t, "set_write") /\ UNCHANGED <<order, slot, heap, arg>>
    BY <1>4 DEF SetRead, Continue, mapping
  <2>2. \A u \in Threads \ {t} : pc'[u] # "set_write"
    BY <1>2, <2>1, Moved DEF Inv, CallsPython, Places, SetSteps
  <2>3. QED
    BY <1>0, <2>1, <2>2 DEF ReadIsCurrent, Has, Data
<1>5. Step(t) => SetRead(t) \/ \E where \in Places \ {"set_write"} : Goto(t, where)
  <2>1. CASE Conflict(t)
    BY <2>1 DEF Conflict, End, Places
  <2>2. CASE Node(t) \/ NodePromote(t) \/ NodeRead(t) \/ Annotate(t) \/ NodeCheck(t)
    BY <2>2 DEF Node, NodeCheck, NodePromote, NodeRead, Annotate, Begin, At, End, Continue,
                Places, NodeSteps
  <2>3. CASE Set(t) \/ SetConvert(t) \/ SetWrite(t)
    BY <2>3 DEF Set, SetConvert, SetWrite, Begin, At, End, Continue, Places, SetSteps
  <2>4. CASE SetAlias(t) \/ Del(t)
    BY <2>4 DEF SetAlias, Del, Begin, End, Places
  <2>5. CASE Sort(t) \/ SortReturns(t) \/ SortRaises(t)
    BY <2>5 DEF Sort, SortReturns, SortRaises, Begin, End, Continue, Places
  <2>6. QED
    BY <2>1, <2>2, <2>3, <2>4, <2>5 DEF Step
<1>6. QED
  BY <1>3, <1>4, <1>5

\* What the document says of an entry.
LEMMA EntryOf ==
  ASSUME Inv, Free, NEW k \in Keys
  PROVE  /\ Has(k) => Doc[k] = Data(slot[k]) /\ Doc[k] \in EntryData /\ Doc[k] # None
         /\ ~Has(k) => Doc[k] = None
<1>1. ToSet(drained) = {}
  BY DEF Inv, Ordered, Free, ToSet
<1>2. Has(k) <=> slot[k] # None
  BY <1>1 DEF Inv, Ordered, Has
<1>3. QED
  BY <1>2, Entries, NoneIsNoEntry DEF Doc

\* The slot of one entry is replaced by one that holds its data itself.
LEMMA OneChanges ==
  ASSUME Inv, NEW k \in Keys, NEW s, s # None => s.handle = None,
         slot' = [slot EXCEPT ![k] = s], heap' = heap
  PROVE  Doc' = [Doc EXCEPT ![k] = IF s = None THEN None ELSE s.data]
<1>1. slot \in [Keys -> Slots \cup {None}]
  BY DEF Inv, Typed
<1>2. \A j \in Keys : slot'[j] = IF j = k THEN s ELSE slot[j]
  BY <1>1
<1>3. \A j \in Keys : Doc'[j] = IF j = k THEN IF s = None THEN None ELSE s.data ELSE Doc[j]
  BY <1>2 DEF Doc, Data
<1>4. QED
  BY <1>3 DEF Doc

LEMMA NodePromoteKeeps ==
  ASSUME Inv, Alone, NEW t \in Threads, NodePromote(t)
  PROVE  UNCHANGED Doc
<1> DEFINE k == arg[t].key
           h == CHOOSE h \in Fresh : TRUE
<1>0. slot \in [Keys -> Slots \cup {None}] /\ heap \in [Handles -> EntryData \cup {None}]
  BY DEF Inv, Typed
<1>1. pc[t] = "node_promote" /\ Fresh # {} /\ k \in Keys /\ Free
  BY DEF NodePromote, At, Inv, Pending, NodeSteps
<1>2. h \in Handles /\ heap[h] = None
  <2>1. h \in Fresh
    BY <1>1
  <2>2. QED
    BY <2>1 DEF Fresh
<1>3. CASE ~Has(k)
  BY <1>3 DEF NodePromote, mapping, Doc, Data
<1>4. CASE Has(k)
  <2>1. /\ heap' = [heap EXCEPT ![h] = Promoted(slot[k])]
        /\ slot' = [slot EXCEPT ![k] = LivePy(h)]
    BY <1>4 DEF NodePromote
  <2>2. slot[k] \in Slots /\ slot[k] # None /\ slot[k].handle = None
    BY <1>0, <1>1, <1>4, Entries, NoneIsNoEntry DEF Alone
  <2> HIDE DEF h, k
  <2>3. LivePy(h).handle = h /\ h # None /\ LivePy(h) # None
    <3>1. LivePy(h) \in Slots
      BY <1>2 DEF LivePy, Slots, Null, EntryData
    <3>2. QED
      BY <1>2, <3>1, NoneIsNoEntry, LiveMappingConstants DEF LivePy
  <2>4. Promoted(slot[k]) = slot[k].data
    BY <2>2 DEF Promoted
  <2>5. ASSUME NEW j \in Keys PROVE Doc'[j] = Doc[j]
    <3>1. CASE j = k
      <4>1. slot'[j] = LivePy(h) /\ heap'[h] = slot[k].data
        BY <1>0, <1>1, <1>2, <2>1, <2>4, <3>1
      <4>2. Doc'[j] = slot[k].data
        BY <2>3, <4>1 DEF Doc, Data
      <4>3. Doc[j] = slot[k].data
        BY <2>2, <3>1 DEF Doc, Data
      <4>4. QED
        BY <4>2, <4>3
    <3>2. CASE j # k
      <4>1. slot'[j] = slot[j]
        BY <1>0, <1>1, <2>1, <3>2
      <4>2. slot[j] # None /\ slot[j].handle # None =>
              slot[j].handle \in Handles /\ slot[j].handle # h
        BY <1>0, <1>2 DEF Inv, GivenOut, Slots
      <4>3. slot[j] # None /\ slot[j].handle # None =>
              heap'[slot[j].handle] = heap[slot[j].handle]
        BY <1>0, <2>1, <4>2
      <4>4. QED
        BY <4>1, <4>3 DEF Doc, Data
    <3>3. QED
      BY <3>1, <3>2
  <2>6. QED
    BY <2>5 DEF Doc
<1>5. QED
  BY <1>3, <1>4

\* A setter of a node writes into the entry that holds the handle, if one does.
LEMMA AnnotateKeeps ==
  ASSUME Inv, Separate, NEW t \in Threads, Annotate(t)
  PROVE  \/ UNCHANGED Doc
         \/ \E k \in Keys : /\ Doc[k] # None
                            /\ Doc' = [Doc EXCEPT ![k] = [Doc[k] EXCEPT !.note = TRUE]]
<1> DEFINE h == outcome[t]
<1>0. slot \in [Keys -> Slots \cup {None}] /\ heap \in [Handles -> EntryData \cup {None}]
  BY DEF Inv, Typed
<1>1. h \in Handles /\ heap' = [heap EXCEPT ![h].note = TRUE] /\ slot' = slot /\ h # None
  BY LiveMappingConstants DEF Annotate
<1>2. heap[h] # None /\ heap[h] \in EntryData
  BY <1>0, <1>1 DEF Inv, GivenOut
<1> HIDE DEF h
<1>3. /\ \A g \in Handles : g # h => heap'[g] = heap[g]
      /\ heap'[h] = [heap[h] EXCEPT !.note = TRUE]
  BY <1>0, <1>1
<1>4. \A j \in Keys : slot[j] # None /\ slot[j].handle # None => slot[j].handle \in Handles
  BY <1>0 DEF Slots
<1>5. CASE \E k \in Keys : slot[k] # None /\ slot[k].handle = h
  <2>1. PICK k \in Keys : slot[k] # None /\ slot[k].handle = h
    BY <1>5
  <2>2. Doc[k] = heap[h] /\ Doc'[k] = [heap[h] EXCEPT !.note = TRUE] /\ Doc[k] # None
    BY <1>1, <1>2, <1>3, <2>1 DEF Doc, Data
  <2>3. ASSUME NEW j \in Keys, j # k PROVE Doc'[j] = Doc[j]
    <3>1. slot[j] # None /\ slot[j].handle # None => slot[j].handle # h
      BY <1>1, <2>1, <2>3 DEF Separate
    <3>2. QED
      BY <1>1, <1>3, <1>4, <3>1 DEF Doc, Data
  <2>4. Doc' = [Doc EXCEPT ![k] = [Doc[k] EXCEPT !.note = TRUE]]
    BY <2>2, <2>3 DEF Doc
  <2>5. QED
    BY <2>2, <2>4
<1>6. CASE \A k \in Keys : slot[k] # None => slot[k].handle # h
  BY <1>1, <1>3, <1>4, <1>6 DEF Doc, Data
<1>7. QED
  BY <1>5, <1>6

\* An assignment is a Put: nothing has come between its two borrows.
LEMMA SetWritePuts ==
  ASSUME Inv, ReadIsCurrent, NEW t \in Threads, SetWrite(t)
  PROVE  \E k \in Keys, v \in Values :
           Doc' = [Doc EXCEPT ![k] = [value |-> v, alias |-> FALSE,
                                      note |-> Doc[k] # None /\ Doc[k].note]]
<1> DEFINE k == arg[t].key
           v == arg[t].value
           d == [value |-> v, alias |-> FALSE, note |-> Has(k) /\ read[t] = TRUE]
           s == Inline(d)
<1>1. pc[t] = "set_write" /\ Free /\ k \in Keys /\ v \in Values
  BY DEF SetWrite, At, Inv, Pending, SetSteps
<1>2. slot' = [slot EXCEPT ![k] = s] /\ heap' = heap
  BY DEF SetWrite, Store
<1>3. s.handle = None /\ s # None /\ s.data = d
  <2>1. s.handle = None /\ s.data = d
    BY DEF Inline
  <2>2. d \in EntryData
    BY <1>1 DEF EntryData
  <2>3. s \in Slots
    BY <2>2 DEF Inline, Slots
  <2>4. QED
    BY <2>1, <2>3, NoneIsNoEntry
<1>4. Doc' = [Doc EXCEPT ![k] = d]
  <2> HIDE DEF s, d, k
  <2>1. Doc' = [Doc EXCEPT ![k] = IF s = None THEN None ELSE s.data]
    BY <1>1, <1>2, <1>3, OneChanges
  <2>2. QED
    BY <1>3, <2>1
<1>5. (Has(k) /\ read[t] = TRUE) = (Doc[k] # None /\ Doc[k].note)
  <2> DEFINE n == Doc[k].note
  <2>1. CASE Has(k)
    <3>1. Doc[k] # None /\ Doc[k] \in EntryData /\ read[t] = n
      BY <1>1, <2>1, EntryOf DEF ReadIsCurrent
    <3>2. n \in BOOLEAN
      BY <3>1 DEF EntryData
    <3> HIDE DEF n
    <3>3. (read[t] = TRUE) = n
      BY <3>1, <3>2
    <3>4. QED
      BY <2>1, <3>1, <3>3 DEF n
  <2>2. CASE ~Has(k)
    BY <1>1, <2>2, EntryOf
  <2>3. QED
    BY <2>1, <2>2
<1>6. d = [value |-> v, alias |-> FALSE, note |-> Doc[k] # None /\ Doc[k].note]
  BY <1>5
<1>7. QED
  BY <1>1, <1>4, <1>6

LEMMA SetAliasMarks ==
  ASSUME Inv, NEW t \in Threads, SetAlias(t)
  PROVE  \/ UNCHANGED Doc
         \/ \E k \in Keys : /\ Doc[k] # None
                            /\ Doc' = [Doc EXCEPT ![k] = [value |-> Doc[k].value, note |-> FALSE,
                                                          alias |-> TRUE]]
<1>1. CASE UNCHANGED mapping
  BY <1>1 DEF mapping, Doc, Data
<1>2. CASE ~UNCHANGED mapping
  <2>1. PICK k \in Keys :
          /\ Has(k) /\ Free
          /\ Store(k, [Inline([Data(slot[k]) EXCEPT !.note = FALSE, !.alias = TRUE])
                         EXCEPT !.nested = Data(slot[k]).alias])
    BY <1>2 DEF SetAlias
  <2> DEFINE e == Data(slot[k])
             d == [Data(slot[k]) EXCEPT !.note = FALSE, !.alias = TRUE]
             s == [Inline(d) EXCEPT !.nested = Data(slot[k]).alias]
  <2>2. slot' = [slot EXCEPT ![k] = s] /\ heap' = heap
    BY <2>1 DEF Store
  <2>3. Doc[k] = Data(slot[k]) /\ Doc[k] \in EntryData /\ Doc[k] # None
    BY <2>1, EntryOf
  <2>4. d \in EntryData /\ d = [value |-> Doc[k].value, note |-> FALSE, alias |-> TRUE]
    <3>1. d = [e EXCEPT !.note = FALSE, !.alias = TRUE] /\ e \in EntryData /\ e = Doc[k]
      BY <2>3
    <3> HIDE DEF e, d
    <3>2. d \in EntryData /\ d = [value |-> e.value, note |-> FALSE, alias |-> TRUE]
      BY <3>1 DEF EntryData
    <3>3. QED
      BY <3>1, <3>2
  <2>5. s.handle = None /\ s # None /\ s.data = d
    <3> HIDE DEF d
    <3>1. s.handle = None /\ s.data = d
      BY DEF Inline
    <3>2. Data(slot[k]).alias \in BOOLEAN
      BY <2>3 DEF EntryData
    <3>3. s \in Slots
      BY <2>4, <3>2 DEF Inline, Slots
    <3>4. QED
      BY <3>1, <3>3, NoneIsNoEntry
  <2> HIDE DEF s, d
  <2>6. Doc' = [Doc EXCEPT ![k] = IF s = None THEN None ELSE s.data]
    BY <2>2, <2>5, OneChanges
  <2>7. QED
    BY <2>3, <2>4, <2>5, <2>6
<1>3. QED
  BY <1>1, <1>2

LEMMA DelRemoves ==
  ASSUME Inv, NEW t \in Threads, Del(t)
  PROVE  \/ UNCHANGED Doc
         \/ \E k \in Keys : Doc[k] # None /\ Doc' = [Doc EXCEPT ![k] = None]
<1>1. CASE UNCHANGED mapping
  BY <1>1 DEF mapping, Doc, Data
<1>2. CASE ~UNCHANGED mapping
  <2>1. PICK k \in Keys : Has(k) /\ Free /\ slot' = [slot EXCEPT ![k] = None] /\ heap' = heap
    BY <1>2 DEF Del
  <2>2. Doc[k] # None
    BY <2>1, EntryOf
  <2>3. Doc' = [Doc EXCEPT ![k] = None]
    BY <2>1, OneChanges
  <2>4. QED
    BY <2>2, <2>3
<1>3. QED
  BY <1>1, <1>2

\* Each step of a thread is a step of the promise, or leaves the document alone.
LEMMA StepKeepsPromise ==
  ASSUME Inv, setting.gil, ~setting.raises, UNCHANGED setting,
         Alone, Separate, ReadIsCurrent, NEW t \in Threads, Step(t)
  PROVE  Promise!Next \/ UNCHANGED Promised
<1>1. Promised = Doc /\ Promised' = Doc'
  BY DEF Promised
<1>2. CASE SetWrite(t)
  <2>1. PICK k \in Keys, v \in Values :
           Doc' = [Doc EXCEPT ![k] = [value |-> v, alias |-> FALSE,
                                      note |-> Doc[k] # None /\ Doc[k].note]]
    BY <1>2, SetWritePuts
  <2>2. Promise!Put(k, v)
    BY <1>1, <2>1 DEF Promise!Put, Promise!Change
  <2>3. QED
    BY <2>2 DEF Promise!Next
<1>3. CASE SetAlias(t)
  <2>1. CASE UNCHANGED Doc
    BY <1>1, <2>1
  <2>2. CASE \E k \in Keys :
               /\ Doc[k] # None
               /\ Doc' = [Doc EXCEPT ![k] = [value |-> Doc[k].value, note |-> FALSE,
                                             alias |-> TRUE]]
    BY <1>1, <2>2 DEF Promise!Next, Promise!MarkAlias, Promise!Change
  <2>3. QED
    BY <1>3, <2>1, <2>2, SetAliasMarks
<1>4. CASE Del(t)
  BY <1>1, <1>4, DelRemoves DEF Promise!Next, Promise!Remove, Promise!Change
<1>5. CASE Annotate(t)
  BY <1>1, <1>5, AnnotateKeeps DEF Promise!Next, Promise!Annotate, Promise!Change
<1>6. CASE NodePromote(t)
  BY <1>1, <1>6, NodePromoteKeeps
<1>7. CASE UNCHANGED <<slot, heap>>
  BY <1>1, <1>7 DEF Doc, Data
<1>8. CASE Conflict(t) \/ Node(t) \/ NodeCheck(t) \/ NodeRead(t)
  BY <1>7, <1>8 DEF Conflict, Node, NodeCheck, NodeRead, mapping
<1>9. CASE Set(t) \/ SetConvert(t) \/ SetRead(t) \/ Sort(t) \/ SortReturns(t)
  BY <1>7, <1>9 DEF Set, SetConvert, SetRead, Sort, SortReturns, mapping
<1>10. CASE SortRaises(t)
  BY <1>10 DEF SortRaises
<1>11. QED
  BY <1>2, <1>3, <1>4, <1>5, <1>6, <1>8, <1>9, <1>10 DEF Step

\* What holds beside Inv.
Guarded == Separate /\ (setting.gil => Alone /\ ReadIsCurrent)

LEMMA GuardedHolds == Spec => []Guarded
<1>1. Init => Guarded
  <2> SUFFICES ASSUME Init PROVE Guarded
    OBVIOUS
  <2>1. \A k \in Keys : slot[k].handle = None
    BY DEF Init, Inline
  <2>2. Separate
    BY <2>1 DEF Separate
  <2>3. Alone /\ ReadIsCurrent
    BY DEF Init, Alone, CallsPython, ReadIsCurrent
  <2>4. QED
    BY <2>2, <2>3 DEF Guarded
<1>2. Inv /\ Guarded /\ (setting.gil => Alone)' /\ [Next]_vars => Guarded'
  <2> SUFFICES ASSUME Inv, Guarded, (setting.gil => Alone)', [Next]_vars PROVE Guarded'
    OBVIOUS
  <2>1. CASE UNCHANGED vars
    BY <2>1 DEF vars, mapping, local, Guarded, Separate, ReadIsCurrent, Has, Data
  <2>2. ASSUME NEW t \in Threads, Step(t), UNCHANGED setting PROVE Guarded'
    BY <2>2, SeparateStep, ReadIsCurrentStep DEF Guarded
  <2>3. QED
    BY <2>1, <2>2 DEF Next
<1>3. QED
  BY <1>1, <1>2, InvHolds, AloneHolds, PTL DEF Spec

\* LiveMapping implements MappingPromise: with the GIL and key functions that do not
\* raise, entries change one at a time and only as a call asks; node(key), the setters of
\* a handle that has left the mapping, and sort_keys change nothing.
THEOREM PromiseIsKept == Spec => PromiseKept
<1>1. Init => Promise!Init
  <2> SUFFICES ASSUME Init PROVE Promise!Init
    OBVIOUS
  <2>1. ASSUME NEW k \in Keys
        PROVE  Doc[k] \in [value : Values \cup {"old"}, note : BOOLEAN, alias : BOOLEAN]
    <3>1. PICK d \in [value : {"old"}, note : BOOLEAN, alias : BOOLEAN] : slot[k] = Inline(d)
      BY DEF Init
    <3>2. d \in EntryData
      BY DEF EntryData
    <3>3. Inline(d) \in Slots
      BY <3>2 DEF Inline, Slots
    <3>4. Doc[k] = d
      BY <3>1, <3>3, NoneIsNoEntry DEF Doc, Data, Inline
    <3>5. QED
      BY <3>4
  <2>2. QED
    BY <2>1 DEF Promise!Init, Promise!Entries, Promised, Doc
<1>2. Inv /\ Guarded /\ [Next]_vars => [Promise!Next]_Promised
  <2> SUFFICES ASSUME Inv, Guarded, [Next]_vars PROVE Promise!Next \/ UNCHANGED Promised
    OBVIOUS
  <2>1. CASE UNCHANGED vars
    BY <2>1 DEF vars, mapping, Promised, Doc, Data
  <2>2. ASSUME NEW t \in Threads, Step(t), UNCHANGED setting
        PROVE  Promise!Next \/ UNCHANGED Promised
    <3>1. CASE setting.gil /\ ~setting.raises
      BY <2>2, <3>1, StepKeepsPromise DEF Guarded
    <3>2. CASE ~(setting.gil /\ ~setting.raises)
      BY <2>2, <3>2 DEF Promised
    <3>3. QED
      BY <3>1, <3>2
  <2>3. QED
    BY <2>1, <2>2 DEF Next
<1>3. QED
  BY <1>1, <1>2, InvHolds, GuardedHolds, PTL DEF Spec, PromiseKept, Promise!Spec
==================================================================================
