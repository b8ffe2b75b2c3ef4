------------------------------ MODULE LiveMapping ------------------------------
(***************************************************************************)
(* A YamlMapping as Python code sees it (src/py/py_mapping.rs, live.rs,    *)
(* convert.rs, sort.rs), used by several threads.  A scalar is stored      *)
(* inline until node(key) is asked for it: then it is promoted to a Python *)
(* object of its own, a handle, that the mapping and the caller share.     *)
(*                                                                         *)
(* A call is a sequence of borrows of the mapping's cell; each borrow is a *)
(* step.  With the GIL a thread gives way only where Python code is called;*)
(* on free-threaded CPython, which the module declares to support, it may  *)
(* do so between any two borrows.  A call that meets a borrow of another   *)
(* thread fails and has no effect.                                         *)
(***************************************************************************)
EXTENDS Integers, SequencesExt, FiniteSetsExt

CONSTANTS
  Threads, Keys, Handles,
  Values,   \* values programs assign
  None,     \* no handle, no thread, no entry, no comment that was read
  Settings, \* whether a global interpreter lock orders the threads, and whether a key
            \* function of a sort may raise
  Calls,    \* the calls programs make, among AllCalls
  MaxCalls  \* bound on the calls of a thread

AllCalls == {"node", "set", "set_alias", "del", "sort", "annotate"}

ASSUME LiveMappingConstants ==
  /\ Calls \subseteq AllCalls
  /\ Settings \subseteq [gil : BOOLEAN, raises : BOOLEAN]
  /\ MaxCalls \in Nat /\ IsFiniteSet(Keys)
  /\ None \notin Threads \cup Handles \cup {"ok", "error", "plain"}
  /\ Handles \cap {"ok", "error", "plain"} = {}

Null == [value |-> "null", note |-> FALSE, alias |-> FALSE] \* YamlScalar::null()

EntryData == [value : Values \cup {"old", "null"}, note : BOOLEAN, alias : BOOLEAN]

Slots == [handle : Handles \cup {None}, data : EntryData, nested : BOOLEAN]

ASSUME NoneIsNoEntry == None \notin EntryData /\ None \notin Slots

VARIABLES
  setting, \* one of Settings
  order,   \* the keys of the entries, in order
  slot,    \* LiveNode: what the entry of a key holds, None where there is none
  heap,    \* what the PyYamlScalar of a handle holds, None for handles not given out
  sorting, \* the thread whose sort borrows the cell mutably
  drained, \* the keys of the entries sort_mapping has taken out
  pc,      \* where each thread is: "idle", or the next borrow of its call
  arg,     \* the key, and the value, of its call
  read,    \* what __setitem__ has read of the old entry: its comment, or None
  left,    \* how many calls each thread may still make
  holder,  \* the thread that holds the GIL
  outcome, \* how a thread's last call ended: "ok", "error", "plain" or with a handle
  handed   \* the handle that node(key) has returned for the present entry

mapping == <<order, slot, heap>>
sort == <<sorting, drained>>
local == <<pc, arg, read, left>>
vars == <<setting, mapping, sort, local, holder, outcome, handed>>

Has(k) == k \in ToSet(order)

\* Where the entry of a key is.
Place(k) == CHOOSE i \in DOMAIN order : order[i] = k

\* The value, the comment and the alias mark that a slot stands for.
Data(s) == IF s.handle # None THEN heap[s.handle] ELSE s.data

Inline(data) == [handle |-> None, data |-> data, nested |-> FALSE]

LivePy(h) == [handle |-> h, data |-> Null, nested |-> FALSE]

\* is_scalar_child: an alias of an alias is none.
IsScalarChild(s) == s.handle = None /\ ~s.nested

(***************************************************************************)
(* Scheduling.                                                             *)
(***************************************************************************)
\* Where Python code runs inside a call: the conversion of a value that is assigned,
\* the key function of a sort.
CallsPython == {"convert", "key_function"}

Runs(t) == setting.gil => holder \in {None, t}

Goto(t, where) ==
  /\ pc' = [pc EXCEPT ![t] = where]
  /\ holder' = IF where = "idle" \/ where \in CallsPython THEN None ELSE t

End(t, how) == Goto(t, "idle") /\ outcome' = [outcome EXCEPT ![t] = how]

Continue(t, where) == Goto(t, where) /\ UNCHANGED outcome

\* The cell can be borrowed: no call holds it mutably.
Free == sorting = None

Begin(t, call) ==
  /\ call \in Calls
  /\ pc[t] = "idle" /\ left[t] > 0 /\ Runs(t)
  /\ left' = [left EXCEPT ![t] = @ - 1]

At(t, where) == pc[t] = where /\ Runs(t) /\ Free

\* borrow() or borrow_mut() fails: against a sort or, without the GIL, against a borrow
\* of a thread that is inside a call.
Conflict(t) ==
  /\ pc[t] \notin {"idle", "convert", "key_function"} /\ Runs(t)
  /\ \/ ~Free
     \/ ~setting.gil /\ \E u \in Threads \ {t} : pc[u] # "idle"
  /\ End(t, "error")
  /\ UNCHANGED <<mapping, sort, arg, read, left, handed>>

(***************************************************************************)
(* node(key): map_child_node.                                              *)
(***************************************************************************)
Node(t) ==
  /\ Begin(t, "node")
  /\ \E k \in Keys : arg' = [arg EXCEPT ![t].key = k]
  /\ Continue(t, "node_check")
  /\ UNCHANGED <<mapping, sort, read, handed>>

NodeCheck(t) ==
  /\ At(t, "node_check")
  /\ IF ~Has(arg[t].key) THEN End(t, "error")
     ELSE IF IsScalarChild(slot[arg[t].key]) THEN Continue(t, "node_promote")
     ELSE Continue(t, "node_read")
  /\ UNCHANGED <<mapping, sort, arg, read, left, handed>>

\* Fault for the checks: only the value is promoted.
PromotedBare(s) == IF s.handle = None THEN [s.data EXCEPT !.note = FALSE] ELSE Null

\* promote_scalar: out of a slot that holds a handle by now it makes a null.
Promoted(s) == IF s.handle = None THEN s.data ELSE Null

\* A PyYamlScalar that has not been given out; Handles bounds their number.
Fresh == {h \in Handles : heap[h] = None}

\* Fault for the checks: the node is a copy, the slot stays as it was.
NodePromoteDetached(t) ==
  LET k == arg[t].key
      h == CHOOSE h \in Fresh : TRUE
  IN  /\ At(t, "node_promote") /\ Fresh # {}
      /\ IF ~Has(k)
         THEN End(t, "error") /\ UNCHANGED <<mapping, handed>>
         ELSE /\ heap' = [heap EXCEPT ![h] = Promoted(slot[k])]
              /\ handed' = [handed EXCEPT ![k] = h]
              /\ End(t, h)
              /\ UNCHANGED <<order, slot>>
      /\ UNCHANGED <<sort, arg, read, left>>

NodePromote(t) ==
  LET k == arg[t].key
      h == CHOOSE h \in Fresh : TRUE
  IN  /\ At(t, "node_promote") /\ Fresh # {}
      /\ IF ~Has(k)
         THEN End(t, "error") /\ UNCHANGED <<mapping, handed>>
         ELSE /\ heap' = [heap EXCEPT ![h] = Promoted(slot[k])]
              /\ slot' = [slot EXCEPT ![k] = LivePy(h)]
              /\ handed' = [handed EXCEPT ![k] = h]
              /\ End(t, h)
              /\ UNCHANGED order
      /\ UNCHANGED <<sort, arg, read, left>>

\* Fault for the checks: each call of node(key) wraps the scalar anew.
NodeReadAnew(t) ==
  LET k == arg[t].key
      h == CHOOSE h \in Fresh : TRUE
  IN  /\ At(t, "node_read") /\ Fresh # {}
      /\ IF ~Has(k) \/ slot[k].handle = None
         THEN End(t, IF Has(k) THEN "plain" ELSE "error") /\ UNCHANGED <<mapping, handed>>
         ELSE /\ heap' = [heap EXCEPT ![h] = Data(slot[k])]
              /\ slot' = [slot EXCEPT ![k] = LivePy(h)]
              /\ handed' = [handed EXCEPT ![k] = h]
              /\ End(t, h)
              /\ UNCHANGED order
      /\ UNCHANGED <<sort, arg, read, left>>

NodeRead(t) ==
  LET k == arg[t].key
  IN  /\ At(t, "node_read")
      /\ IF ~Has(k) THEN End(t, "error") /\ UNCHANGED handed
         ELSE IF slot[k].handle # None
         THEN End(t, slot[k].handle) /\ handed' = [handed EXCEPT ![k] = slot[k].handle]
         ELSE End(t, "plain") /\ UNCHANGED handed \* node_to_py: a Python value
      /\ UNCHANGED <<mapping, sort, arg, read, left>>

\* A setter of PyYamlScalar, on the handle the thread's last call returned.
Annotate(t) ==
  /\ Begin(t, "annotate")
  /\ outcome[t] \in Handles
  /\ heap' = [heap EXCEPT ![outcome[t]].note = TRUE]
  /\ Goto(t, "idle")
  /\ UNCHANGED <<order, slot, sort, arg, read, outcome, handed>>

(***************************************************************************)
(* m[key] = value: __setitem__, of a value that converts to a scalar.      *)
(***************************************************************************)
Store(k, s) ==
  /\ slot' = [slot EXCEPT ![k] = s]
  /\ order' = IF Has(k) THEN order ELSE Append(order, k)
  /\ handed' = [handed EXCEPT ![k] = None]
  /\ UNCHANGED heap

Set(t) ==
  /\ Begin(t, "set")
  /\ \E k \in Keys, v \in Values : arg' = [arg EXCEPT ![t] = [key |-> k, value |-> v]]
  /\ Continue(t, "convert")
  /\ UNCHANGED <<mapping, sort, read, handed>>

SetConvert(t) ==
  /\ pc[t] = "convert" /\ Runs(t)
  /\ Continue(t, "set_read")
  /\ UNCHANGED <<mapping, sort, arg, read, left, handed>>

SetRead(t) ==
  LET k == arg[t].key
  IN  /\ At(t, "set_read")
      /\ read' = [read EXCEPT ![t] = IF Has(k) THEN Data(slot[k]).note ELSE None]
      /\ Continue(t, "set_write")
      /\ UNCHANGED <<mapping, sort, arg, left, handed>>

\* carry_metadata: the new node takes the old one's comment.
SetWrite(t) ==
  /\ At(t, "set_write")
  /\ Store(arg[t].key, Inline([value |-> arg[t].value, alias |-> FALSE,
                               note |-> Has(arg[t].key) /\ read[t] = TRUE]))
  /\ read' = [read EXCEPT ![t] = None]
  /\ End(t, "ok")
  /\ UNCHANGED <<sort, arg, left>>

(***************************************************************************)
(* Calls of one borrow.                                                    *)
(***************************************************************************)
\* set_alias: the present value becomes what the alias resolves to; its comment does not
\* become the alias's.
SetAlias(t) ==
  /\ Begin(t, "set_alias")
  /\ IF Free
     THEN \E k \in Keys :
            IF Has(k)
            THEN /\ Store(k, [Inline([Data(slot[k]) EXCEPT !.note = FALSE, !.alias = TRUE])
                                EXCEPT !.nested = Data(slot[k]).alias])
                 /\ End(t, "ok")
            ELSE End(t, "error") /\ UNCHANGED <<mapping, handed>>
     ELSE End(t, "error") /\ UNCHANGED <<mapping, handed>>
  /\ UNCHANGED <<sort, arg, read>>

\* Fault for the checks: the key of a deleted entry stays in the order.
DelHalf(t) ==
  /\ Begin(t, "del")
  /\ \E k \in Keys :
       IF Free /\ Has(k)
       THEN /\ slot' = [slot EXCEPT ![k] = None]
            /\ handed' = [handed EXCEPT ![k] = None]
            /\ End(t, "ok")
            /\ UNCHANGED <<order, heap>>
       ELSE End(t, "error") /\ UNCHANGED <<mapping, handed>>
  /\ UNCHANGED <<sort, arg, read>>

\* __delitem__
Del(t) ==
  /\ Begin(t, "del")
  /\ \E k \in Keys :
       IF Free /\ Has(k)
       THEN /\ slot' = [slot EXCEPT ![k] = None]
            /\ order' = RemoveAt(order, Place(k))
            /\ handed' = [handed EXCEPT ![k] = None]
            /\ End(t, "ok")
            /\ UNCHANGED heap
       ELSE End(t, "error") /\ UNCHANGED <<mapping, handed>>
  /\ UNCHANGED <<sort, arg, read>>

(***************************************************************************)
(* sort_keys(key=...): sort_mapping works on the entries it has drained.   *)
(***************************************************************************)
Sort(t) ==
  /\ Begin(t, "sort")
  /\ IF Free
     THEN /\ sorting' = t
          /\ drained' = order
          /\ order' = <<>>
          /\ Continue(t, "key_function")
     ELSE End(t, "error") /\ UNCHANGED <<order, sort>>
  /\ UNCHANGED <<slot, heap, arg, read, handed>>

\* The key function and the comparison of its results decide on the order.
SortReturns(t) ==
  /\ pc[t] = "key_function" /\ Runs(t)
  /\ order' \in SetToSeqs(ToSet(drained))
  /\ sorting' = None /\ drained' = <<>>
  /\ End(t, "ok")
  /\ UNCHANGED <<slot, heap, arg, read, left, handed>>

\* One of them raises (also because it looks at the mapping, which is borrowed): the
\* drained entries are dropped with the stack of sort_mapping.
SortRaises(t) ==
  /\ pc[t] = "key_function" /\ Runs(t)
  /\ setting.raises
  /\ slot' = [k \in Keys |-> IF k \in ToSet(drained) THEN None ELSE slot[k]]
  /\ handed' = [k \in Keys |-> IF k \in ToSet(drained) THEN None ELSE handed[k]]
  /\ sorting' = None /\ drained' = <<>>
  /\ End(t, "error")
  /\ UNCHANGED <<order, heap, arg, read, left>>

(***************************************************************************)
(* The specification.                                                      *)
(***************************************************************************)
Init ==
  /\ setting \in Settings
  /\ order \in SetToSeqs(Keys)
  /\ slot \in [Keys -> {Inline(d) : d \in [value : {"old"}, note : BOOLEAN, alias : BOOLEAN]}]
  /\ heap = [h \in Handles |-> None]
  /\ sorting = None /\ drained = <<>>
  /\ pc = [t \in Threads |-> "idle"]
  /\ arg = [t \in Threads |-> [key |-> None, value |-> None]]
  /\ read = [t \in Threads |-> None]
  /\ left = [t \in Threads |-> MaxCalls]
  /\ holder = None
  /\ outcome = [t \in Threads |-> "ok"]
  /\ handed = [k \in Keys |-> None]

Step(t) ==
  \/ Conflict(t)
  \/ Node(t) \/ NodeCheck(t) \/ NodePromote(t) \/ NodeRead(t) \/ Annotate(t)
  \/ Set(t) \/ SetConvert(t) \/ SetRead(t) \/ SetWrite(t)
  \/ SetAlias(t) \/ Del(t)
  \/ Sort(t) \/ SortReturns(t) \/ SortRaises(t)

Next == (\E t \in Threads : Step(t)) /\ UNCHANGED setting

Spec == Init /\ [][Next]_vars

\* A call that has begun goes on.
FairSpec == Spec /\ \A t \in Threads : WF_vars(pc[t] # "idle" /\ Step(t) /\ UNCHANGED setting)

(***************************************************************************)
(* Properties.                                                             *)
(***************************************************************************)
\* Every variable has its type; an entry that is not drained is in the order, once.
TypeOK ==
  /\ slot \in [Keys -> Slots \cup {None}]
  /\ heap \in [Handles -> EntryData \cup {None}]
  /\ order \in Seq(Keys) /\ drained \in Seq(Keys)
  /\ sorting \in Threads \cup {None} /\ holder \in Threads \cup {None}
  /\ pc \in [Threads -> {"idle", "node_check", "node_promote", "node_read", "convert",
                         "set_read", "set_write", "key_function"}]
  /\ IsInjective(order \o drained)
  /\ ToSet(order \o drained) = {k \in Keys : slot[k] # None}

\* The document a program sees, with the entries that are being sorted.
Doc == [k \in Keys |-> IF slot[k] # None THEN Data(slot[k]) ELSE None]

\* It keeps its promise to threads that the GIL orders and that do not raise in a sort; to
\* others nothing is promised (docs/threading.md), and they count as having no document.
Promised ==
  IF setting.gil /\ ~setting.raises THEN Doc ELSE [k \in Keys |-> None]

Promise == INSTANCE MappingPromise WITH
             doc <- Promised, Absent <- None, Values <- Values \cup {"old"}

\* The mapping implements MappingPromise: whatever calls run, in whatever order, its
\* entries change only as a program asks; node(key) and sort_keys change nothing.
PromiseKept == Promise!Spec

\* node(key) returns a live handle: while the entry is neither assigned nor deleted, the
\* mapping holds the handle it returned last, so that its setters reach the document
\* (docs/api.md).
HandlesAreLive ==
  \A k \in Keys : handed[k] # None => slot[k] # None /\ slot[k].handle = handed[k]

\* With the GIL, as long as nobody assigns or deletes the entry, node(key) returns the
\* same object.
NodeIsStable ==
  [][setting.gil =>
       \A k \in Keys : handed[k] # None /\ handed'[k] # None => handed'[k] = handed[k]]_vars

\* A call that raises leaves the document as it was: a key that is absent, a cell that
\* is borrowed, a key function that fails.
FailureChangesNothing ==
  [][\A t \in Threads :
       (left'[t] # left[t] \/ pc[t] # "idle") /\ pc'[t] = "idle" /\ outcome'[t] = "error"
       => UNCHANGED Doc]_vars
===============================================================================
