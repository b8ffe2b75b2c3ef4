---------------------------- MODULE MappingPromise ----------------------------
(***************************************************************************)
(* What a YamlMapping promises to the Python code that uses it, whoever    *)
(* else uses it: entries come, change and go one at a time, and only when  *)
(* the program asks for it.  Reading a child's node, failing to do what was*)
(* asked and sorting change nothing of what the entries hold.              *)
(***************************************************************************)
CONSTANTS
  Keys,   \* the keys of the mapping
  Values, \* the values an entry may be given
  Absent  \* the mapping holds no entry under a key

VARIABLE doc

Entries == [value : Values, note : BOOLEAN, alias : BOOLEAN]

Init == doc \in [Keys -> Entries \cup {Absent}]

Change(k, e) == doc' = [doc EXCEPT ![k] = e]

\* m[k] = v: a comment the entry has stays with it.
Put(k, v) ==
  Change(k, [value |-> v, note |-> doc[k] # Absent /\ doc[k].note, alias |-> FALSE])

Remove(k) == doc[k] # Absent /\ Change(k, Absent)

\* m.set_alias(k, ...): the value is kept, the comment is not.
MarkAlias(k) ==
  /\ doc[k] # Absent
  /\ Change(k, [value |-> doc[k].value, note |-> FALSE, alias |-> TRUE])

\* A setter of the node of an entry.
Annotate(k) == doc[k] # Absent /\ Change(k, [doc[k] EXCEPT !.note = TRUE])

Next == \E k \in Keys :
          \/ \E v \in Values : Put(k, v)
          \/ Remove(k) \/ MarkAlias(k) \/ Annotate(k)

Spec == Init /\ [][Next]_doc
===============================================================================
