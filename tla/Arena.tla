--------------------------------- MODULE Arena ---------------------------------
(***************************************************************************)
(* Lowering a document into the arena (src/core/arena.rs).  from_yaml      *)
(* walks the tree with a stack of tasks; one action is one arm of its      *)
(* loop.  Children are lowered before the container that names them, and   *)
(* anchors are followed in the order of the text, so that an alias whose   *)
(* anchor has been deleted takes its place.                                *)
(*                                                                         *)
(* The tree is chosen while it is visited.  What is visited is numbered:   *)
(* `from' is the place of a node, or of a scalar key, in the document.     *)
(* A comment is there or not; texts, tags, blank lines and the styles of   *)
(* plain and quoted scalars are left out.                                  *)
(***************************************************************************)
EXTENDS Integers, SequencesExt, FiniteSetsExt

CONSTANTS
  Settings, \* what the trees are made of: forms among AllForms, names of anchors, bounds
            \* on nodes, on the children of a node and on documents, and the indent step
  None      \* no anchor, no alias

\* Block scalars, empty roots, mappings, sequences, flow collections; keys that are
\* nodes, longer than a simple key, or block scalars; comments; anchored block collections
\* as keys; document markers.
AllForms == {"block", "null", "mapping", "sequence", "flow", "node key", "long key",
             "block key", "comment", "anchored key", "marks"}

ASSUME ArenaConstants ==
  /\ Settings \subseteq [forms : SUBSET AllForms, nodes : Nat \ {0}, width : Nat,
                         docs : Nat \ {0}, step : Nat \ {0}, names : SUBSET STRING]
  /\ None \notin UNION {s.names : s \in Settings}

VARIABLES
  setting, \* one of the Settings
  left,    \* how many nodes the documents may still have
  count,   \* how many nodes and scalar keys have been visited
  lower,   \* the locals of from_yaml: tasks, completed, nodes, anchors, keys
  arenas   \* the documents lowered so far

avars == <<setting, left, count, lower, arenas>>

Has(form) == form \in setting.forms

(***************************************************************************)
(* Trees.                                                                  *)
(***************************************************************************)
Names == setting.names \cup {None}

Flags == IF Has("comment") THEN BOOLEAN ELSE {FALSE}

Nodes(kinds, anchors, names, flows) ==
  [kind : kinds, from : {count + 1}, anchor : anchors, name : names, before : Flags,
   inline : Flags, flow : flows, parts : {<<>>}]

\* The anchors the node of a task may have; what an alias stands for may have the
\* alias's own.
AnchorsOf(task) == IF task.as = None THEN Names ELSE {None, task.as}

ScalarKinds ==
  {"scalar"} \cup (IF Has("block") THEN {"block"} ELSE {})
             \cup (IF Has("null") THEN {"null"} ELSE {})

Scalars(task) == Nodes(ScalarKinds, AnchorsOf(task), {None}, {FALSE})

\* Neither the root nor what an alias stands for is an alias.
AliasNames(task) == IF task.as = None /\ Len(lower.tasks) > 1 THEN setting.names ELSE {}

Aliases(task) == Nodes({"alias"}, {None}, AliasNames(task), {FALSE})

\* A collection in block style, or a block scalar, may stand in a flow collection: a program
\* can put it there, and so can an alias that takes the place of its anchor.
Styles == IF Has("flow") THEN BOOLEAN ELSE {FALSE}

Collections(kind, task) ==
  {node \in Nodes({kind}, AnchorsOf(task), {None}, Styles) :
     task.key /\ ~node.flow /\ ~Has("anchored key") => node.anchor = None}

\* The key of an entry: a node, or a scalar of one of the styles.
Keys ==
  [form : {"plain"} \cup (IF Has("node key") THEN {"node"} ELSE {})
                    \cup (IF Has("long key") THEN {"long"} ELSE {})
                    \cup (IF Has("block key") THEN {"block"} ELSE {}),
   anchor : Names, alias : Names]

GoodKeys ==
  {k \in Keys : /\ k.anchor = None \/ k.alias = None
                /\ k.form = "node" => k.anchor = None /\ k.alias = None
                /\ k.alias # None => k.form = "plain"}

KeyNodes(keys) == Cardinality({i \in DOMAIN keys : keys[i].form = "node"})

(***************************************************************************)
(* Tasks.                                                                  *)
(***************************************************************************)
\* as is the alias that the node is lowered for; key says that the node is a key.
Visit(as, key) == [task |-> "Visit", as |-> as, key |-> key]

KeyTask(key) == [task |-> "Key", anchor |-> key.anchor, alias |-> key.alias]

RestoreTask(alias) == [task |-> "RestoreAnchor", alias |-> alias]

FinishSequenceTask(node, len) == [task |-> "FinishSequence", node |-> node, len |-> len]

FinishMappingTask(node, keys) == [task |-> "FinishMapping", node |-> node, templates |-> keys]

Task == Last(lower.tasks)

Lowering(task) == lower.tasks # <<>> /\ Task.task = task

Anchored(anchors, node) == anchors \cup ({node.anchor} \ {None})

\* The state once the last task is done: the tasks it pushes, in the order in which they
\* are to be done.
Done(tasks) == [lower EXCEPT !.tasks = Front(@) \o Reverse(tasks)]

\* Fault for the checks: the number the node has is one too low.
CompletedBefore(node) ==
  [Done(<<>>) EXCEPT !.nodes = Append(@, node), !.completed = Append(@, Len(lower.nodes))]

\* A node is complete.
Completed(node) ==
  [Done(<<>>) EXCEPT !.nodes = Append(@, node), !.completed = Append(@, Len(lower.nodes) + 1)]

Counted(n) == left' = left - n /\ count' = count + 1 /\ UNCHANGED <<setting, arenas>>

VisitScalar ==
  /\ Lowering("Visit") /\ ~Task.key
  /\ \E node \in Scalars(Task) :
       lower' = [Completed(node) EXCEPT !.anchors = Anchored(@, node)]
  /\ Counted(0)

VisitAlias ==
  /\ Lowering("Visit") /\ ~Task.key
  /\ \E node \in Aliases(Task) :
       \/ /\ node.name \in lower.anchors
          /\ lower' = Completed(node)
          /\ Counted(0)
       \/ /\ node.name \notin lower.anchors
          /\ lower' = [Done(<<Visit(node.name, FALSE), RestoreTask(node)>>)
                         EXCEPT !.anchors = @ \cup {node.name}]
          /\ UNCHANGED <<setting, left, count, arenas>>

VisitSequence ==
  /\ Lowering("Visit") /\ Has("sequence")
  /\ \E node \in Collections("sequence", Task), len \in 0 .. setting.width :
       /\ len <= left
       /\ lower' = [Done([i \in 1 .. len |-> Visit(None, FALSE)] \o <<FinishSequenceTask(node, len)>>)
                      EXCEPT !.anchors = Anchored(@, node)]
       /\ Counted(len)

EntryTasks(key) ==
  <<KeyTask(key)>> \o (IF key.form = "node" THEN <<Visit(None, TRUE)>> ELSE <<>>)
    \o <<Visit(None, FALSE)>>

VisitMapping ==
  /\ Lowering("Visit") /\ Has("mapping")
  /\ \E node \in Collections("mapping", Task), len \in 0 .. setting.width :
       \E keys \in [1 .. len -> GoodKeys] :
         /\ len + KeyNodes(keys) <= left
         /\ lower' = [Done(FlattenSeq([i \in 1 .. len |-> EntryTasks(keys[i])])
                             \o <<FinishMappingTask(node, keys)>>)
                        EXCEPT !.anchors = Anchored(@, node)]
         /\ Counted(len + KeyNodes(keys))

\* Fault for the checks: a key may stay an alias when its anchor is gone.
KeyStaysAlias(anchors, key) == [anchor |-> key.anchor, alias |-> key.alias]

\* A key that is an alias becomes the anchor if there is none.
KeyProperties(anchors, key) ==
  IF key.alias # None /\ key.alias \notin anchors
  THEN [anchor |-> key.alias, alias |-> None]
  ELSE [anchor |-> key.anchor, alias |-> key.alias]

VisitKey ==
  /\ Lowering("Key")
  /\ LET key == KeyProperties(lower.anchors, Task)
     IN  lower' = [Done(<<>>) EXCEPT !.anchors = Anchored(@, key),
                     !.keys = Append(@, [from |-> count + 1, anchor |-> key.anchor,
                                         alias |-> key.alias])]
  /\ Counted(0)

\* What the alias stood for becomes the anchor, with the alias's comments.
Restored(node, alias) ==
  [node EXCEPT !.anchor = alias.name, !.before = alias.before, !.inline = alias.inline]

RestoreAnchor ==
  /\ Lowering("RestoreAnchor")
  /\ lower' = [Done(<<>>) EXCEPT !.nodes[Last(lower.completed)] = Restored(@, Task.alias)]
  /\ UNCHANGED <<setting, left, count, arenas>>

Tails(s, n) == SubSeq(s, Len(s) - n + 1, Len(s))

Without(s, n) == SubSeq(s, 1, Len(s) - n)

\* Fault for the checks: the children stay on the stack.
FinishedKeeping(node, children, parts) ==
  Completed([node EXCEPT !.parts = parts])

\* The last children have been completed: a collection of them replaces them.
Finished(node, children, parts) ==
  [Completed([node EXCEPT !.parts = parts]) EXCEPT
     !.completed = Append(Without(lower.completed, children), Len(lower.nodes) + 1)]

FinishSequence ==
  /\ Lowering("FinishSequence")
  /\ lower' = Finished(Task.node, Task.len, Tails(lower.completed, Task.len))
  /\ UNCHANGED <<setting, left, count, arenas>>

\* Fault for the checks: the properties of the keys are those of the first keys waiting.
EntriesOfFirstKeys(templates, children, keys) ==
  [i \in DOMAIN templates |->
     LET at == i + KeyNodes(SubSeq(templates, 1, i))
     IN  [form |-> templates[i].form, from |-> keys[i].from,
          anchor |-> keys[i].anchor, alias |-> keys[i].alias,
          node |-> IF templates[i].form = "node" THEN children[at - 1] ELSE 0,
          value |-> children[at]]]

\* The entries of a mapping: each takes its children, its key's node first, and the
\* properties its key was given, from those that came last.
Entries(templates, children, keys) ==
  EntriesOfFirstKeys(templates, children, Tails(keys, Len(templates)))

FinishMapping ==
  /\ Lowering("FinishMapping")
  /\ LET templates == Task.templates
         n == Len(templates) + KeyNodes(templates)
     IN  lower' = [Finished(Task.node, n,
                            Entries(templates, Tails(lower.completed, n), lower.keys))
                     EXCEPT !.keys = Without(@, Len(templates))]
  /\ UNCHANGED <<setting, left, count, arenas>>

Fresh == [tasks |-> <<Visit(None, FALSE)>>, completed |-> <<>>, nodes |-> <<>>,
          anchors |-> {}, keys |-> <<>>]

\* from_yaml returns the document, with the markers it is to have.
Lowered ==
  /\ lower.tasks = <<>> /\ lower.completed # <<>>
  /\ \E marks \in [start : BOOLEAN, end : BOOLEAN] :
       /\ ~Has("marks") => ~marks.start /\ ~marks.end
       /\ arenas' = Append(arenas, [nodes |-> lower.nodes, root |-> Last(lower.completed),
                                    start |-> marks.start, end |-> marks.end])
  /\ \/ /\ left > 0 /\ Len(arenas) + 1 < setting.docs
        /\ lower' = Fresh /\ left' = left - 1
     \/ lower' = [Fresh EXCEPT !.tasks = <<>>] /\ left' = left
  /\ UNCHANGED <<setting, count>>

ArenaInit ==
  /\ setting \in Settings
  /\ left = setting.nodes - 1 /\ count = 0
  /\ lower = Fresh /\ arenas = <<>>

Lower ==
  \/ VisitScalar \/ VisitAlias \/ VisitSequence \/ VisitMapping \/ VisitKey
  \/ RestoreAnchor \/ FinishSequence \/ FinishMapping \/ Lowered

(***************************************************************************)
(* What a lowered document says.                                           *)
(***************************************************************************)
\* The nodes a collection names, in the order of the text.
Children(node) ==
  IF node.kind = "mapping"
  THEN FlattenSeq([i \in DOMAIN node.parts |->
         IF node.parts[i].form = "node" THEN <<node.parts[i].node, node.parts[i].value>>
         ELSE <<node.parts[i].value>>])
  ELSE node.parts

Parents(nodes, i) == {p \in DOMAIN nodes : i \in ToSet(Children(nodes[p]))}

\* A node comes behind its children, so that no walk over the arena runs in a circle, and
\* every node but the last, the root, has exactly one parent.
IsTree(nodes, root) ==
  /\ root = Len(nodes)
  /\ \A i \in DOMAIN nodes :
       /\ \A c \in ToSet(Children(nodes[i])) : c \in 1 .. i - 1
       /\ Cardinality(Parents(nodes, i)) = (IF i = root THEN 0 ELSE 1)
================================================================================
