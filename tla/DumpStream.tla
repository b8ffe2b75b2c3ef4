------------------------------ MODULE DumpStream ------------------------------
(***************************************************************************)
(* Dumping to a Python stream: dump and dump_all (do_dump and do_dump_all, *)
(* src/lib.rs) convert one document after the other and have the emitter   *)
(* write it through PyStreamWriter (src/py/streaming.rs), which collects   *)
(* the emitter's fragments and hands them on in large writes.              *)
(*                                                                         *)
(* A document is the number of fragments the emitter writes for it; the    *)
(* fragments are named by document and position, position 0 is the `---'   *)
(* line.  The destination may refuse str, and may raise at any write.      *)
(***************************************************************************)
EXTENDS Integers, SequencesExt

CONSTANTS
  Apis,      \* "dump", "dump_all"
  MaxDocs,   \* bound on the documents the iterable holds
  MaxSize,   \* bound on the fragments of a document
  Capacity   \* fragments that fill the writer's buffer (16 KiB)

ASSUME DumpStreamConstants ==
  /\ Apis \subseteq {"dump", "dump_all"}
  /\ {MaxDocs, MaxSize} \subseteq Nat
  /\ Capacity \in Nat \ {0}

VARIABLES
  api,     \* dump or dump_all
  pulled,  \* the documents taken from the iterable, in order
  drained, \* the iterable is known to hold no more
  at,      \* how many documents have been converted and emission of them begun
  rest,    \* the fragments the emitter has still to write of document `at'
  writer,  \* PyStreamWriter: mode, error, buffer
  dest,    \* what the destination has received
  forms,   \* whether that was text, binary or both
  broken,  \* has a write raised?
  pc,      \* "pull" (and convert), "emit" (and finish), "returned"
  outcome  \* "none", "ok", "iterable" or "conversion" or "write" (what raised)

pulling == <<pulled, drained>>
receiving == <<dest, forms, broken>>
vars == <<api, pulling, at, rest, writer, receiving, pc, outcome>>

\* A document: its fragments, whether it asks for its own marker, and whether
\* extract_doc_and_meta can convert it.
Docs == [size : 0 .. MaxSize, explicit : BOOLEAN, convertible : BOOLEAN]

\* do_dump_all: `multiple', known once a second document has been pulled.
Multiple == Len(pulled) > 1

\* Fault for the checks: the first document is not told that others follow.
MarkedLate(i) == pulled[i].explicit \/ i > 1

Marked(i) == pulled[i].explicit \/ Multiple

\* What emit_docs_to writes for document i.
Fragments(i) ==
  (IF Marked(i) THEN <<<<i, 0>>>> ELSE <<>>) \o [j \in 1 .. pulled[i].size |-> <<i, j>>]

TextOf(n) == FlattenSeq([i \in 1 .. n |-> Fragments(i)])

Exit(how) ==
  /\ pc' = "returned"
  /\ outcome' = how

(***************************************************************************)
(* do_dump_all.                                                            *)
(***************************************************************************)
\* Before the first document is written a second one is asked for; afterwards each
\* is pulled when the one before it is written.  An iterable that has ended stays so.
EnoughPulled ==
  \/ drained
  \/ Len(pulled) > at /\ (at = 0 => Len(pulled) = 2)

Pull ==
  /\ pc = "pull" /\ ~EnoughPulled
  /\ \/ /\ Len(pulled) < MaxDocs
        /\ \E d \in Docs : pulled' = Append(pulled, d)
        /\ UNCHANGED <<drained, pc, outcome>>
     \/ drained' = TRUE /\ UNCHANGED <<pulled, pc, outcome>>
     \/ Exit("iterable") /\ UNCHANGED pulling
  /\ UNCHANGED <<api, at, rest, writer, receiving>>

Convert ==
  /\ pc = "pull" /\ EnoughPulled /\ Len(pulled) > at
  /\ IF pulled[at + 1].convertible
     THEN /\ at' = at + 1
          /\ rest' = Fragments(at + 1)
          /\ pc' = "emit"
          /\ UNCHANGED outcome
     ELSE Exit("conversion") /\ UNCHANGED <<at, rest>>
  /\ UNCHANGED <<api, pulling, writer, receiving>>

AllWritten ==
  /\ pc = "pull" /\ EnoughPulled /\ Len(pulled) = at
  /\ Exit("ok")
  /\ UNCHANGED <<api, pulling, at, rest, writer, receiving>>

(***************************************************************************)
(* PyStreamWriter.                                                         *)
(***************************************************************************)
\* Fault for the checks: the form that succeeded is not kept.
TryWriteUnlatched(pending, stored) ==
  \/ \E mode \in {"text", "binary"} :
       /\ dest' = dest \o pending
       /\ forms' = forms \cup {mode}
       /\ writer' = [writer EXCEPT !.error = FALSE, !.buffer = <<>>]
       /\ UNCHANGED broken
  \/ /\ \E n \in 0 .. Len(pending) : dest' = dest \o SubSeq(pending, 1, n)
     /\ broken' = TRUE
     /\ writer' = [writer EXCEPT !.error = stored, !.buffer = <<>>]
     /\ UNCHANGED forms

\* try_write: the first write tries str, and bytes on a TypeError; what succeeds is kept
\* for later writes.  A write that raises may have taken a beginning of its argument.
TryWrite(pending, stored) ==
  \/ \E mode \in IF writer.mode = "none" THEN {"text", "binary"} ELSE {writer.mode} :
       /\ dest' = dest \o pending
       /\ forms' = forms \cup {mode}
       /\ writer' = [mode |-> mode, error |-> FALSE, buffer |-> <<>>]
       /\ UNCHANGED broken
  \/ /\ \E n \in 0 .. Len(pending) : dest' = dest \o SubSeq(pending, 1, n)
     /\ broken' = TRUE
     /\ writer' = [writer EXCEPT !.error = stored, !.buffer = <<>>]
     /\ UNCHANGED forms

\* Fault for the checks: the buffer is written when it is over-full.
WriteStrOverfull ==
  /\ pc = "emit" /\ rest # <<>>
  /\ LET filled == Append(writer.buffer, Head(rest))
     IN  IF writer.error
         THEN rest' = <<>> /\ UNCHANGED <<writer, receiving>>
         ELSE /\ rest' = Tail(rest)
              /\ IF Len(filled) <= Capacity
                 THEN writer' = [writer EXCEPT !.buffer = filled] /\ UNCHANGED receiving
                 ELSE TryWrite(filled, TRUE)
  /\ UNCHANGED <<api, pulling, at, pc, outcome>>

\* Fault for the checks: a full buffer is written without the fragment that filled it.
WriteStrDropping ==
  /\ pc = "emit" /\ rest # <<>>
  /\ LET filled == Append(writer.buffer, Head(rest))
     IN  IF writer.error
         THEN rest' = <<>> /\ UNCHANGED <<writer, receiving>>
         ELSE /\ rest' = Tail(rest)
              /\ IF Len(filled) < Capacity
                 THEN writer' = [writer EXCEPT !.buffer = filled] /\ UNCHANGED receiving
                 ELSE TryWrite(writer.buffer, TRUE)
  /\ UNCHANGED <<api, pulling, at, pc, outcome>>

\* write_str for the next fragment.  After an error it refuses, and the emitter gives up.
WriteStr ==
  /\ pc = "emit" /\ rest # <<>>
  /\ LET filled == Append(writer.buffer, Head(rest))
     IN  IF writer.error
         THEN rest' = <<>> /\ UNCHANGED <<writer, receiving>>
         ELSE /\ rest' = Tail(rest)
              /\ IF Len(filled) < Capacity
                 THEN writer' = [writer EXCEPT !.buffer = filled] /\ UNCHANGED receiving
                 ELSE TryWrite(filled, TRUE)
  /\ UNCHANGED <<api, pulling, at, pc, outcome>>

\* Fault for the checks: what is left in the buffer waits for the last document.
FinishLazily ==
  /\ pc = "emit" /\ rest = <<>>
  /\ IF writer.error
     THEN /\ writer' = [writer EXCEPT !.error = FALSE]
          /\ Exit("write") /\ UNCHANGED receiving
     ELSE IF writer.buffer = <<>> \/ ~drained
     THEN pc' = "pull" /\ UNCHANGED <<writer, receiving, outcome>>
     ELSE /\ TryWrite(writer.buffer, FALSE)
          /\ IF broken' THEN Exit("write") ELSE pc' = "pull" /\ UNCHANGED outcome
  /\ UNCHANGED <<api, pulling, at, rest>>

\* finish: the stored error, or the flush of what is left.
Finish ==
  /\ pc = "emit" /\ rest = <<>>
  /\ IF writer.error
     THEN /\ writer' = [writer EXCEPT !.error = FALSE]
          /\ Exit("write") /\ UNCHANGED receiving
     ELSE IF writer.buffer = <<>>
     THEN pc' = "pull" /\ UNCHANGED <<writer, receiving, outcome>>
     ELSE /\ TryWrite(writer.buffer, FALSE)
          /\ IF broken' THEN Exit("write") ELSE pc' = "pull" /\ UNCHANGED outcome
  /\ UNCHANGED <<api, pulling, at, rest>>

(***************************************************************************)
(* The specification.                                                      *)
(***************************************************************************)
\* dump has its one document at once; dump_all starts with an iterable.
Init ==
  /\ api \in Apis
  /\ \/ api = "dump" /\ drained = TRUE /\ \E d \in Docs : pulled = <<d>>
     \/ api = "dump_all" /\ drained = FALSE /\ pulled = <<>>
  /\ at = 0 /\ rest = <<>>
  /\ writer = [mode |-> "none", error |-> FALSE, buffer |-> <<>>]
  /\ dest = <<>> /\ forms = {} /\ broken = FALSE
  /\ pc = "pull" /\ outcome = "none"

Next == Pull \/ Convert \/ AllWritten \/ WriteStr \/ Finish

Spec == Init /\ [][Next]_vars

(***************************************************************************)
(* Properties.                                                             *)
(***************************************************************************)
\* Every variable has its type.
TypeOK ==
  /\ api \in Apis
  /\ pulled \in Seq(Docs) /\ drained \in BOOLEAN
  /\ at \in 0 .. Len(pulled)
  /\ rest \in Seq(Nat \X Nat) /\ dest \in Seq(Nat \X Nat)
  /\ writer.mode \in {"none", "text", "binary"} /\ writer.error \in BOOLEAN
  /\ writer.buffer \in Seq(Nat \X Nat) /\ Len(writer.buffer) < Capacity
  /\ forms \subseteq {"text", "binary"} /\ broken \in BOOLEAN
  /\ pc \in {"pull", "emit", "returned"}
  /\ outcome \in {"none", "ok", "iterable", "conversion", "write"}

\* Until a write raises, every fragment of the documents begun so far is in exactly one
\* place, in the order of the text: received, in the writer's buffer, or still to be
\* emitted.  Afterwards the destination holds a beginning of that text.  It was given all
\* of it as str or all of it as bytes, whichever it takes.
NoFragmentLost ==
  /\ forms # {"text", "binary"}
  /\ ~broken => dest \o writer.buffer \o rest = TextOf(at)
  /\ IsPrefix(dest, TextOf(at))

\* dump_all that fails leaves the output of the earlier documents in the destination,
\* all of it, and nothing of a document that could not be converted (docs/api.md).
EarlierDocumentsRemain ==
  /\ outcome \in {"conversion", "iterable"} => dest = TextOf(at)
  /\ outcome = "write" => at > 0 /\ IsPrefix(TextOf(at - 1), dest)

\* A dump that reports success has written all documents, with markers when there are
\* several, has nothing left in the writer's buffer and has met no write that raised.
SuccessIsComplete ==
  outcome = "ok" =>
    /\ dest = TextOf(Len(pulled)) /\ writer.buffer = <<>> /\ ~broken
    /\ Len(pulled) > 1 => \A i \in 1 .. Len(pulled) : Contains(dest, <<i, 0>>)
===============================================================================
