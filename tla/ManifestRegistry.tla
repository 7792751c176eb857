-------------------------- MODULE ManifestRegistry --------------------------
(***************************************************************************)
(* The registry of installed manifests (verifier/manifest_registry.c): an  *)
(* ordered list in memory and an append-only log, one JSON record a line,  *)
(* which is replayed when a registry is opened.  The log is a sequence of  *)
(* the pieces that reached the file: a piece is a whole record or a torn   *)
(* one, with or without its newline.                                       *)
(***************************************************************************)
EXTENDS Integers, FiniteSets, SequencesExt

CONSTANTS Extensions,
          Record,            \* records to install
          MaxLog             \* bound: pieces in the log

(* Optional fields of a record are absent, the empty string, or given.      *)
ASSUME RegistryConstants ==
  /\ Record \subseteq [id : Extensions, version : Int, publish_ref : {"absent", "empty", "given"}]
  /\ MaxLog \in Nat

VARIABLES entries,           \* the list in memory
          log,               \* LOG_FILE
          torn               \* history: writes that failed half way since the registry was opened
registryVars == <<entries, log, torn>>

find_idx(list, id) == SelectInSeq(list, LAMBDA r : r.id = id)
store_delete_idx(list, i) == RemoveAt(list, i)

-----------------------------------------------------------------------------
(* Replay.  An empty optional field comes back absent; the first install of *)
(* an extension wins, and an uninstall of what is not there is nothing.     *)
replayed(rec) == IF rec.publish_ref = "empty" THEN [rec EXCEPT !.publish_ref = "absent"] ELSE rec
apply_log_line(list, piece) ==
  LET i == find_idx(list, piece.rec.id) IN
  IF piece.op = "install" THEN (IF i = 0 THEN Append(list, replayed(piece.rec)) ELSE list)
  ELSE IF i = 0 THEN list ELSE store_delete_idx(list, i)

(* A line is what lies between newlines.  The parser takes the record at    *)
(* its head and ignores what follows, so a line counts for its first piece, *)
(* if that is whole.  (Mutant: replay stops at the first malformed line.)   *)
replay_until_bad(pieces) ==
  FoldLeft(LAMBDA s, p :
             [list |-> IF s.head /\ p.whole /\ ~ s.bad THEN apply_log_line(s.list, p) ELSE s.list,
              head |-> p.newline, bad |-> s.bad \/ (s.head /\ ~ p.whole)],
           [list |-> <<>>, head |-> TRUE, bad |-> FALSE], pieces).list
replay_piece(s, p) ==
  [list |-> IF s.head /\ p.whole THEN apply_log_line(s.list, p) ELSE s.list, head |-> p.newline]
replay(pieces) == FoldLeft(replay_piece, [list |-> <<>>, head |-> TRUE], pieces).list

-----------------------------------------------------------------------------
(* persist_line: what a call leaves in the file.  The loop finishes short   *)
(* writes, so a line is torn only by an error or by a crash.                *)
Piece(op, rec, whole, newline) == [op |-> op, rec |-> rec, whole |-> whole, newline |-> newline]
Written(op, rec) == <<Piece(op, rec, TRUE, TRUE)>>
Torn(op, rec) == {<<Piece(op, rec, FALSE, FALSE)>>, <<Piece(op, rec, TRUE, FALSE)>>}

(* Both operations check memory, persist, and change memory only then.      *)
Persisted(op, rec, list) ==
  /\ log' = log \o Written(op, rec) /\ entries' = list /\ UNCHANGED torn
(* The file system refuses to begin with, or fails half way; or fsync,      *)
(* close or the copy into memory fails after the line was written.          *)
PersistFails(op, rec) ==
  /\ UNCHANGED entries
  /\ \/ UNCHANGED <<log, torn>>
     \/ \E piece \in Torn(op, rec) \cup {Written(op, rec)} : log' = log \o piece /\ torn' = torn + 1
(* The process ends in the write, and the registry is opened again.         *)
TornTail(pieces) == pieces # <<>> /\ ~ Last(pieces).newline
Opened(pieces) ==
  entries' = replay(pieces) /\ log' = pieces /\ torn' = IF TornTail(pieces) THEN 1 ELSE 0
Crash(op, rec) == \E piece \in Torn(op, rec) \cup {Written(op, rec)} : Opened(log \o piece)

Install == Len(log) < MaxLog /\ \E rec \in Record :
  /\ find_idx(entries, rec.id) = 0
  /\ \/ Persisted("install", rec, Append(entries, rec))
     \/ PersistFails("install", rec)
     \/ Crash("install", rec)
Uninstall == Len(log) < MaxLog /\ \E id \in Extensions :
  LET i == find_idx(entries, id) IN
  /\ i # 0
  /\ \/ Persisted("uninstall", entries[i], store_delete_idx(entries, i))
     \/ PersistFails("uninstall", entries[i])
     \/ Crash("uninstall", entries[i])
Reopen == Opened(log)

RegistryInit == entries = <<>> /\ log = <<>> /\ torn = 0
RegistryNext == Install \/ Uninstall \/ Reopen

-----------------------------------------------------------------------------
(* What a restart brings back (new registry on the old log): the same list  *)
(* in the same order, if every write went through; otherwise a failed write *)
(* costs the answers about two extensions at most, its own and that of the  *)
(* next record, which may share its line.  An extension is never listed     *)
(* twice.                                                                   *)
Answer(list, id) == {replayed(list[i]) : i \in {j \in 1..Len(list) : list[j].id = id}}
Changed == {id \in Extensions : Answer(replay(log), id) # Answer(entries, id)}
RestartIsFaithful ==
  /\ torn = 0 => replay(log) = [i \in 1..Len(entries) |-> replayed(entries[i])]
  /\ Cardinality(Changed) <= 2 * torn
  /\ \A i, j \in 1..Len(entries) : i # j => entries[i].id # entries[j].id

(* manifest_registry.h: "a write failure can never leave a                  *)
(* failed-but-active install".  What the registry says is not installed is  *)
(* not active after a restart either.                                       *)
NeverFailedButActive ==
  \A id \in Extensions : Answer(entries, id) = {} => Answer(replay(log), id) = {}
=============================================================================
