---------------------------- MODULE MutationQueue ----------------------------
(***************************************************************************)
(* The write and edit tools over one ExecutionEnv (tools/mutation_queue.go,  *)
(* write.go, edit.go): every call resolves its path to a key, waits for the  *)
(* mutex of that key, and reads and writes the file while it holds it.       *)
(* Symbolic links are the paths that are not the canonical path of their     *)
(* file.  The text of a file is the sequence of the mutations it shows.      *)
(***************************************************************************)
EXTENDS Integers, Sequences

CONSTANTS
  Caller,        \* calls of the two tools
  Editors,       \* those that are calls of edit; the others write
  Path, File,
  Target,        \* the file a path leads to
  Canonical,     \* the path of a file that no symbolic link is part of
  Existing,      \* the files that exist at first
  Removable,     \* the files that other programs remove
  MaxRemovals,   \* bound: how often they do
  None           \* no caller

ASSUME QueueAssumption ==
  /\ Editors \subseteq Caller /\ None \notin Caller
  /\ Target \in [Path -> File] /\ Canonical \in [File -> Path]
  /\ \A f \in File : Target[Canonical[f]] = f
  /\ Existing \subseteq File /\ Removable \subseteq File
  /\ MaxRemovals \in Nat

VARIABLES
  exists,    \* files that exist
  text,      \* their content
  lock,      \* mutationLocks: who holds the mutex of each key
  at, path, key,
  got,       \* what an edit has read
  removals,  \* files removed so far
  shown      \* history: what the text would be, mutations being atomic

contentVars == <<exists, text, removals, shown>>
requestVars == <<path, key, got>>
queueVars == <<contentVars, lock, at, requestVars>>

PC == {"idle", "key", "lock", "read", "apply", "truncate", "write", "unlock", "done"}
Inside == {"read", "apply", "truncate", "write", "unlock"}
FileOf(c) == Target[path[c]]

-----------------------------------------------------------------------------
QueueInit ==
  /\ exists = Existing
  /\ text = [f \in File |-> <<>>] /\ shown = text
  /\ lock = [p \in Path |-> None]
  /\ at = [c \in Caller |-> "idle"]
  /\ path \in [Caller -> Path] /\ key = path
  /\ got = [c \in Caller |-> <<>>]
  /\ removals = 0

Go(c, from, to) == at[c] = from /\ at' = [at EXCEPT ![c] = to]

Call(c) ==
  /\ Go(c, "idle", "key")
  /\ UNCHANGED <<contentVars, lock, requestVars>>

(* Plausible bug: the key is the absolute path, whatever it leads to.       *)
BugKeyIsAbsolute(c) ==
  /\ Go(c, "key", "lock")
  /\ UNCHANGED <<contentVars, lock, requestVars>>

(* mutationQueueKey: a path that leads to no file is its own key; the       *)
(* context may be cancelled.                                                *)
MutationQueueKey(c) ==
  /\ \/ Go(c, "key", "done") /\ UNCHANGED key
     \/ /\ Go(c, "key", "lock")
        /\ key' = [key EXCEPT ![c] =
             IF FileOf(c) \in exists THEN Canonical[FileOf(c)] ELSE path[c]]
  /\ UNCHANGED <<contentVars, lock, path, got>>

Lock(c) ==
  /\ lock[key[c]] = None
  /\ Go(c, "lock", IF c \in Editors THEN "read" ELSE "truncate")
  /\ lock' = [lock EXCEPT ![key[c]] = c]
  /\ UNCHANGED <<contentVars, requestVars>>

(* FileInfo and ReadFile of runEdit.                                        *)
ReadFile(c) ==
  /\ FileOf(c) \in exists
  /\ Go(c, "read", "apply")
  /\ got' = [got EXCEPT ![c] = text[FileOf(c)]]
  /\ UNCHANGED <<contentVars, lock, path, key>>

(* Plausible bug: an edit that does not match is tried on a fresh reading.   *)
BugReadAgain(c) ==
  /\ Go(c, "apply", "read")
  /\ UNCHANGED <<contentVars, lock, requestVars>>

Apply(c) ==
  /\ Go(c, "apply", "truncate")
  /\ UNCHANGED <<contentVars, lock, requestVars>>

(* An early return: the context is cancelled, the file cannot be read or    *)
(* the edit does not match.                                                 *)
GiveUp(c) ==
  /\ at[c] \in {"read", "apply", "truncate"}
  /\ at' = [at EXCEPT ![c] = "unlock"]
  /\ UNCHANGED <<contentVars, lock, requestVars>>

(* os.WriteFile: the file is created or truncated, then written; a write    *)
(* that fails leaves it empty, or with a prefix that the model leaves out.  *)
Truncate(c) ==
  /\ Go(c, "truncate", "write")
  /\ exists' = exists \cup {FileOf(c)}
  /\ text' = [text EXCEPT ![FileOf(c)] = <<>>]
  /\ UNCHANGED <<removals, shown, lock, requestVars>>

Mutate(c, old) == IF c \in Editors THEN Append(old, c) ELSE <<c>>

Write(c) ==
  /\ Go(c, "write", "unlock")
  /\ text' = [text EXCEPT ![FileOf(c)] = Mutate(c, got[c])]
  /\ shown' = [shown EXCEPT ![FileOf(c)] = Mutate(c, @)]
  /\ UNCHANGED <<exists, removals, lock, requestVars>>

WriteFails(c) ==
  /\ Go(c, "write", "unlock")
  /\ shown' = [shown EXCEPT ![FileOf(c)] = <<>>]
  /\ UNCHANGED <<exists, text, removals, lock, requestVars>>

Unlock(c) ==
  /\ Go(c, "unlock", "done")
  /\ lock' = [lock EXCEPT ![key[c]] = None]
  /\ UNCHANGED <<contentVars, requestVars>>

(* A shell command, say, removes a file nobody is mutating.                 *)
RemoveFile(f) ==
  /\ removals < MaxRemovals
  /\ f \in exists \cap Removable
  /\ \A c \in Caller : FileOf(c) = f => at[c] \notin Inside
  /\ removals' = removals + 1
  /\ exists' = exists \ {f}
  /\ text' = [text EXCEPT ![f] = <<>>] /\ shown' = [shown EXCEPT ![f] = <<>>]
  /\ UNCHANGED <<lock, at, requestVars>>

CallStep(c) ==
  \/ MutationQueueKey(c) \/ Lock(c)
  \/ ReadFile(c) \/ Apply(c) \/ GiveUp(c)
  \/ Truncate(c) \/ Write(c) \/ WriteFails(c)
  \/ Unlock(c)

Over == (\A c \in Caller : at[c] = "done") /\ UNCHANGED queueVars

QueueNext ==
  \/ \E c \in Caller : Call(c) \/ CallStep(c)
  \/ \E f \in File : RemoveFile(f)
  \/ Over

QueueSpec == QueueInit /\ [][QueueNext]_queueVars

(* The goroutine of a call is scheduled and the file system answers.        *)
FairQueueSpec == QueueSpec /\ \A c \in Caller : WF_queueVars(CallStep(c))

-----------------------------------------------------------------------------
QueueTypeOK ==
  /\ exists \subseteq File /\ \A f \in File \ exists : text[f] = <<>>
  /\ text \in [File -> Seq(Caller)] /\ shown \in [File -> Seq(Caller)]
  /\ lock \in [Path -> Caller \cup {None}]
  /\ at \in [Caller -> PC]
  /\ path \in [Caller -> Path] /\ key \in [Caller -> Path]
  /\ got \in [Caller -> Seq(Caller)]
  /\ removals \in 0 .. MaxRemovals

(* mutation_queue.go:12-17: calls that mutate the same file are serialized, *)
(* so that a read-modify-write never races against another.                 *)
SameFileExcluded ==
  \A c, d \in Caller :
    (c # d /\ at[c] \in Inside /\ at[d] \in Inside) => FileOf(c) # FileOf(d)

(* runEdit and NewWriteTool (edit.go:126-188, write.go:62-85): between two  *)
(* mutations a file shows what the completed ones make of it one by one,    *)
(* each edit being applied to the text left by the mutation before it; a    *)
(* write that failed has left nothing.                                      *)
NoMutationLost ==
  \A f \in File :
    (\A c \in Caller : at[c] = "write" => FileOf(c) # f) => text[f] = shown[f]

(* withFileMutationQueue (mutation_queue.go:62-74): a call returns, the     *)
(* mutex being given back on every path.                                    *)
CallReturns == \A c \in Caller : at[c] = "lock" ~> at[c] = "done"

(* The paths whose key cannot change: those without symbolic link, and      *)
(* those of files that exist for good.                                      *)
KeysAreStable ==
  \A p \in Path :
    \/ p = Canonical[Target[p]]
    \/ Target[p] \in Existing \ Removable
=============================================================================
