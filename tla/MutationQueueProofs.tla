------------------------- MODULE MutationQueueProofs -------------------------
(***************************************************************************)
(* Proofs about MutationQueue, for any callers, files and paths whose keys   *)
(* are stable.                                                              *)
(***************************************************************************)
EXTENDS MutationQueue, TLAPS

USE QueueAssumption

(* What QueueTypeOK says of the variables that the locking depends on.      *)
LockTypes ==
  /\ exists \subseteq File
  /\ lock \in [Path -> Caller \cup {None}]
  /\ at \in [Caller -> PC]
  /\ path \in [Caller -> Path] /\ key \in [Caller -> Path]

(* A key chosen is the canonical path; who is inside holds its mutex.       *)
LockInv ==
  /\ LockTypes
  /\ Existing \ Removable \subseteq exists
  /\ \A c \in Caller :
       at[c] \in Inside \cup {"lock"} => key[c] = Canonical[FileOf(c)]
  /\ \A c \in Caller : at[c] \in Inside => lock[key[c]] = c

(* The text an edit has read is the text its file should show, and between  *)
(* truncating a file and writing it the file is empty.                      *)
TextInv ==
  /\ text \in [File -> Seq(Caller)] /\ shown \in [File -> Seq(Caller)]
  /\ got \in [Caller -> Seq(Caller)]
  /\ NoMutationLost
  /\ \A c \in Editors :
       at[c] \in {"apply", "truncate", "write"} => got[c] = shown[FileOf(c)]
  /\ \A c \in Caller : at[c] = "write" => text[FileOf(c)] = <<>>

-----------------------------------------------------------------------------
(* Two calls inside the same file would hold the same mutex.                *)
LEMMA LockExcludes ==
  ASSUME LockInv
  PROVE  SameFileExcluded
<1>1. SUFFICES ASSUME NEW c \in Caller, NEW d \in Caller, c # d,
                      at[c] \in Inside, at[d] \in Inside, FileOf(c) = FileOf(d)
               PROVE  FALSE
  BY DEF SameFileExcluded
<1>2. key[c] = key[d]
  BY <1>1 DEF LockInv
<1>3. lock[key[c]] = c /\ lock[key[d]] = d
  BY <1>1 DEF LockInv
<1>4. QED
  BY <1>1, <1>2, <1>3

LEMMA LockInit ==
  ASSUME QueueInit
  PROVE  LockInv
BY DEF QueueInit, LockInv, LockTypes, PC, Inside

(* A call takes the canonical path as its key, because its path is that     *)
(* path or leads to a file that exists.                                     *)
LEMMA KeyIsCanonical ==
  ASSUME KeysAreStable, LockInv, NEW c \in Caller, MutationQueueKey(c)
  PROVE  LockInv'
<1>1. path \in [Caller -> Path] /\ path' = path /\ exists' = exists /\ lock' = lock
  BY DEF LockInv, LockTypes, MutationQueueKey, contentVars
<1>2. CASE Go(c, "key", "done") /\ UNCHANGED key
  BY <1>1, <1>2 DEF LockInv, LockTypes, Go, PC, Inside, FileOf
<1>3. CASE /\ Go(c, "key", "lock")
           /\ key' = [key EXCEPT ![c] =
                IF FileOf(c) \in exists THEN Canonical[FileOf(c)] ELSE path[c]]
  <2>1. path[c] \in Path /\ FileOf(c) \in File
    BY <1>1 DEF FileOf
  <2>2. (IF FileOf(c) \in exists THEN Canonical[FileOf(c)] ELSE path[c])
          = Canonical[FileOf(c)]
    BY <2>1 DEF KeysAreStable, LockInv, FileOf
  <2>3. key' = [key EXCEPT ![c] = Canonical[FileOf(c)]]
    BY <1>3, <2>2
  <2>4. QED
    BY <1>1, <1>3, <2>1, <2>3 DEF LockInv, LockTypes, Go, PC, Inside, FileOf
<1>4. QED
  BY <1>2, <1>3 DEF MutationQueueKey

(* The steps of a call after its key is chosen.                             *)
LEMMA LockSteps ==
  ASSUME LockInv, NEW c \in Caller,
         \/ Call(c) \/ Lock(c) \/ ReadFile(c) \/ Apply(c) \/ GiveUp(c)
         \/ Truncate(c) \/ Write(c) \/ WriteFails(c) \/ Unlock(c)
  PROVE  LockInv'
<1>1. path' = path /\ key' = key /\ exists \subseteq exists' /\ exists' \subseteq File
  <2>1. FileOf(c) \in File
    BY DEF LockInv, LockTypes, FileOf
  <2>2. QED
    BY <2>1 DEF LockInv, LockTypes, Call, Lock, ReadFile, Apply, GiveUp,
                Truncate, Write, WriteFails, Unlock, contentVars, requestVars
<1>2. CASE Lock(c)
  BY <1>1, <1>2 DEF LockInv, LockTypes, Lock, Go, PC, Inside, FileOf
<1>3. CASE Unlock(c)
  <2>1. at[c] \in Inside /\ lock[key[c]] = c
    BY <1>3 DEF LockInv, Unlock, Go, Inside
  <2>2. \A d \in Caller \ {c} : at[d] \in Inside => key[d] # key[c]
    BY <2>1 DEF LockInv
  <2>3. QED
    BY <1>1, <1>3, <2>2 DEF LockInv, LockTypes, Unlock, Go, PC, Inside, FileOf
<1>4. CASE Call(c) \/ ReadFile(c) \/ Apply(c) \/ GiveUp(c)
             \/ Truncate(c) \/ Write(c) \/ WriteFails(c)
  <2>1. lock' = lock
    BY <1>4 DEF Call, ReadFile, Apply, GiveUp, Truncate, Write, WriteFails
  <2>2. \E to \in PC :
          /\ at' = [at EXCEPT ![c] = to]
          /\ to \in Inside \cup {"lock"} => at[c] \in Inside /\ to # "lock"
    BY <1>4 DEF Call, ReadFile, Apply, GiveUp, Truncate, Write, WriteFails,
                Go, PC, Inside
  <2>3. QED
    BY <1>1, <2>1, <2>2 DEF LockInv, LockTypes, Inside, FileOf
<1>5. QED
  BY <1>2, <1>3, <1>4

LEMMA LockStep ==
  ASSUME KeysAreStable, LockInv, [QueueNext]_queueVars
  PROVE  LockInv'
<1>1. CASE \E c \in Caller : Call(c) \/ CallStep(c)
  BY <1>1, KeyIsCanonical, LockSteps DEF CallStep
<1>2. CASE \E f \in File : RemoveFile(f)
  BY <1>2 DEF LockInv, LockTypes, RemoveFile, requestVars, FileOf
<1>3. CASE UNCHANGED queueVars
  BY <1>3 DEF LockInv, LockTypes, queueVars, contentVars, requestVars, FileOf
<1>4. QED
  BY <1>1, <1>2, <1>3 DEF QueueNext, Over

(* tools/mutation_queue.go:62-74: mutations of one file exclude each other  *)
(* when no path changes its key: the file has no symbolic link on its path  *)
(* or exists for good.                                                      *)
THEOREM MutualExclusion ==
  ASSUME KeysAreStable
  PROVE  QueueSpec => []SameFileExcluded
<1>1. QueueInit => LockInv
  BY LockInit
<1>2. LockInv /\ [QueueNext]_queueVars => LockInv'
  BY LockStep
<1>3. LockInv => SameFileExcluded
  BY LockExcludes
<1>4. QED
  BY <1>1, <1>2, <1>3, PTL DEF QueueSpec

-----------------------------------------------------------------------------
(* A step of a caller that neither reads nor writes its file.               *)
LEMMA TextUntouched ==
  ASSUME LockInv, TextInv, NEW c \in Caller, NEW to \in PC,
         UNCHANGED <<text, shown, got, path>>,
         at' = [at EXCEPT ![c] = to], at[c] # "write", to # "write",
         c \in Editors /\ to \in {"apply", "truncate"} => at[c] = "apply"
  PROVE  TextInv'
BY DEF LockInv, LockTypes, TextInv, NoMutationLost, FileOf

(* No other call is about to write the file of a call that is inside.       *)
LEMMA AloneInside ==
  ASSUME LockInv, NEW c \in Caller, at[c] \in Inside
  PROVE  \A d \in Caller \ {c} : at[d] \in Inside => FileOf(d) # FileOf(c)
BY LockExcludes DEF SameFileExcluded

LEMMA FilesAndTypes ==
  ASSUME LockInv, TextInv, NEW c \in Caller
  PROVE  /\ FileOf(c) \in File
         /\ text[FileOf(c)] \in Seq(Caller) /\ shown[FileOf(c)] \in Seq(Caller)
         /\ got[c] \in Seq(Caller)
         /\ Mutate(c, got[c]) \in Seq(Caller)
BY DEF LockInv, LockTypes, TextInv, FileOf, Mutate

(* What an edit reads is what the file should show.                         *)
LEMMA ReadIsCurrent ==
  ASSUME LockInv, TextInv, NEW c \in Caller, ReadFile(c)
  PROVE  TextInv'
<1>1. at[c] = "read" /\ c \in Caller
  BY DEF ReadFile, Go
<1>2. \A d \in Caller : at[d] = "write" => FileOf(d) # FileOf(c)
  BY <1>1, AloneInside DEF Inside
<1>3. text[FileOf(c)] = shown[FileOf(c)] /\ FileOf(c) \in File
  BY <1>2, FilesAndTypes DEF TextInv, NoMutationLost
<1>4. /\ UNCHANGED <<text, shown, path>>
      /\ at' = [at EXCEPT ![c] = "apply"]
      /\ got' = [got EXCEPT ![c] = shown[FileOf(c)]]
  BY <1>3 DEF ReadFile, Go, contentVars
<1>5. QED
  BY <1>1, <1>3, <1>4, FilesAndTypes
     DEF LockInv, LockTypes, TextInv, NoMutationLost, FileOf

LEMMA TruncatedIsEmpty ==
  ASSUME LockInv, TextInv, NEW c \in Caller, Truncate(c)
  PROVE  TextInv'
<1>1. at[c] = "truncate"
  BY DEF Truncate, Go
<1>2. /\ UNCHANGED <<shown, path, got>>
      /\ at' = [at EXCEPT ![c] = "write"]
      /\ text' = [text EXCEPT ![FileOf(c)] = <<>>]
  BY DEF Truncate, Go, requestVars
<1>3. \A d \in Caller \ {c} : at[d] = "write" => FileOf(d) # FileOf(c)
  BY <1>1, AloneInside DEF Inside
<1>4. FileOf(c) \in File /\ at \in [Caller -> PC] /\ text \in [File -> Seq(Caller)]
  BY FilesAndTypes DEF LockInv, LockTypes, TextInv
<1>5. \A d \in Caller : FileOf(d)' = FileOf(d)
  BY <1>2 DEF FileOf
<1>6. text' \in [File -> Seq(Caller)] /\ text'[FileOf(c)] = <<>>
  BY <1>2, <1>4
<1>7. NoMutationLost'
  <2>1. SUFFICES ASSUME NEW f \in File, \A d \in Caller : at'[d] = "write" => FileOf(d) # f
                 PROVE  text'[f] = shown[f]
    BY <1>2, <1>5 DEF NoMutationLost
  <2>2. f # FileOf(c) /\ \A d \in Caller : at[d] = "write" => FileOf(d) # f
    BY <1>1, <1>2, <1>4, <2>1
  <2>3. text[f] = shown[f]
    BY <2>2 DEF TextInv, NoMutationLost
  <2>4. QED
    BY <1>2, <1>4, <2>2, <2>3
<1>8. \A d \in Caller : at'[d] = "write" => text'[FileOf(d)] = <<>>
  BY <1>2, <1>3, <1>4, <1>6 DEF TextInv
<1>9. \A d \in Editors : at'[d] \in {"apply", "truncate", "write"} => got'[d] = shown'[FileOf(d)]
  BY <1>1, <1>2, <1>4 DEF TextInv
<1>10. QED
  BY <1>2, <1>5, <1>6, <1>7, <1>8, <1>9 DEF TextInv

(* A file is written with the mutation of the text it should show.          *)
LEMMA WrittenIsShown ==
  ASSUME LockInv, TextInv, NEW c \in Caller, Write(c) \/ WriteFails(c)
  PROVE  TextInv'
<1>1. at[c] = "write" /\ at' = [at EXCEPT ![c] = "unlock"] /\ UNCHANGED <<path, got>>
  BY DEF Write, WriteFails, Go, requestVars
<1>2. \A d \in Caller \ {c} : at[d] \in Inside => FileOf(d) # FileOf(c)
  BY <1>1, AloneInside DEF Inside
<1>3. \E t \in Seq(Caller) : /\ text' = [text EXCEPT ![FileOf(c)] = t]
                             /\ shown' = [shown EXCEPT ![FileOf(c)] = t]
  <2>1. CASE Write(c)
    <3>1. Mutate(c, got[c]) = Mutate(c, shown[FileOf(c)])
      BY <1>1 DEF TextInv, Mutate
    <3>2. QED
      BY <2>1, <3>1, FilesAndTypes DEF Write, TextInv
  <2>2. CASE WriteFails(c)
    <3>1. text[FileOf(c)] = <<>> /\ text \in [File -> Seq(Caller)]
      BY <1>1 DEF TextInv
    <3>2. QED
      BY <2>2, <3>1, FilesAndTypes DEF WriteFails
  <2>3. QED
    BY <2>1, <2>2
<1>4. PICK t \in Seq(Caller) : /\ text' = [text EXCEPT ![FileOf(c)] = t]
                                /\ shown' = [shown EXCEPT ![FileOf(c)] = t]
  BY <1>3
<1>5. \A d \in Caller : FileOf(d)' = FileOf(d) /\ FileOf(d) \in File
  BY <1>1, FilesAndTypes DEF FileOf
<1>6. /\ text \in [File -> Seq(Caller)] /\ shown \in [File -> Seq(Caller)]
      /\ got \in [Caller -> Seq(Caller)] /\ at \in [Caller -> PC]
      /\ Editors \subseteq Caller
  BY DEF LockInv, LockTypes, TextInv
<1>7. /\ text' \in [File -> Seq(Caller)] /\ shown' \in [File -> Seq(Caller)]
      /\ got' \in [Caller -> Seq(Caller)]
  BY <1>1, <1>4, <1>6
<1>8. NoMutationLost'
  <2>1. SUFFICES ASSUME NEW f \in File, f # FileOf(c),
                        \A d \in Caller : at'[d] = "write" => FileOf(d) # f
                 PROVE  text[f] = shown[f]
    BY <1>4, <1>5, <1>6 DEF NoMutationLost
  <2>2. \A d \in Caller : at[d] = "write" => FileOf(d) # f
    BY <1>1, <1>6, <2>1
  <2>3. QED
    BY <2>2 DEF TextInv, NoMutationLost
<1>9. \A d \in Editors :
        at'[d] \in {"apply", "truncate", "write"} => got'[d] = shown'[FileOf(d)]
  <2>1. SUFFICES ASSUME NEW d \in Editors, d # c,
                        at[d] \in {"apply", "truncate", "write"}
                 PROVE  got[d] = shown'[FileOf(d)]
    BY <1>1, <1>6
  <2>2. FileOf(d) # FileOf(c)
    BY <1>2, <1>6, <2>1 DEF Inside
  <2>3. QED
    BY <1>4, <1>5, <1>6, <2>1, <2>2 DEF TextInv
<1>10. \A d \in Caller : at'[d] = "write" => text'[FileOf(d)] = <<>>
  <2>1. SUFFICES ASSUME NEW d \in Caller, d # c, at[d] = "write"
                 PROVE  text'[FileOf(d)] = <<>>
    BY <1>1, <1>6
  <2>2. FileOf(d) # FileOf(c)
    BY <1>2, <2>1 DEF Inside
  <2>3. QED
    BY <1>4, <1>5, <1>6, <2>1, <2>2 DEF TextInv
<1>11. QED
  BY <1>5, <1>7, <1>8, <1>9, <1>10, <1>6 DEF TextInv

LEMMA TextStep ==
  ASSUME LockInv, TextInv, [QueueNext]_queueVars
  PROVE  TextInv'
<1>1. ASSUME NEW c \in Caller,
             \/ Call(c) \/ MutationQueueKey(c) \/ Lock(c) \/ Apply(c)
             \/ GiveUp(c) \/ Unlock(c)
      PROVE  TextInv'
  <2>1. \E to \in PC :
          /\ at' = [at EXCEPT ![c] = to]
          /\ at[c] # "write" /\ to # "write"
          /\ c \in Editors /\ to \in {"apply", "truncate"} => at[c] = "apply"
    BY <1>1 DEF Call, MutationQueueKey, Lock, Apply, GiveUp, Unlock, Go, PC
  <2>2. UNCHANGED <<text, shown, got, path>>
    BY <1>1 DEF Call, MutationQueueKey, Lock, Apply, GiveUp, Unlock,
                contentVars, requestVars
  <2>3. QED
    BY <2>1, <2>2, TextUntouched
<1>2. CASE \E c \in Caller : Call(c) \/ CallStep(c)
  BY <1>1, <1>2, ReadIsCurrent, TruncatedIsEmpty, WrittenIsShown DEF CallStep
<1>3. ASSUME NEW f \in File, RemoveFile(f)
      PROVE  TextInv'
  BY <1>3 DEF LockInv, LockTypes, TextInv, NoMutationLost, RemoveFile, requestVars,
              FileOf, Inside
<1>4. CASE UNCHANGED queueVars
  BY <1>4 DEF TextInv, NoMutationLost, queueVars, contentVars, requestVars, FileOf
<1>5. QED
  BY <1>2, <1>3, <1>4 DEF QueueNext, Over

(* tools/edit.go:126-188: no mutation that completed is lost, each edit     *)
(* having been applied to the text that the mutation before it left.        *)
THEOREM MutationsAreKept ==
  ASSUME KeysAreStable
  PROVE  QueueSpec => []NoMutationLost
<1>1. QueueInit => LockInv /\ TextInv
  BY LockInit DEF QueueInit, TextInv, NoMutationLost
<1>2. LockInv /\ TextInv /\ [QueueNext]_queueVars => LockInv' /\ TextInv'
  BY LockStep, TextStep
<1>3. TextInv => NoMutationLost
  BY DEF TextInv
<1>4. QED
  BY <1>1, <1>2, <1>3, PTL DEF QueueSpec

(* A file that is being written exists, so that one that does not is empty.  *)
TypeInv ==
  /\ QueueTypeOK
  /\ \A c \in Caller : at[c] = "write" => FileOf(c) \in exists

LEMMA TypeStep ==
  ASSUME TypeInv, NEW c \in Caller, Call(c) \/ CallStep(c)
  PROVE  TypeInv'
<1>1. FileOf(c) \in File /\ c \in Caller /\ text[FileOf(c)] \in Seq(Caller)
  BY DEF TypeInv, QueueTypeOK, FileOf
<1>2. CASE Call(c) \/ Apply(c) \/ GiveUp(c)
  <2>1. PICK to \in PC \ {"write"} : at' = [at EXCEPT ![c] = to]
    BY <1>2 DEF Call, Apply, GiveUp, Go, PC
  <2>2. UNCHANGED <<contentVars, lock, requestVars>>
    BY <1>2 DEF Call, Apply, GiveUp
  <2>3. QED
    BY <2>1, <2>2 DEF TypeInv, QueueTypeOK, FileOf, contentVars, requestVars
<1>3. CASE MutationQueueKey(c)
  <2>1. PICK to \in {"lock", "done"} : at' = [at EXCEPT ![c] = to]
    BY <1>3 DEF MutationQueueKey, Go
  <2>2. key' \in [Caller -> Path]
    <3>1. Canonical[FileOf(c)] \in Path /\ path[c] \in Path /\ key \in [Caller -> Path]
      BY <1>1 DEF TypeInv, QueueTypeOK
    <3>2. QED
      BY <1>3, <3>1 DEF MutationQueueKey
  <2>3. UNCHANGED <<contentVars, lock, path, got>>
    BY <1>3 DEF MutationQueueKey
  <2>4. QED
    BY <2>1, <2>2, <2>3 DEF TypeInv, QueueTypeOK, PC, FileOf, contentVars
<1>4. CASE Lock(c) \/ Unlock(c)
  <2>1. PICK to \in PC \ {"write"} : at' = [at EXCEPT ![c] = to]
    BY <1>4 DEF Lock, Unlock, Go, PC
  <2>2. lock' \in [Path -> Caller \cup {None}] /\ UNCHANGED <<contentVars, requestVars>>
    BY <1>4 DEF TypeInv, QueueTypeOK, Lock, Unlock
  <2>3. QED
    BY <2>1, <2>2 DEF TypeInv, QueueTypeOK, FileOf, contentVars, requestVars
<1>5. CASE ReadFile(c)
  BY <1>1, <1>5 DEF TypeInv, QueueTypeOK, ReadFile, Go, PC, FileOf, contentVars
<1>6. CASE Truncate(c)
  BY <1>1, <1>6 DEF TypeInv, QueueTypeOK, Truncate, Go, PC, FileOf, requestVars
<1>7. Mutate(c, got[c]) \in Seq(Caller) /\ Mutate(c, shown[FileOf(c)]) \in Seq(Caller)
  <2>1. got[c] \in Seq(Caller) /\ shown[FileOf(c)] \in Seq(Caller)
    BY <1>1 DEF TypeInv, QueueTypeOK
  <2>2. Append(got[c], c) \in Seq(Caller) /\ Append(shown[FileOf(c)], c) \in Seq(Caller)
    BY <2>1
  <2>3. QED
    BY <2>2 DEF Mutate
<1>8. CASE Write(c) \/ WriteFails(c)
  <2>1. /\ text' \in [File -> Seq(Caller)] /\ shown' \in [File -> Seq(Caller)]
        /\ \A f \in File : f # FileOf(c) => text'[f] = text[f]
    <3>1. text \in [File -> Seq(Caller)] /\ shown \in [File -> Seq(Caller)] /\ <<>> \in Seq(Caller)
      BY DEF TypeInv, QueueTypeOK
    <3>2. CASE Write(c)
      BY <1>1, <1>7, <3>1, <3>2 DEF Write
    <3>3. CASE WriteFails(c)
      BY <1>1, <3>1, <3>3 DEF WriteFails
    <3>4. QED
      BY <1>8, <3>2, <3>3
  <2>2. at[c] = "write" /\ at' = [at EXCEPT ![c] = "unlock"]
        /\ UNCHANGED <<exists, removals, lock, path, key, got>>
    BY <1>8 DEF Write, WriteFails, Go, requestVars
  <2>3. QED
    BY <2>1, <2>2 DEF TypeInv, QueueTypeOK, PC, FileOf
<1>9. QED
  BY <1>2, <1>3, <1>4, <1>5, <1>6, <1>8 DEF CallStep

(* The variables of tools/mutation_queue.go:62-74 keep their types, and a    *)
(* file that does not exist has no text.                                     *)
THEOREM QueueTypeCorrect == QueueSpec => []QueueTypeOK
<1>1. QueueInit => TypeInv
  BY DEF QueueInit, TypeInv, QueueTypeOK, PC
<1>2. TypeInv /\ [QueueNext]_queueVars => TypeInv'
  <2>1. SUFFICES ASSUME TypeInv, [QueueNext]_queueVars PROVE TypeInv'
    OBVIOUS
  <2>2. ASSUME NEW f \in File, RemoveFile(f) PROVE TypeInv'
    BY <2>1, <2>2 DEF TypeInv, QueueTypeOK, RemoveFile, FileOf, requestVars, Inside
  <2>3. CASE UNCHANGED queueVars
    BY <2>1, <2>3 DEF TypeInv, QueueTypeOK, queueVars, contentVars, requestVars, FileOf
  <2>4. QED
    BY <2>1, <2>2, <2>3, TypeStep DEF QueueNext, Over
<1>3. TypeInv => QueueTypeOK
  BY DEF TypeInv
<1>4. QED
  BY <1>1, <1>2, <1>3, PTL DEF QueueSpec
=============================================================================
