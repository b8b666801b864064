----------------------------- MODULE ObjectStorage -----------------------------
(***************************************************************************)
(* The files staff keep in the object store (r2-storage.service.ts behind  *)
(* storage-admin.controller.ts): uploads, new folders, and the renaming    *)
(* and deletion of files and of whole folders, which the store knows only  *)
(* as common prefixes of keys.  Every step is one request to the store;    *)
(* nothing makes two of them atomic.                                       *)
(*                                                                         *)
(* A key is the sequence of its segments, which are numbers in the order   *)
(* of their names; a folder's own empty object ends with Slash.            *)
(***************************************************************************)
EXTENDS Integers, FiniteSets, SequencesExt

CONSTANTS
  StorageSlots,   \* requests handled at one time
  FolderPaths,    \* folders that requests name
  FilePaths,      \* files that requests name
  StartBuckets,   \* what the bucket may hold at first: [keys -> contents]
  PageSize,       \* keys of one answer to ListObjectsV2
  FolderMost,     \* R2_FOLDER_SYNC_MAX_OBJECTS
  KeyLength,      \* segments of the longest key the store accepts
  MaxStorageOps   \* bound: requests

ASSUME StorageAssumption ==
  {PageSize, FolderMost, KeyLength} \subseteq Nat \ {0} /\ MaxStorageOps \in Nat

VARIABLES
  bucket,   \* [the keys stored -> their contents]
  task,     \* [StorageSlots -> the request]
  started,  \* requests so far, the bound
  newest,   \* contents are numbered; the last one given
  excused   \* history: contents that were overwritten or deleted, or written
            \* to where a rename in progress takes its files from

storageVars == <<bucket, task, started, newest, excused>>

Slash == 0
Directory == 0   \* the content of a folder's own object
NoTask == [op |-> "none", pc |-> "idle"]

\* What a bucket holds at first is numbered, too.
ASSUME StartAssumption ==
  \A start \in StartBuckets :
    LET files == {k \in DOMAIN start : start[k] # Directory} IN
    IsFiniteSet(files) /\ {start[k] : k \in files} = 1 .. Cardinality(files)

Stored == DOMAIN bucket
Under(path, key) == IsStrictPrefix(path, key)
Within(path, folder, key) == IF folder THEN Under(path, key) ELSE key = path

\* The order of keys in the store's answers.
Precedes(k, l) ==
  \E i \in DOMAIN l :
    /\ i > Len(k) \/ k[i] < l[i]
    /\ \A j \in 1 .. (i - 1) : j <= Len(k) /\ k[j] = l[j]

\* ListObjectsV2: the next keys under a prefix, after the last one answered.
Rest(path, after) ==
  {k \in Stored : Under(path, k) /\ (after = <<>> \/ Precedes(after, k))}
IsTruncated(path, after) == Cardinality(Rest(path, after)) > PageSize
Listed(path, after) ==
  LET rest == Rest(path, after) IN
  {k \in rest : Cardinality({l \in rest : Precedes(l, k)}) < PageSize}

IsFirst(key, keys) == key \in keys /\ \A l \in keys \ {key} : Precedes(key, l)
LastOf(keys) == CHOOSE k \in keys : \A l \in keys \ {k} : Precedes(l, k)

StorageInit ==
  /\ bucket \in StartBuckets
  /\ task = [s \in StorageSlots |-> NoTask]
  /\ started = 0
  /\ newest = Cardinality({k \in Stored : bucket[k] # Directory})
  /\ excused = {}

-----------------------------------------------------------------------------
(* The store's requests.                                                   *)

\* Whether another rename takes its files from where the key is.
TakenFrom(s, key) ==
  \E t \in StorageSlots \ {s} :
    /\ task[t].op = "rename"
    /\ Within(task[t].from, task[t].folder, key)

\* A write leaves a content behind that was at the key before.
Write(s, key, content) ==
  /\ bucket' = [k \in Stored \cup {key} |-> IF k = key THEN content ELSE bucket[k]]
  /\ excused' = excused
       \cup {bucket[k] : k \in {l \in Stored : l = key /\ bucket[l] # content}}
       \cup (IF TakenFrom(s, key) THEN {content} ELSE {})

Erase(keys) == bucket' = [k \in Stored \ keys |-> bucket[k]]

Become(s, pc) == task' = [task EXCEPT ![s].pc = pc]

Start(s, request) ==
  /\ task[s] = NoTask /\ started < MaxStorageOps
  /\ task' = [task EXCEPT ![s] = request]
  /\ started' = started + 1
  /\ UNCHANGED <<bucket, newest, excused>>

-----------------------------------------------------------------------------
(* createFolder and uploadFile.                                            *)

StartPut(s, key) == Start(s, [op |-> "put", pc |-> "put", key |-> key])

Put(s) ==
  LET key == task[s].key
      folder == key[Len(key)] = Slash
  IN  /\ task[s].pc = "put"
      /\ newest' = IF folder THEN newest ELSE newest + 1
      /\ Write(s, key, IF folder THEN Directory ELSE newest')
      /\ Become(s, "done")
      /\ UNCHANGED started

-----------------------------------------------------------------------------
(* rename and delete.                                                      *)

\* A file is a page of one key and needs no listing.
StartRename(s, from, to, folder) ==
  Start(s, [op |-> "rename", pc |-> IF folder THEN "count" ELSE "copy",
            from |-> from, to |-> to, folder |-> folder, count |-> 0,
            after |-> <<>>, batch |-> IF folder THEN {} ELSE {from}, more |-> FALSE,
            copied |-> {},
            found |-> [k \in {l \in Stored : Within(from, folder, l)} |-> bucket[k]]])

StartDelete(s, path, folder) ==
  Start(s, [op |-> "delete", pc |-> IF folder THEN "count" ELSE "erase",
            from |-> path, folder |-> folder, count |-> 0,
            after |-> <<>>, batch |-> IF folder THEN {} ELSE {path},
            more |-> FALSE])

\* countObjectsUnderPrefix, page by page; a folder that is too large is refused.
Count(s) ==
  LET t == task[s]
      page == Listed(t.from, t.after)
      total == t.count + Cardinality(page)
  IN  /\ t.pc = "count"
      /\ task' = [task EXCEPT ![s] =
           IF total > FolderMost THEN NoTask
           ELSE IF IsTruncated(t.from, t.after)
                THEN [t EXCEPT !.count = total, !.after = LastOf(page)]
                ELSE [t EXCEPT !.pc = "list", !.count = total, !.after = <<>>]]
      /\ UNCHANGED <<bucket, started, newest, excused>>

\* Mutant of AfterPage: the token names the first key that was not answered,
\* and the store goes on behind it.
AfterPageOffByOne(path, after, page) ==
  IF IsTruncated(path, after)
  THEN CHOOSE k \in Stored : IsFirst(k, Rest(path, after) \ page)
  ELSE LastOf(page)

\* NextContinuationToken.
AfterPage(path, after, page) == LastOf(page)

List(s) ==
  LET t == task[s]
      page == Listed(t.from, t.after)
  IN  /\ t.pc = "list"
      /\ task' = [task EXCEPT ![s] =
           IF page = {} THEN [t EXCEPT !.pc = "done", !.more = FALSE]
           ELSE [t EXCEPT !.pc = IF t.op = "rename" THEN "copy" ELSE "erase",
                          !.batch = page, !.more = IsTruncated(t.from, t.after),
                          !.after = AfterPage(t.from, t.after, page)]]
      /\ UNCHANGED <<bucket, started, newest, excused>>

Destination(t, key) == t.to \o SubSeq(key, Len(t.from) + 1, Len(key))

\* Where the loop goes on when a key, or a page, has been dealt with.
Onward(t, left) ==
  [t EXCEPT !.batch = left,
            !.pc = IF left # {} THEN "copy" ELSE IF t.more THEN "list" ELSE "done"]

\* Mutant of Copy: the source is deleted although it could not be copied.
CopyUnchecked(s) ==
  LET t == task[s] IN
  /\ t.pc = "copy"
  /\ \E key \in t.batch :
       LET dest == Destination(t, key) IN
       /\ IsFirst(key, t.batch)
       /\ IF key \in Stored /\ dest # key /\ Len(dest) <= KeyLength
          THEN Write(s, dest, bucket[key])
          ELSE UNCHANGED <<bucket, excused>>
       /\ task' = [task EXCEPT ![s] = [t EXCEPT !.pc = "drop", !.copied = {key}]]
  /\ UNCHANGED <<started, newest>>

\* CopyObject: refused when the source has gone, when it is its own
\* destination or when the new key is too long; the request ends with an error.
Copy(s) ==
  LET t == task[s] IN
  /\ t.pc = "copy"
  /\ \E key \in t.batch :
       LET dest == Destination(t, key) IN
       /\ IsFirst(key, t.batch)
       /\ IF key \in Stored /\ dest # key /\ Len(dest) <= KeyLength
          THEN /\ Write(s, dest, bucket[key])
               /\ task' = [task EXCEPT ![s] = [t EXCEPT !.pc = "drop", !.copied = {key}]]
          ELSE /\ task' = [task EXCEPT ![s] = NoTask]
               /\ UNCHANGED <<bucket, excused>>
  /\ UNCHANGED <<started, newest>>

\* DeleteObject, of whatever is at the key by now.
Drop(s) ==
  LET t == task[s] IN
  /\ t.pc = "drop"
  /\ Erase(t.copied)
  /\ task' = [task EXCEPT ![s] = Onward([t EXCEPT !.copied = {}], t.batch \ t.copied)]
  /\ UNCHANGED <<started, newest, excused>>

\* DeleteObjects; keys the store could not delete are not looked at (Quiet).
EraseBatch(s) ==
  LET t == task[s]
  IN  /\ t.pc = "erase"
      /\ \E gone \in SUBSET t.batch :
           /\ t.folder \/ gone = t.batch
           /\ Erase(gone)
           /\ excused' = excused \cup {bucket[k] : k \in gone \cap Stored}
      /\ task' = [task EXCEPT ![s] = Onward(t, {})]
      /\ UNCHANGED <<started, newest>>

\* An error, a deadline or a crash ends a request between two steps.
Break(s) ==
  /\ task[s].pc \notin {"idle", "done"}
  /\ task' = [task EXCEPT ![s] = NoTask]
  /\ UNCHANGED <<bucket, started, newest, excused>>

Reply(s) ==
  /\ task[s].pc = "done"
  /\ task' = [task EXCEPT ![s] = NoTask]
  /\ UNCHANGED <<bucket, started, newest, excused>>

StorageStep(s) ==
  Put(s) \/ Count(s) \/ List(s) \/ Copy(s) \/ Drop(s) \/ EraseBatch(s) \/ Reply(s)

StorageStart(s) ==
  \/ \E file \in FilePaths :
       \/ StartPut(s, file)
       \/ StartDelete(s, file, FALSE)
       \/ \E to \in FilePaths : StartRename(s, file, to, FALSE)
  \/ \E path \in FolderPaths :
       \/ StartPut(s, Append(path, Slash))
       \/ StartDelete(s, path, TRUE)
       \/ \E to \in FolderPaths : StartRename(s, path, to, TRUE)

StorageNext == \E s \in StorageSlots : StorageStep(s) \/ Break(s) \/ StorageStart(s)

StorageSpec == StorageInit /\ [][StorageNext]_storageVars

-----------------------------------------------------------------------------
\* Renaming loses nothing: a file's content that is stored nowhere any more
\* was overwritten or deleted under some key, or it was written to where a
\* rename in progress was taking its files from, whichever requests ran at the
\* same time and wherever one of them broke off.
NothingVanishes ==
  \A c \in 1 .. newest \ excused : \E k \in Stored : bucket[k] = c

\* A rename that reports success has moved every file that was there when it
\* began and that nobody touched, on whichever page it was listed.  Stated for
\* folders of which neither is inside the other.
RenamedIsMoved ==
  [][\A s \in StorageSlots :
       LET t == task[s] IN
       /\ t.op = "rename" /\ t.pc # "done" /\ task'[s].pc = "done"
       /\ ~Under(t.from, t.to) /\ ~Under(t.to, t.from)
       => \A k \in DOMAIN t.found :
            \/ k \notin DOMAIN bucket' \/ bucket'[k] # t.found[k]
            \/ t.found[k] \in excused' \cup {Directory}]_storageVars
=============================================================================
