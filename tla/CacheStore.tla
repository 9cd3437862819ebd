----------------------------- MODULE CacheStore ------------------------------
(***************************************************************************)
(* The cache directory that every cceroby process of one user shares:      *)
(* crates/cceroby/src/cache.rs, cache/cache_fs.rs and the reads and writes *)
(* of search.rs.                                                           *)
(*                                                                         *)
(* One step is one operation of the file system.  A mutex keeps the tasks  *)
(* of one process apart; nothing keeps processes apart.  The two levels    *)
(* below the root are one here: a directory holds entries by name, and a   *)
(* temporary file is named for the task that writes it.                    *)
(***************************************************************************)
EXTENDS RateLimiter, FiniteSets

CONSTANTS
  Key,      \* canonical requests, each the name of one entry
  Ttl,      \* METADATA_TTL and THUMBNAIL_TTL, in ticks
  MaxDir    \* directories that may be made at the root's name

ASSUME TtlAssumption == Ttl \in Nat \ {0}
ASSUME MaxDirAssumption == MaxDir \in Nat

VARIABLES
  place,    \* of each directory: "unmade", "root", "aside" or "removed"
  files,    \* of each directory: the files in it
  guarded,  \* the tasks inside CACHE_OPERATIONS
  dir,      \* the directory each task has open
  now,      \* the time each task took for its reads
  got,      \* when each task's answer came from the provider
  todo,     \* what a prune or a clear has yet to look at
  item,     \* the file it is about to remove
  answer,   \* the cached file each task answered with, if any
  report    \* how each clear ended

cacheVars ==
  <<place, files, guarded, dir, now, got, todo, item, answer, report>>

Dir == 1 .. MaxDir
Root == {d \in Dir : place[d] = "root"}

\* A file: its name, its writer, when it says and when it truly was fetched.
File(name, by, at, from, whole) ==
  [name |-> name, by |-> by, at |-> at, from |-> from, whole |-> whole]

Filled(f) == File(f.name, f.by, f.at, f.from, TRUE)
Renamed(f, name) == File(name, f.by, f.at, f.from, f.whole)

Named(d, name) == {f \in files[d] : f.name = name}

\* Faulty variant: the tasks of a process do not keep out of each other's way.
MayAlwaysEnter(t) == TRUE
\* cache_operation_guard
MayEnter(t) == Siblings(t) \cap guarded = {}
Entered(t) == guarded' = guarded \cup {t}
Left(t) == guarded' = guarded \ {t}

----------------------------------------------------------------------------

\* is_fresh and is_thumbnail_fresh: an entry of the future is not fresh.
IsFresh(f, time) == f.at <= time /\ time - f.at < Ttl

\* decode_entry and decode_thumbnail_entry refuse what is not whole.
IsGood(f, time) == f.whole /\ IsFresh(f, time)

\* classify_entry: what cannot be read counts as expired.
IsExpired(f, time) == ~IsGood(f, time)

\* read_metadata and read_thumbnail, to the directory.
OpenForRead(t) ==
  /\ At(t, "looking") /\ Does(t) \in {"search", "image"}
  /\ MayEnter(t)
  /\ \/ /\ Root = {} /\ GoTo(t, "asking")
        /\ UNCHANGED <<guarded, dir>>
     \/ \E d \in Root :
          /\ Entered(t) /\ dir' = [dir EXCEPT ![t] = d]
          /\ GoTo(t, "reading")
  /\ UNCHANGED <<place, files, now, got, todo, item, answer, report>>

ReadEntry(t) ==
  /\ At(t, "reading")
  /\ LET good == {f \in Named(dir[t], job[t].key) : IsGood(f, now[t])} IN
     \/ /\ good # {}
        /\ answer' = [answer EXCEPT ![t] = good]
        /\ Left(t) /\ GoTo(t, "done")
     \/ /\ good = {} /\ GoTo(t, "stale")
        /\ UNCHANGED <<answer, guarded>>
  /\ UNCHANGED <<place, files, dir, now, got, todo, item, report>>

\* What could not be used is removed by name, from whatever the root is now.
ReopenRoot(t) ==
  /\ At(t, "stale")
  /\ \/ /\ Root = {} /\ Left(t) /\ GoTo(t, "asking") /\ UNCHANGED dir
     \/ \E d \in Root : /\ dir' = [dir EXCEPT ![t] = d]
                        /\ GoTo(t, "dropping") /\ UNCHANGED guarded
  /\ UNCHANGED <<place, files, now, got, todo, item, answer, report>>

Unlinked(d, name) == [files EXCEPT ![d] = @ \ Named(d, name)]

DropEntry(t) ==
  /\ At(t, "dropping")
  /\ files' = Unlinked(dir[t], job[t].key)
  /\ Left(t) /\ GoTo(t, "asking")
  /\ UNCHANGED <<place, dir, now, got, todo, item, answer, report>>

----------------------------------------------------------------------------

\* execute, once the limiter let the task through; nobody is told why it fails.
Fetch(t) ==
  /\ At(t, "granted") /\ Does(t) \in {"search", "image"}
  /\ \/ GoTo(t, "fetched") /\ got' = [got EXCEPT ![t] = clock]
     \/ GoTo(t, "done") /\ UNCHANGED got
  /\ UNCHANGED <<place, files, guarded, dir, now, todo, item, answer, report>>

\* A search stamps what it fetched with the time it began, an image with the
\* time it came.
StampOf(t) == IF Does(t) = "search" THEN now[t] ELSE got[t]

\* open_or_create_root; what cannot be encoded or made is not cached, and the
\* request goes on without.
OpenForWrite(t) ==
  /\ At(t, "fetched") /\ MayEnter(t)
  /\ \/ GoTo(t, "done") /\ UNCHANGED <<place, guarded, dir>>
     \/ /\ Root # {}
        /\ \E d \in Root : dir' = [dir EXCEPT ![t] = d]
        /\ Entered(t) /\ GoTo(t, "creating") /\ UNCHANGED place
     \/ /\ Root = {}
        /\ \E d \in Dir :
             /\ place[d] = "unmade" /\ \A e \in 1 .. d - 1 : place[e] # "unmade"
             /\ place' = [place EXCEPT ![d] = "root"]
             /\ dir' = [dir EXCEPT ![t] = d]
        /\ Entered(t) /\ GoTo(t, "creating")
  /\ UNCHANGED <<files, now, got, todo, item, answer, report>>

\* Faulty variant: the entry is written where it is read.
TemporaryInPlace(t) == job[t].key
\* The name a write goes to before the entry is whole.
Temporary(t) == t

\* A directory that was removed meanwhile takes no new file.
CreateTemporary(t) ==
  /\ At(t, "creating")
  /\ \/ /\ place[dir[t]] = "removed" /\ Left(t) /\ GoTo(t, "done")
        /\ UNCHANGED files
     \/ /\ place[dir[t]] # "removed" /\ GoTo(t, "filling")
        /\ files' = [files EXCEPT ![dir[t]] = (@ \ Named(dir[t], Temporary(t)))
             \cup {File(Temporary(t), t, StampOf(t), got[t], FALSE)}]
        /\ UNCHANGED guarded
  /\ UNCHANGED <<place, dir, now, got, todo, item, answer, report>>

\* write_all and sync_all: a write that fails takes its temporary file away.
FillTemporary(t) ==
  /\ At(t, "filling")
  /\ \/ /\ files' = Unlinked(dir[t], Temporary(t))
        /\ Left(t) /\ GoTo(t, "done")
     \/ /\ files' = [files EXCEPT ![dir[t]] =
             {IF f.by = t THEN Filled(f) ELSE f : f \in @}]
        /\ GoTo(t, "placing") /\ UNCHANGED guarded
  /\ UNCHANGED <<place, dir, now, got, todo, item, answer, report>>

\* renameat, which fails when somebody took the temporary file away.
PutInPlace(t) ==
  /\ At(t, "placing")
  /\ LET key  == job[t].key
         mine == Named(dir[t], Temporary(t)) IN
     files' = IF mine = {} THEN files
              ELSE [files EXCEPT ![dir[t]] =
                      (@ \ (mine \cup Named(dir[t], key)))
                        \cup {Renamed(f, key) : f \in mine}]
  /\ Left(t) /\ GoTo(t, "done")
  /\ UNCHANGED <<place, dir, now, got, todo, item, answer, report>>

----------------------------------------------------------------------------

\* prune: nothing to do without a root, else every name listed is looked at.
OpenForPrune(t) ==
  /\ At(t, "looking") /\ Does(t) = "prune" /\ MayEnter(t)
  /\ \/ Root = {} /\ GoTo(t, "done") /\ UNCHANGED <<guarded, dir, todo>>
     \/ \E d \in Root :
          /\ dir' = [dir EXCEPT ![t] = d] /\ todo' = [todo EXCEPT ![t] = files[d]]
          /\ Entered(t) /\ GoTo(t, "pruning")
  /\ UNCHANGED <<place, files, now, got, item, answer, report>>

\* One name that prune_directory listed is read: a fresh entry stays, another
\* goes in the next step.
LookAtNext(t) ==
  /\ At(t, "pruning")
  /\ \E f \in todo[t] :
       LET there == Named(dir[t], f.name) IN
       /\ todo' = [todo EXCEPT ![t] = @ \ {f}]
       /\ \/ /\ \A g \in there : ~IsExpired(g, now[t])
             /\ UNCHANGED <<item, stage>>
          \/ /\ \E g \in there : IsExpired(g, now[t])
             /\ item' = [item EXCEPT ![t] = {f}]
             /\ GoTo(t, "unlinking")
  /\ UNCHANGED <<place, files, guarded, dir, now, got, answer, report>>

\* It goes by name: what another process put there meanwhile goes too.
UnlinkStale(t) ==
  /\ At(t, "unlinking") /\ Does(t) = "prune"
  /\ \E f \in item[t] : files' = Unlinked(dir[t], f.name)
  /\ item' = [item EXCEPT ![t] = {}]
  /\ GoTo(t, "pruning")
  /\ UNCHANGED <<place, guarded, dir, now, got, todo, answer, report>>

EndPrune(t) ==
  /\ At(t, "pruning") /\ todo[t] = {}
  /\ Left(t) /\ GoTo(t, "done")
  /\ UNCHANGED <<place, files, dir, now, got, todo, item, answer, report>>

----------------------------------------------------------------------------

\* How a clear that stops before its end reports it: snapshot_changed and the
\* errors of the file system.
Fails(t) ==
  /\ report' = [report EXCEPT ![t] = "failed"]
  /\ GoTo(t, "done")

\* clear: the root is looked at and opened, and is then moved aside by name.
LookAtRoot(t) ==
  /\ At(t, "looking") /\ Does(t) = "clear" /\ MayEnter(t)
  /\ \/ /\ Root = {} /\ report' = [report EXCEPT ![t] = "cleared"]
        /\ GoTo(t, "done") /\ UNCHANGED <<guarded, dir>>
     \/ \E d \in Root :
          /\ dir' = [dir EXCEPT ![t] = d]
          /\ Entered(t) /\ GoTo(t, "detaching") /\ UNCHANGED report
  /\ UNCHANGED <<place, files, now, got, todo, item, answer>>

\* Faulty variant: the root is emptied where it is.
AsideInPlace(d) == place
\* rename_noreplace to a tombstone of its own.
Aside(d) == [place EXCEPT ![d] = "aside"]

\* What was moved is not what was looked at when another process cleared and
\* wrote in between: it stays aside and the clear fails.
Detach(t) ==
  /\ At(t, "detaching") /\ Left(t)
  /\ \/ Root = {} /\ Fails(t) /\ UNCHANGED place
     \/ \E d \in Root :
          /\ place' = Aside(d)
          /\ IF d = dir[t] THEN GoTo(t, "pinning") /\ UNCHANGED report
             ELSE Fails(t)
  /\ UNCHANGED <<files, dir, now, got, todo, item, answer>>

\* pin_snapshot: outside the guard, every file by name and identity.
Pin(t) ==
  /\ At(t, "pinning") /\ todo' = [todo EXCEPT ![t] = files[dir[t]]]
  /\ GoTo(t, "clearing")
  /\ UNCHANGED <<place, files, guarded, dir, now, got, item, answer, report>>

\* A file is the one that was pinned while it has the same writer.
SameFile(f, g) == f.name = g.name /\ f.by = g.by

\* remove_pinned_entries: each file is verified, then removed by name.
VerifyPinned(t) ==
  /\ At(t, "clearing")
  /\ \E f \in todo[t] :
       /\ todo' = [todo EXCEPT ![t] = @ \ {f}]
       /\ IF \E g \in files[dir[t]] : SameFile(f, g)
            THEN /\ item' = [item EXCEPT ![t] = {f}]
                 /\ GoTo(t, "unlinking") /\ UNCHANGED report
            ELSE Fails(t) /\ UNCHANGED item
  /\ UNCHANGED <<place, files, guarded, dir, now, got, answer>>

UnlinkPinned(t) ==
  /\ At(t, "unlinking") /\ Does(t) = "clear"
  /\ \E f \in item[t] : files' = Unlinked(dir[t], f.name)
  /\ item' = [item EXCEPT ![t] = {}]
  /\ GoTo(t, "clearing")
  /\ UNCHANGED <<place, guarded, dir, now, got, todo, answer, report>>

\* The tombstone goes last, and only if it is empty.
RemoveAside(t) ==
  /\ At(t, "clearing") /\ todo[t] = {}
  /\ \/ files[dir[t]] # {} /\ Fails(t) /\ UNCHANGED place
     \/ /\ files[dir[t]] = {}
        /\ place' = [place EXCEPT ![dir[t]] = "removed"]
        /\ report' = [report EXCEPT ![t] = "cleared"]
        /\ GoTo(t, "done")
  /\ UNCHANGED <<files, guarded, dir, now, got, todo, item, answer>>

----------------------------------------------------------------------------

TakeNow(t) ==
  /\ At(t, "start") /\ Does(t) # "download"
  /\ now' = [now EXCEPT ![t] = clock] /\ GoTo(t, "looking")
  /\ UNCHANGED <<place, files, guarded, dir, got, todo, item, answer, report>>

Read(t) == TakeNow(t) \/ OpenForRead(t) \/ ReadEntry(t) \/ ReopenRoot(t) \/ DropEntry(t)
Write(t) ==
  \/ Fetch(t) \/ OpenForWrite(t)
  \/ CreateTemporary(t) \/ FillTemporary(t) \/ PutInPlace(t)
Prune(t) == OpenForPrune(t) \/ LookAtNext(t) \/ UnlinkStale(t) \/ EndPrune(t)
Clear(t) ==
  \/ LookAtRoot(t) \/ Detach(t) \/ Pin(t)
  \/ VerifyPinned(t) \/ UnlinkPinned(t) \/ RemoveAside(t)

UseCache(t) == Read(t) \/ Write(t) \/ Prune(t) \/ Clear(t)
=============================================================================
