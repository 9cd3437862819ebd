----------------------------- MODULE AssetWriter -----------------------------
(***************************************************************************)
(* Saving a downloaded image under its slug                                *)
(* (crates/cceroby/src/asset_writer.rs, and download in search.rs).        *)
(*                                                                         *)
(* The disk is what a power loss leaves of it: of the contents a name had  *)
(* since its directory was last synced any may come back, and a content    *)
(* that was never synced comes back torn.                                  *)
(***************************************************************************)
EXTENDS RateLimiter, FiniteSets, Sequences

CONSTANT Slug   \* names an image can be saved under

VARIABLES
  saving,   \* the tasks inside WRITE_LOCK
  history,  \* of each slug: the downloads that were put there, in order
  kept,     \* of each slug: how many of them a power loss may leave
  synced,   \* the downloads whose bytes are on the disk for good
  saw,      \* what each download found under its name: "created" or "replaced"
  saved     \* what each download reported

assetVars == <<saving, history, kept, synced, saw, saved>>

AssetInit ==
  /\ saving = {} /\ synced = {}
  /\ history = [s \in Slug |-> <<>>]
  /\ kept = [s \in Slug |-> 0]
  /\ saw = [t \in Task |-> "nothing"]
  /\ saved = [t \in Task |-> "nothing"]

SlugOf(t) == job[t].key

EndsAs(t, outcome) ==
  /\ saved' = [saved EXCEPT ![t] = outcome]
  /\ saving' = saving \ {t}
  /\ GoTo(t, "done")

StartDownload(t) ==
  /\ At(t, "start") /\ Does(t) = "download" /\ GoTo(t, "asking")
  /\ UNCHANGED assetVars

\* The image is fetched, turned into a JPEG and given its XMP packet; any of
\* these may fail, before anything was written.
FetchImage(t) ==
  /\ At(t, "granted") /\ Does(t) = "download"
  /\ \/ GoTo(t, "embedded") /\ UNCHANGED assetVars
     \/ EndsAs(t, "failed") /\ UNCHANGED <<history, kept, synced, saw>>

\* Faulty variant: two downloads of one process write at the same time.
MayAlwaysSave(t) == TRUE
\* WRITE_LOCK
MaySave(t) == Siblings(t) \cap saving = {}

\* Under the lock: is there a file already?
LookAtTarget(t) ==
  /\ At(t, "embedded") /\ MaySave(t)
  /\ saving' = saving \cup {t}
  /\ saw' = [saw EXCEPT ![t] =
               IF history[SlugOf(t)] = <<>> THEN "created" ELSE "replaced"]
  /\ GoTo(t, "writing")
  /\ UNCHANGED <<history, kept, synced, saved>>

\* sync_all of the temporary file.
Synced(t) == synced \cup {t}

\* tempfile_in, write_all and sync_all.
WriteBytes(t) ==
  /\ At(t, "writing")
  /\ \/ synced' = Synced(t) /\ GoTo(t, "persisting") /\ UNCHANGED <<saving, saved>>
     \/ EndsAs(t, "failed") /\ UNCHANGED synced
  /\ UNCHANGED <<history, kept, saw>>

\* persist: the rename onto the target.
Persist(t) ==
  /\ At(t, "persisting")
  /\ \/ /\ history' = [history EXCEPT ![SlugOf(t)] = Append(@, t)]
        /\ GoTo(t, "syncing") /\ UNCHANGED <<saving, saved>>
     \/ EndsAs(t, "failed") /\ UNCHANGED history
  /\ UNCHANGED <<kept, synced, saw>>

\* Faulty variant: the directory is not synced.
SettledLater(s) == kept
\* sync_directory: what the name holds now stays.
Settled(s) == [kept EXCEPT ![s] = Len(history[s])]

\* A directory that cannot be synced fails the download, though the target has
\* its new content already.
SyncDirectory(t) ==
  /\ At(t, "syncing")
  /\ \/ kept' = Settled(SlugOf(t)) /\ EndsAs(t, saw[t])
     \/ UNCHANGED kept /\ EndsAs(t, "failed")
  /\ UNCHANGED <<history, synced, saw>>

Download(t) ==
  \/ StartDownload(t) \/ FetchImage(t) \/ LookAtTarget(t)
  \/ WriteBytes(t) \/ Persist(t) \/ SyncDirectory(t)

\* What a power loss leaves of every name.
LosePower ==
  /\ \E left \in [Slug -> 0 .. Cardinality(Task)] :
       /\ \A s \in Slug : left[s] \in kept[s] .. Len(history[s])
       /\ history' = [s \in Slug |-> SubSeq(history[s], 1, left[s])]
       /\ kept' = left
  /\ saving' = {}
  /\ UNCHANGED <<synced, saw, saved>>

----------------------------------------------------------------------------

(***************************************************************************)
(* A power loss at any moment leaves under the name of an image a whole    *)
(* file, the old one or a new one, or nothing if there was nothing: the    *)
(* bytes are synced before they get the name.                              *)
(***************************************************************************)
TargetNeverTorn ==
  \A s \in Slug : \A i \in kept[s] .. Len(history[s]) :
    i > 0 => history[s][i] \in synced

(***************************************************************************)
(* What a download reported as saved is there after any later power loss,  *)
(* or something saved later is: the directory is synced before the answer. *)
(***************************************************************************)
SavedIsDurable ==
  \A t \in Task : saved[t] \in {"created", "replaced"} =>
    \E i \in 1 .. kept[SlugOf(t)] : history[SlugOf(t)][i] = t

(***************************************************************************)
(* While one process alone saves under a name, the download that reports a *)
(* creation is the first that was put there and every other one reports a  *)
(* replacement, however many run at once (asset_writer.rs looks for the    *)
(* target under WRITE_LOCK).                                               *)
(***************************************************************************)
DispositionsAreTruthful ==
  \A t \in Task :
    /\ saved[t] \in {"created", "replaced"}
    /\ \A u \in Task : Does(u) = "download" /\ SlugOf(u) = SlugOf(t)
                         => Home(u) = Home(t)
    => (saved[t] = "created" <=> history[SlugOf(t)][1] = t)
=============================================================================
