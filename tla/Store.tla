-------------------------------- MODULE Store --------------------------------
(***************************************************************************)
(* Requests and commands of several cceroby processes over the limiter of  *)
(* each process, the cache directory they share and the folder they save   *)
(* images in.  A process may die between any two steps, and so may the     *)
(* machine.                                                                *)
(***************************************************************************)
EXTENDS CacheStore, AssetWriter

CONSTANT Horizon   \* the clock ticks on its own up to here

\* The three kinds of names are told apart.
ASSUME NamesAssumption ==
  Task \cap (Key \cup Slug) = {} /\ "before" \notin Task
ASSUME HorizonAssumption == Horizon \in Nat

vars == <<job, stage, clock, limiterVars, cacheVars, assetVars>>

\* What an earlier run left: nobody's file.
Leftover(f) == File(f.name, "before", f.at, f.at, f.whole)

\* Nothing is under way yet: the root may hold what earlier runs left there.
StoreInit(jobs, left) ==
  /\ job = jobs
  /\ stage = [t \in Task |->
                IF Does(t) = "nothing" THEN "done" ELSE "start"]
  /\ clock = 0
  /\ LimiterInit /\ AssetInit
  /\ place = [d \in Dir |-> IF d = 1 /\ left # {} THEN "root" ELSE "unmade"]
  /\ files = [d \in Dir |-> IF d = 1 THEN left ELSE {}]
  /\ guarded = {}
  /\ dir = [t \in Task |-> 0]
  /\ now = [t \in Task |-> 0] /\ got = [t \in Task |-> 0]
  /\ todo = [t \in Task |-> {}] /\ item = [t \in Task |-> {}]
  /\ answer = [t \in Task |-> {}]
  /\ report = [t \in Task |-> "nothing"]

Sleeps(t) == At(t, "sleeping") /\ clock < due[t]

\* Beyond the horizon time goes on only when it is all that can.
Tick ==
  /\ \/ clock < Horizon
     \/ /\ \E t \in Task : Sleeps(t)
        /\ \A t \in Task : Ended(t) \/ Sleeps(t)
  /\ clock' = clock + 1
  /\ UNCHANGED <<job, stage, limiterVars, cacheVars, assetVars>>

Step(t) ==
  \/ Acquire(t) /\ UNCHANGED <<cacheVars, assetVars>>
  \/ UseCache(t) /\ UNCHANGED <<job, clock, limiterVars, assetVars>>
  \/ Download(t) /\ UNCHANGED <<job, clock, limiterVars, cacheVars>>

Die(tasks) ==
  stage' = [t \in Task |-> IF t \in tasks /\ ~Ended(t) THEN "dead" ELSE stage[t]]

\* A process is killed: its locks go with it, its files stay.
Crash(p) ==
  LET lost == {t \in Task : Home(t) = p} IN
  /\ \E t \in lost : ~Ended(t)
  /\ Die(lost)
  /\ guarded' = guarded \ lost /\ saving' = saving \ lost
  /\ UNCHANGED <<job, clock, limiterVars, place, files, dir, now, got, todo,
                 item, answer, report, history, kept, synced, saw, saved>>

PowerLoss ==
  /\ \E t \in Task : ~Ended(t)
  /\ Die(Task)
  /\ guarded' = {} /\ LosePower
  /\ UNCHANGED <<job, clock, limiterVars, place, files, dir, now, got, todo,
                 item, answer, report>>

Next ==
  \/ Tick
  \/ \E t \in Task : Step(t)
  \/ \E p \in Process : Crash(p)
  \/ PowerLoss

\* Whatever is asked of the processes, over whatever earlier runs left; the
\* files they left were written by none of the tasks.
Jobs ==
  [does : {"search", "image", "prune", "clear", "nothing"},
   process : Process, key : Key]
  \cup [does : {"download"}, process : Process, key : Slug]

Start ==
  \E jobs \in [Task -> Jobs], left \in SUBSET [name : Key, at : Int, whole : BOOLEAN] :
    StoreInit(jobs, {Leftover(f) : f \in left})

\* The scheduler runs every task that can go on, and time passes.
Fairness == WF_vars(Tick) /\ \A t \in Task : WF_vars(Step(t))

Spec == Start /\ [][Next]_vars /\ Fairness

----------------------------------------------------------------------------

(***************************************************************************)
(* Every entry under a cache key is whole: a reader of any process, and a  *)
(* process that starts after a crash, never meets half of one.  (Entries   *)
(* that were damaged before are the exception the readers remove.)         *)
(***************************************************************************)
EntriesAreWhole ==
  \A d \in Dir : \A f \in files[d] :
    f.by \in Task /\ f.name \in Key => f.whole

(***************************************************************************)
(* A cached answer came from the provider less than Ttl before the moment  *)
(* the request took as its own, and is whole.                              *)
(***************************************************************************)
AnswersAreFresh ==
  \A t \in Task : \A f \in answer[t] :
    f.whole /\ f.name = job[t].key /\ now[t] - f.from < Ttl

(***************************************************************************)
(* Together: what a task is told is so, the cached answer it gets and the  *)
(* outcome of its download.                                                *)
(***************************************************************************)
ReportsAreTruthful == AnswersAreFresh /\ DispositionsAreTruthful

(***************************************************************************)
(* A reader or a prune that removes an entry by name never removes a fresh *)
(* entry that a task of its own process wrote: the guard is held from the  *)
(* look to the removal.                                                    *)
(***************************************************************************)
OwnWritesAreKept ==
  [][\A t \in Task :
       /\ At(t, "dropping") \/ (At(t, "unlinking") /\ Does(t) = "prune")
       /\ stage'[t] # stage[t]
       =>
         \A f \in files[dir[t]] \ files'[dir[t]] :
           f.by \in Siblings(t) => ~IsGood(f, now[t])]_vars

(***************************************************************************)
(* A clear removes files only from a directory it has moved away from the  *)
(* root's name, whatever other processes do meanwhile: a root that is made *)
(* after the detach is never emptied (detach_root and remove_snapshot).    *)
(***************************************************************************)
ClearSparesTheNewRoot ==
  [][\A t \in Task :
       /\ At(t, "unlinking") /\ Does(t) = "clear" /\ stage'[t] # stage[t]
       => \A d \in Root : files[d] \subseteq files'[d]]_vars

(***************************************************************************)
(* Every request and command comes to an end, however long it has to wait  *)
(* for a token or for a lock.                                              *)
(***************************************************************************)
EveryJobEnds == \A t \in Task : <>Ended(t)
=============================================================================
