----------------------------- MODULE StoreProofs -----------------------------
(***************************************************************************)
(* What Store promises for any number of tasks and processes, any capacity *)
(* and refill, and whatever earlier runs left in the cache.                *)
(***************************************************************************)
EXTENDS Store, TLAPS

\* The bucket's books: what it granted and still holds never exceeds what it
\* started with and what its time has refilled.
LimiterInv ==
  /\ job \in [Task -> Jobs]
  /\ clock \in Nat
  /\ level \in [Process -> 0 .. Full]
  /\ updated \in [Process -> 0 .. clock]
  /\ instant \in [Task -> 0 .. clock]
  /\ granted \in [Process -> Nat]
  /\ rewound \in [Process -> Nat]
  /\ \A p \in Process :
       granted[p] * Interval + level[p] <= Full + updated[p] + rewound[p]

LEMMA FullIsNat == Full \in Nat /\ Interval \in Nat /\ Full >= Interval
<1>1. Capacity \in Nat /\ Interval \in Nat /\ Capacity >= 1 /\ Interval >= 1
  BY CapacityAssumption, IntervalAssumption
<1>2. Capacity * Interval >= 1 * Interval
  BY <1>1
<1>3. Capacity * Interval \in Nat
  BY <1>1
<1>. QED  BY <1>1, <1>2, <1>3 DEF Full

LEMMA HomeIsProcess ==
  ASSUME LimiterInv, NEW t \in Task
  PROVE  Home(t) \in Process
BY DEF LimiterInv, Jobs, Home

LEMMA LimiterStarts ==
  ASSUME Start
  PROVE  LimiterInv
<1>1. PICK jobs \in [Task -> Jobs],
           left \in SUBSET [name : Key, at : Int, whole : BOOLEAN] :
        StoreInit(jobs, {Leftover(f) : f \in left})
  BY DEF Start
<1>2. Full \in 0 .. Full /\ Interval \in Nat
  BY FullIsNat
<1>. QED  BY <1>1, <1>2 DEF StoreInit, LimiterInit, LimiterInv

LEMMA ReplenishedBounds ==
  ASSUME LimiterInv, NEW t \in Task
  PROVE  /\ Replenished(t) \in 0 .. Full
         /\ Replenished(t) <= level[Home(t)] + Later(0, instant[t] - updated[Home(t)])
<1>1. Home(t) \in Process
  BY HomeIsProcess
<1>2. level[Home(t)] \in 0 .. Full /\ updated[Home(t)] \in Nat /\ instant[t] \in Nat
  BY <1>1 DEF LimiterInv
<1>3. Full \in Nat
  BY FullIsNat
<1>. QED  BY <1>2, <1>3 DEF Replenished, Later, Lesser

\* The bucket's books after a task settled them, with or without a token.
LEMMA SettleKeepsBooks ==
  ASSUME LimiterInv, NEW t \in Task, NEW rest \in 0 .. Full, NEW taken \in {0, 1},
         Settle(t, rest),
         rest + taken * Interval = Replenished(t),
         granted' = [granted EXCEPT ![Home(t)] = @ + taken]
  PROVE  LimiterInv'
<1>1. Home(t) \in Process
  BY HomeIsProcess
<1>2. Full \in Nat /\ Interval \in Nat
  BY FullIsNat
<1>3. /\ job' = job /\ clock' = clock /\ instant' = instant
      /\ level' = [level EXCEPT ![Home(t)] = rest]
      /\ updated' = [updated EXCEPT ![Home(t)] = instant[t]]
      /\ rewound' = [rewound EXCEPT
           ![Home(t)] = @ + Later(0, updated[Home(t)] - instant[t])]
  BY DEF Settle
<1>4. /\ level' \in [Process -> 0 .. Full]
      /\ updated' \in [Process -> 0 .. clock]
      /\ granted' \in [Process -> Nat]
      /\ rewound' \in [Process -> Nat]
  <2>1. instant[t] \in 0 .. clock /\ updated[Home(t)] \in 0 .. clock /\ clock \in Nat
    BY <1>1 DEF LimiterInv
  <2>2. Later(0, updated[Home(t)] - instant[t]) \in Nat
    BY <2>1 DEF Later
  <2>. QED  BY <1>1, <1>3, <2>1, <2>2 DEF LimiterInv
<1>5. ASSUME NEW p \in Process
      PROVE  granted'[p] * Interval + level'[p] <= Full + updated'[p] + rewound'[p]
  <2>0. /\ granted[p] \in Nat /\ level[p] \in Nat /\ updated[p] \in Nat
        /\ rewound[p] \in Nat /\ instant[t] \in Nat
        /\ granted[p] * Interval + level[p] <= Full + updated[p] + rewound[p]
    BY <1>2 DEF LimiterInv
  <2>1. CASE p # Home(t)
    BY <1>3, <2>0, <2>1 DEF LimiterInv
  <2>2. CASE p = Home(t)
    <3>1. /\ granted'[p] = granted[p] + taken /\ level'[p] = rest
          /\ updated'[p] = instant[t]
          /\ rewound'[p] = rewound[p] + Later(0, updated[p] - instant[t])
      BY <1>1, <1>3, <2>2 DEF LimiterInv
    <3>2. rest + taken * Interval <= level[p] + Later(0, instant[t] - updated[p])
      BY <2>2, ReplenishedBounds
    <3>3. (granted[p] + taken) * Interval = granted[p] * Interval + taken * Interval
      BY <1>2, <2>0
    <3>4. instant[t] + Later(0, updated[p] - instant[t])
            = updated[p] + Later(0, instant[t] - updated[p])
      BY <2>0 DEF Later
    <3>5. /\ granted[p] * Interval \in Nat /\ taken * Interval \in Nat
          /\ rest \in Nat
          /\ Later(0, updated[p] - instant[t]) \in Nat
          /\ Later(0, instant[t] - updated[p]) \in Nat
      BY <1>2, <2>0 DEF Later
    <3>. DEFINE gi == granted[p] * Interval
                ti == taken * Interval
                up == Later(0, instant[t] - updated[p])
                back == Later(0, updated[p] - instant[t])
    <3>6. gi + ti + rest <= Full + instant[t] + (rewound[p] + back)
      <4>1. /\ gi \in Nat /\ ti \in Nat /\ up \in Nat /\ back \in Nat /\ rest \in Nat
            /\ gi + level[p] <= Full + updated[p] + rewound[p]
            /\ rest + ti <= level[p] + up
            /\ instant[t] + back = updated[p] + up
        BY <2>0, <3>2, <3>4, <3>5
      <4>. HIDE DEF gi, ti, up, back
      <4>. QED  BY <1>2, <2>0, <4>1
    <3>. QED  BY <3>1, <3>3, <3>6
  <2>. QED  BY <2>1, <2>2
<1>. QED  BY <1>3, <1>4, <1>5 DEF LimiterInv

LEMMA LimiterKept ==
  ASSUME LimiterInv, [Next]_vars
  PROVE  LimiterInv'
<1>1. ASSUME NEW t \in Task, ReadClock(t)
      PROVE  LimiterInv'
  <2>1. clock \in 0 .. clock
    BY DEF LimiterInv
  <2>. QED  BY <1>1, <2>1 DEF ReadClock, LimiterInv
<1>2. ASSUME NEW t \in Task, Grant(t)
      PROVE  LimiterInv'
  <2>1. Replenished(t) \in 0 .. Full /\ Replenished(t) >= Interval /\ Interval \in Nat
    BY <1>2, FullIsNat, ReplenishedBounds DEF Grant, Enough
  <2>2. /\ Replenished(t) - Interval \in 0 .. Full
        /\ (Replenished(t) - Interval) + 1 * Interval = Replenished(t)
    BY <2>1, FullIsNat
  <2>3. /\ Settle(t, Replenished(t) - Interval)
        /\ granted' = [granted EXCEPT ![Home(t)] = @ + 1]
    BY <1>2 DEF Grant
  <2>. QED  BY <2>2, <2>3, SettleKeepsBooks
<1>3. ASSUME NEW t \in Task, Postpone(t)
      PROVE  LimiterInv'
  <2>1. Replenished(t) \in 0 .. Full /\ Replenished(t) + 0 * Interval = Replenished(t)
    BY FullIsNat, ReplenishedBounds
  <2>2. Settle(t, Replenished(t))
    BY <1>3 DEF Postpone
  <2>3. granted' = [granted EXCEPT ![Home(t)] = @ + 0]
    BY <1>3, HomeIsProcess DEF Postpone, LimiterInv
  <2>. QED  BY <2>1, <2>2, <2>3, SettleKeepsBooks
<1>4. CASE Tick
  <2>1. clock' = clock + 1 /\ UNCHANGED <<job, level, updated, instant, granted, rewound>>
    BY <1>4 DEF Tick, limiterVars
  <2>. QED  BY <2>1 DEF LimiterInv
<1>5. CASE UNCHANGED <<job, clock, limiterVars>>
  BY <1>5 DEF limiterVars, LimiterInv, Full
<1>6. ASSUME NEW t \in Task, Step(t)
      PROVE  LimiterInv'
  BY <1>1, <1>2, <1>3, <1>5, <1>6 DEF Step, Acquire, Wake
<1>7. CASE PowerLoss \/ \E p \in Process : Crash(p)
  BY <1>5, <1>7 DEF PowerLoss, Crash
<1>8. CASE UNCHANGED vars
  BY <1>5, <1>8 DEF vars
<1>. QED  BY <1>4, <1>6, <1>7, <1>8 DEF Next

(***************************************************************************)
(* However many tasks of a process wait for its bucket and read the clock  *)
(* in whatever order, TokenBucket::acquire grants no more than the policy  *)
(* allows for the time the bucket's own clock went through.                *)
(***************************************************************************)
THEOREM GrantsBounded == Spec => []GrantsAreBounded
<1>1. LimiterInv => GrantsAreBounded
  <2>1. ASSUME LimiterInv, NEW p \in Process
        PROVE  granted[p] * Interval <= Full + clock + rewound[p]
    <3>1. /\ granted[p] * Interval \in Int /\ level[p] \in Nat /\ updated[p] <= clock
          /\ updated[p] \in Nat /\ clock \in Nat /\ rewound[p] \in Nat /\ Full \in Nat
          /\ granted[p] * Interval + level[p] <= Full + updated[p] + rewound[p]
      BY <2>1, FullIsNat DEF LimiterInv
    <3>. QED  BY <3>1
  <2>. QED  BY <2>1 DEF GrantsAreBounded
<1>. QED  BY <1>1, LimiterStarts, LimiterKept, PTL DEF Spec

----------------------------------------------------------------------------

\* Everything but a download leaves the assets alone, and brings no task into
\* the middle of one.
ElseStages ==
  {"looking", "reading", "stale", "dropping", "asking", "locking", "sleeping",
   "granted", "fetched", "creating", "filling", "placing", "pruning",
   "unlinking", "detaching", "pinning", "clearing", "done"}

SaveStages == {"embedded", "writing", "persisting", "syncing"}
Stages == ElseStages \cup SaveStages \cup {"start", "dead"}
Outcomes == {"nothing", "created", "replaced", "failed"}

Saving(t) == stage[t] \in SaveStages

Among(t, puts, n) == \E i \in 1 .. n : puts[i] = t

\* What is under a name has been synced; what was reported is what a power
\* loss keeps.
AssetInv ==
  /\ job \in [Task -> Jobs]
  /\ stage \in [Task -> Stages]
  /\ history \in [Slug -> Seq(Task)]
  /\ kept \in [Slug -> Nat]
  /\ saw \in [Task -> Outcomes] /\ saved \in [Task -> Outcomes]
  /\ \A s \in Slug : kept[s] <= Len(history[s])
  /\ \A t \in Task : Saving(t) => Does(t) = "download"
  /\ \A t \in Task : stage[t] \in {"persisting", "syncing"} => t \in synced
  /\ \A s \in Slug : \A i \in 1 .. Len(history[s]) : history[s][i] \in synced
  /\ \A t \in Task : stage[t] = "syncing" => 
       Among(t, history[SlugOf(t)], Len(history[SlugOf(t)]))
  /\ \A t \in Task : saved[t] \in {"created", "replaced"} =>
       Does(t) = "download" /\ Among(t, history[SlugOf(t)], kept[SlugOf(t)])

LEMMA SlugOfDownload ==
  ASSUME AssetInv, NEW t \in Task, Does(t) = "download"
  PROVE  SlugOf(t) \in Slug
BY DEF AssetInv, Jobs, Does, SlugOf

LEMMA AssetStarts ==
  ASSUME Start
  PROVE  AssetInv
<1>1. PICK jobs \in [Task -> Jobs],
           left \in SUBSET [name : Key, at : Int, whole : BOOLEAN] :
        StoreInit(jobs, {Leftover(f) : f \in left})
  BY DEF Start
<1>2. /\ job \in [Task -> Jobs]
      /\ stage = [t \in Task |-> IF Does(t) = "nothing" THEN "done" ELSE "start"]
      /\ history = [s \in Slug |-> <<>>] /\ kept = [s \in Slug |-> 0]
      /\ saved = [t \in Task |-> "nothing"] /\ saw = [t \in Task |-> "nothing"]
  BY <1>1 DEF StoreInit, AssetInit
<1>3. stage \in [Task -> {"done", "start"}]
  BY <1>2
<1>4. \A t \in Task : stage[t] \notin SaveStages
  BY <1>3 DEF SaveStages
<1>5. /\ history \in [Slug -> Seq(Task)]
      /\ \A s \in Slug : history[s] = <<>> /\ Len(history[s]) = 0 /\ kept[s] = 0
      /\ \A t \in Task : saved[t] = "nothing"
  BY <1>2
<1>6. /\ stage \in [Task -> Stages] /\ kept \in [Slug -> Nat]
      /\ saw \in [Task -> Outcomes] /\ saved \in [Task -> Outcomes]
  BY <1>2, <1>3 DEF Stages, ElseStages, Outcomes
<1>7. \A t \in Task : ~Saving(t) /\ saved[t] \notin {"created", "replaced"}
  BY <1>4, <1>5 DEF Saving
<1>8. job \in [Task -> Jobs]
  BY <1>2
<1>9. \A s \in Slug : \A i \in 1 .. Len(history[s]) : history[s][i] \in synced
  BY <1>5
<1>. QED  BY <1>4, <1>5, <1>6, <1>7, <1>8, <1>9 DEF AssetInv, SaveStages

LEMMA CacheStages ==
  ASSUME NEW t \in Task, UseCache(t)
  PROVE  \/ UNCHANGED stage
         \/ \E s \in ElseStages : stage' = [stage EXCEPT ![t] = s]
<1>1. CASE Read(t)
  BY <1>1 DEF Read, TakeNow, OpenForRead, ReadEntry, ReopenRoot, DropEntry,
              GoTo, ElseStages
<1>2. CASE Write(t)
  BY <1>2 DEF Write, Fetch, OpenForWrite, CreateTemporary, FillTemporary,
              PutInPlace, GoTo, ElseStages
<1>3. CASE Prune(t)
  BY <1>3 DEF Prune, OpenForPrune, LookAtNext, UnlinkStale, EndPrune, GoTo,
              ElseStages
<1>4. CASE Clear(t)
  BY <1>4 DEF Clear, LookAtRoot, Detach, Pin, VerifyPinned, UnlinkPinned,
              RemoveAside, Fails, GoTo, ElseStages
<1>. QED  BY <1>1, <1>2, <1>3, <1>4 DEF UseCache

LEMMA AcquireStages ==
  ASSUME NEW t \in Task, Acquire(t)
  PROVE  /\ \E s \in ElseStages : stage' = [stage EXCEPT ![t] = s]
         /\ UNCHANGED job
BY DEF Acquire, ReadClock, Grant, Postpone, Wake, Settle, GoTo, ElseStages

LEMMA AssetFrame ==
  ASSUME AssetInv, NEW t \in Task, NEW s \in ElseStages,
         stage' = [stage EXCEPT ![t] = s],
         UNCHANGED <<job, assetVars>>
  PROVE  AssetInv'
<1>1. /\ stage' \in [Task -> Stages]
      /\ \A u \in Task : u # t => stage'[u] = stage[u]
      /\ stage'[t] \in ElseStages
  <2>1. stage \in [Task -> Stages] /\ s \in Stages
    BY DEF AssetInv, Stages
  <2>. QED  BY <2>1
<1>0. job' = job
  OBVIOUS
<1>2. \A u \in Task : SlugOf(u)' = SlugOf(u) /\ Does(u)' = Does(u)
  BY <1>0 DEF SlugOf, Does
<1>3. \A u \in Task : stage'[u] \in SaveStages
                       => u # t /\ stage'[u] = stage[u]
  BY <1>1 DEF ElseStages, SaveStages
<1>4. UNCHANGED <<history, kept, synced, saw, saved>>
  BY DEF assetVars
<1>. QED  BY <1>0, <1>1, <1>2, <1>3, <1>4 DEF AssetInv, Saving, SaveStages

\* What a task's own step leaves of the books of every other task.
LEMMA AssetStep ==
  ASSUME AssetInv, NEW t \in Task, NEW s \in Stages,
         stage' = [stage EXCEPT ![t] = s], job' = job,
         s \in SaveStages => Does(t) = "download",
         history' \in [Slug -> Seq(Task)], kept' \in [Slug -> Nat],
         saw' \in [Task -> Outcomes], saved' \in [Task -> Outcomes],
         synced \subseteq synced',
         s \in {"persisting", "syncing"} => t \in synced',
         \A n \in Slug : /\ kept[n] <= kept'[n] /\ kept'[n] <= Len(history'[n])
                         /\ Len(history[n]) <= Len(history'[n])
                         /\ \A i \in 1 .. Len(history[n]) : history'[n][i] = history[n][i]
                         /\ \A i \in 1 .. Len(history'[n]) : history'[n][i] \in synced',
         s = "syncing" => Among(t, history'[SlugOf(t)], Len(history'[SlugOf(t)])),
         \A u \in Task \ {t} : saved'[u] = saved[u],
         saved'[t] \in {"created", "replaced"} /\ saved'[t] # saved[t] =>
           Does(t) = "download" /\ Among(t, history'[SlugOf(t)], kept'[SlugOf(t)])
  PROVE  AssetInv'
<1>1. /\ stage' \in [Task -> Stages] /\ job' \in [Task -> Jobs]
      /\ \A u \in Task : u # t => stage'[u] = stage[u]
      /\ stage'[t] = s
  BY DEF AssetInv
<1>2. \A u \in Task : SlugOf(u)' = SlugOf(u) /\ Does(u)' = Does(u)
  BY DEF SlugOf, Does
<1>3. ASSUME NEW u \in Task, NEW n \in Slug, NEW m \in Nat, NEW k \in Nat,
             Among(u, history[n], m), m <= k, m <= Len(history[n])
      PROVE  Among(u, history'[n], k)
  <2>1. PICK i \in 1 .. m : history[n][i] = u
    BY <1>3 DEF Among
  <2>2. Len(history[n]) \in Nat
    BY <1>3 DEF AssetInv
  <2>3. i \in 1 .. Len(history[n]) /\ i \in 1 .. k
    BY <1>3, <2>1, <2>2
  <2>. QED  BY <2>1, <2>3 DEF Among
<1>4. \A u \in Task : Saving(u)' => Does(u)' = "download"
  BY <1>1, <1>2 DEF AssetInv, Saving
<1>5. \A u \in Task : stage'[u] \in {"persisting", "syncing"} => u \in synced'
  BY <1>1 DEF AssetInv
<1>6. ASSUME NEW u \in Task, stage'[u] = "syncing"
      PROVE  Among(u, history'[SlugOf(u)], Len(history'[SlugOf(u)]))
  <2>1. CASE u = t
    BY <1>1, <1>6, <2>1
  <2>2. CASE u # t
    <3>1. stage[u] = "syncing"
      BY <1>1, <1>6, <2>2
    <3>2. Does(u) = "download"
      BY <3>1 DEF AssetInv, Saving, SaveStages
    <3>3. SlugOf(u) \in Slug
      BY <3>2, SlugOfDownload
    <3>4. /\ Len(history[SlugOf(u)]) \in Nat /\ Len(history'[SlugOf(u)]) \in Nat
          /\ Len(history[SlugOf(u)]) <= Len(history'[SlugOf(u)])
          /\ Among(u, history[SlugOf(u)], Len(history[SlugOf(u)]))
      BY <3>1, <3>3 DEF AssetInv
    <3>5. Len(history[SlugOf(u)]) <= Len(history[SlugOf(u)])
      BY <3>4
    <3>. DEFINE m == Len(history[SlugOf(u)])
                k == Len(history'[SlugOf(u)])
    <3>6. m \in Nat /\ k \in Nat /\ m <= k /\ Among(u, history[SlugOf(u)], m)
      BY <3>4
    <3>7. m <= Len(history[SlugOf(u)])
      BY <3>5
    <3>. HIDE DEF m, k
    <3>8. Among(u, history'[SlugOf(u)], k)
      BY <1>3, <3>3, <3>6, <3>7
    <3>. QED  BY <3>8 DEF k
  <2>. QED  BY <2>1, <2>2
<1>7. ASSUME NEW u \in Task, saved'[u] \in {"created", "replaced"}
      PROVE  Does(u) = "download" /\ Among(u, history'[SlugOf(u)], kept'[SlugOf(u)])
  <2>1. CASE saved'[u] # saved[u]
    BY <1>7, <2>1
  <2>2. CASE saved'[u] = saved[u]
    <3>1. Does(u) = "download" /\ Among(u, history[SlugOf(u)], kept[SlugOf(u)])
      BY <1>7, <2>2 DEF AssetInv
    <3>2. SlugOf(u) \in Slug
      BY <3>1, SlugOfDownload
    <3>3. /\ kept[SlugOf(u)] \in Nat /\ kept'[SlugOf(u)] \in Nat
          /\ kept[SlugOf(u)] <= kept'[SlugOf(u)]
          /\ kept[SlugOf(u)] <= Len(history[SlugOf(u)])
      BY <3>2 DEF AssetInv
    <3>. QED  BY <1>3, <3>1, <3>2, <3>3
  <2>. QED  BY <2>1, <2>2
<1>. QED  BY <1>1, <1>2, <1>4, <1>5, <1>6, <1>7 DEF AssetInv

LEMMA AssetsBelow ==
  ASSUME AssetInv
  PROVE  \A n \in Slug : /\ kept[n] \in Nat /\ Len(history[n]) \in Nat
                         /\ kept[n] <= kept[n] /\ kept[n] <= Len(history[n])
                         /\ Len(history[n]) <= Len(history[n])
                         /\ \A i \in 1 .. Len(history[n]) : history[n][i] \in synced
BY DEF AssetInv

\* A download that ends without having put or settled anything.
LEMMA AssetEnds ==
  ASSUME AssetInv, NEW t \in Task, EndsAs(t, "failed"), job' = job,
         UNCHANGED <<history, kept, synced, saw>>
  PROVE  AssetInv'
<1>1. /\ stage' = [stage EXCEPT ![t] = "done"]
      /\ saved' = [saved EXCEPT ![t] = "failed"]
  BY DEF EndsAs, GoTo
<1>2. /\ "done" \in Stages /\ "done" \notin SaveStages
  BY DEF Stages, ElseStages, SaveStages
<1>3. /\ saved' \in [Task -> Outcomes] /\ saved'[t] = "failed"
      /\ \A u \in Task \ {t} : saved'[u] = saved[u]
  BY <1>1 DEF AssetInv, Outcomes
<1>4. /\ history' \in [Slug -> Seq(Task)] /\ kept' \in [Slug -> Nat]
      /\ saw' \in [Task -> Outcomes] /\ synced \subseteq synced'
  BY DEF AssetInv
<1>. QED  BY <1>1, <1>2, <1>3, <1>4, AssetsBelow, AssetStep DEF SaveStages

LEMMA AssetKept ==
  ASSUME AssetInv, [Next]_vars
  PROVE  AssetInv'
<1>1. ASSUME NEW t \in Task, Acquire(t), UNCHANGED assetVars
      PROVE  AssetInv'
  BY <1>1, AcquireStages, AssetFrame
<1>2. CASE UNCHANGED <<job, stage, assetVars>>
  BY <1>2 DEF AssetInv, assetVars, Saving, SlugOf, Does
<1>3. ASSUME NEW t \in Task, UseCache(t), UNCHANGED <<job, assetVars>>
      PROVE  AssetInv'
  BY <1>2, <1>3, CacheStages, AssetFrame
<1>4. ASSUME NEW t \in Task, Download(t), job' = job
      PROVE  AssetInv'
  <2>0. /\ history \in [Slug -> Seq(Task)] /\ kept \in [Slug -> Nat]
        /\ saw \in [Task -> Outcomes] /\ saved \in [Task -> Outcomes]
        /\ synced \subseteq synced /\ stage \in [Task -> Stages]
    BY DEF AssetInv
  <2>1. CASE StartDownload(t)
    <3>1. "asking" \in ElseStages
      BY DEF ElseStages
    <3>. QED  BY <1>4, <2>1, <3>1, AssetFrame DEF StartDownload, GoTo
  <2>2. CASE FetchImage(t)
    <3>1. CASE EndsAs(t, "failed")
      BY <1>4, <2>2, <3>1, AssetEnds DEF FetchImage, assetVars
    <3>2. CASE GoTo(t, "embedded") /\ UNCHANGED assetVars
      <4>1. stage' = [stage EXCEPT ![t] = "embedded"] /\ Does(t) = "download"
        BY <2>2, <3>2 DEF FetchImage, GoTo
      <4>2. "embedded" \in Stages
        BY DEF Stages, SaveStages
      <4>3. UNCHANGED <<history, kept, synced, saw, saved>>
        BY <3>2 DEF assetVars
      <4>. QED  BY <1>4, <2>0, <4>1, <4>2, <4>3, AssetsBelow, AssetStep
    <3>. QED  BY <2>2, <3>1, <3>2 DEF FetchImage
  <2>3. CASE LookAtTarget(t)
    <3>1. stage' = [stage EXCEPT ![t] = "writing"] /\ stage[t] = "embedded"
      BY <2>3 DEF LookAtTarget, GoTo, At
    <3>2. "writing" \in Stages /\ Does(t) = "download"
      BY <3>1 DEF Stages, SaveStages, AssetInv, Saving
    <3>3. UNCHANGED <<history, kept, synced, saved>>
      BY <2>3 DEF LookAtTarget
    <3>4. saw' \in [Task -> Outcomes]
      BY <2>0, <2>3 DEF LookAtTarget, Outcomes
    <3>. QED  BY <1>4, <2>0, <3>1, <3>2, <3>3, <3>4, AssetsBelow, AssetStep
  <2>4. CASE WriteBytes(t)
    <3>1. CASE EndsAs(t, "failed") /\ UNCHANGED synced
      BY <1>4, <2>4, <3>1, AssetEnds DEF WriteBytes
    <3>2. CASE synced' = Synced(t) /\ GoTo(t, "persisting") /\ UNCHANGED <<saving, saved>>
      <4>1. stage' = [stage EXCEPT ![t] = "persisting"] /\ stage[t] = "writing"
        BY <2>4, <3>2 DEF WriteBytes, GoTo, At
      <4>2. "persisting" \in Stages /\ Does(t) = "download"
        BY <4>1 DEF Stages, SaveStages, AssetInv, Saving
      <4>3. UNCHANGED <<history, kept, saw, saved>>
        BY <2>4, <3>2 DEF WriteBytes
      <4>4. synced \subseteq synced' /\ t \in synced'
        BY <3>2 DEF Synced
      <4>. QED  BY <1>4, <2>0, <4>1, <4>2, <4>3, <4>4, AssetsBelow, AssetStep
    <3>. QED  BY <2>4, <3>1, <3>2 DEF WriteBytes
  <2>5. CASE Persist(t)
    <3>1. CASE EndsAs(t, "failed") /\ UNCHANGED history
      BY <1>4, <2>5, <3>1, AssetEnds DEF Persist
    <3>2. CASE GoTo(t, "syncing") /\ UNCHANGED <<saving, saved>>
               /\ history' = [history EXCEPT ![SlugOf(t)] = Append(@, t)]
      <4>1. stage' = [stage EXCEPT ![t] = "syncing"] /\ stage[t] = "persisting"
        BY <2>5, <3>2 DEF Persist, GoTo, At
      <4>2. /\ "syncing" \in Stages /\ Does(t) = "download"
            /\ t \in synced
        BY <4>1 DEF Stages, SaveStages, AssetInv, Saving
      <4>3. UNCHANGED <<kept, synced, saw, saved>>
        BY <2>5, <3>2 DEF Persist
      <4>4. SlugOf(t) \in Slug
        BY <4>2, SlugOfDownload
      <4>5. history' \in [Slug -> Seq(Task)]
        BY <2>0, <3>2, <4>4
      <4>6. ASSUME NEW n \in Slug
            PROVE  /\ kept[n] <= Len(history'[n])
                   /\ Len(history[n]) <= Len(history'[n])
                   /\ \A i \in 1 .. Len(history[n]) : history'[n][i] = history[n][i]
                   /\ \A i \in 1 .. Len(history'[n]) : history'[n][i] \in synced
        <5>1. history[n] \in Seq(Task)
          BY <2>0
        <5>2. CASE n # SlugOf(t)
          BY <2>0, <3>2, <5>2, AssetsBelow
        <5>3. CASE n = SlugOf(t)
          <6>1. history'[n] = Append(history[n], t)
            BY <2>0, <3>2, <5>3
          <6>. QED  BY <4>2, <5>1, <6>1, AssetsBelow
        <5>. QED  BY <5>2, <5>3
      <4>7. Among(t, history'[SlugOf(t)], Len(history'[SlugOf(t)]))
        <5>1. /\ history[SlugOf(t)] \in Seq(Task)
              /\ history'[SlugOf(t)] = Append(history[SlugOf(t)], t)
          BY <2>0, <3>2, <4>4
        <5>. QED  BY <5>1 DEF Among
      <4>8. \A n \in Slug : kept[n] <= kept'[n]
        BY <4>3, AssetsBelow
      <4>. QED  BY <1>4, <2>0, <4>1, <4>2, <4>3, <4>5, <4>6, <4>7, <4>8, AssetStep
    <3>. QED  BY <2>5, <3>1, <3>2 DEF Persist
  <2>6. CASE SyncDirectory(t)
    <3>1. CASE EndsAs(t, "failed") /\ UNCHANGED kept
      BY <1>4, <2>6, <3>1, AssetEnds DEF SyncDirectory
    <3>2. CASE kept' = Settled(SlugOf(t)) /\ EndsAs(t, saw[t])
      <4>1. stage' = [stage EXCEPT ![t] = "done"] /\ stage[t] = "syncing"
        BY <2>6, <3>2 DEF SyncDirectory, EndsAs, GoTo, At
      <4>2. Does(t) = "download" /\ "done" \in Stages /\ "done" \notin SaveStages
        BY <4>1 DEF Stages, ElseStages, SaveStages, AssetInv, Saving
      <4>3. UNCHANGED <<history, synced, saw>>
        BY <2>6 DEF SyncDirectory
      <4>4. SlugOf(t) \in Slug
        BY <4>2, SlugOfDownload
      <4>5. /\ saved' \in [Task -> Outcomes]
            /\ \A u \in Task \ {t} : saved'[u] = saved[u]
        BY <2>0, <3>2 DEF EndsAs
      <4>6. /\ kept' \in [Slug -> Nat]
            /\ kept'[SlugOf(t)] = Len(history[SlugOf(t)])
            /\ \A n \in Slug : kept[n] <= kept'[n] /\ kept'[n] <= Len(history[n])
        BY <2>0, <3>2, <4>4, AssetsBelow DEF Settled
      <4>7. Among(t, history'[SlugOf(t)], kept'[SlugOf(t)])
        BY <4>1, <4>3, <4>6 DEF AssetInv
      <4>. QED  BY <1>4, <2>0, <4>1, <4>2, <4>3, <4>5, <4>6, <4>7, AssetsBelow,
                   AssetStep DEF SaveStages
    <3>. QED  BY <2>6, <3>1, <3>2 DEF SyncDirectory
  <2>. QED  BY <1>4, <2>1, <2>2, <2>3, <2>4, <2>5, <2>6 DEF Download
<1>5. ASSUME NEW lost \in SUBSET Task, Die(lost), UNCHANGED <<job, synced, saw, saved>>,
             \/ UNCHANGED <<history, kept>>
             \/ lost = Task /\ LosePower
      PROVE  AssetInv'
  <2>1. /\ stage' \in [Task -> Stages]
        /\ \A u \in Task : stage'[u] \in SaveStages => u \notin lost /\ stage[u] = stage'[u]
    BY <1>5 DEF Die, AssetInv, Stages, SaveStages, Ended
  <2>2. CASE UNCHANGED <<history, kept>>
    BY <1>5, <2>1, <2>2 DEF AssetInv, Saving, SaveStages, SlugOf, Does
  <2>3. CASE lost = Task /\ LosePower
    <3>1. \A u \in Task : stage'[u] \notin SaveStages
      BY <2>1, <2>3
    <3>2. PICK left \in [Slug -> 0 .. Cardinality(Task)] :
            /\ \A s \in Slug : left[s] \in kept[s] .. Len(history[s])
            /\ history' = [s \in Slug |-> SubSeq(history[s], 1, left[s])]
            /\ kept' = left
      BY <2>3 DEF LosePower
    <3>3. ASSUME NEW n \in Slug
          PROVE  /\ history'[n] \in Seq(Task) /\ kept'[n] \in Nat
                 /\ kept'[n] <= Len(history'[n]) /\ kept[n] <= kept'[n]
                 /\ \A i \in 1 .. Len(history'[n]) : history'[n][i] \in synced
                 /\ \A i \in 1 .. kept[n] : history'[n][i] = history[n][i]
      <4>1. /\ history[n] \in Seq(Task) /\ kept[n] \in Nat
            /\ \A i \in 1 .. Len(history[n]) : history[n][i] \in synced
        BY DEF AssetInv
      <4>2. left[n] \in Nat /\ left[n] <= Len(history[n]) /\ kept[n] <= left[n]
        BY <3>2, <4>1
      <4>3. history'[n] = SubSeq(history[n], 1, left[n]) /\ kept'[n] = left[n]
        BY <3>2
      <4>. QED  BY <4>1, <4>2, <4>3
    <3>4. kept' \in [Slug -> Nat] /\ history' \in [Slug -> Seq(Task)]
      BY <3>2, <3>3
    <3>5. ASSUME NEW u \in Task, saved[u] \in {"created", "replaced"}
          PROVE  Does(u) = "download" /\ Among(u, history'[SlugOf(u)], kept'[SlugOf(u)])
      <4>1. Does(u) = "download" /\ Among(u, history[SlugOf(u)], kept[SlugOf(u)])
        BY <3>5 DEF AssetInv
      <4>2. SlugOf(u) \in Slug
        BY <4>1, SlugOfDownload
      <4>3. PICK i \in 1 .. kept[SlugOf(u)] : history[SlugOf(u)][i] = u
        BY <4>1 DEF Among
      <4>4. kept[SlugOf(u)] \in Nat
        BY <4>2 DEF AssetInv
      <4>. QED  BY <3>3, <4>1, <4>2, <4>3, <4>4 DEF Among
    <3>6. \A u \in Task : SlugOf(u)' = SlugOf(u) /\ Does(u)' = Does(u)
      BY <1>5 DEF SlugOf, Does
    <3>. QED  BY <1>5, <2>1, <3>1, <3>3, <3>4, <3>5, <3>6 DEF AssetInv, Saving, SaveStages
  <2>. QED  BY <1>5, <2>2, <2>3
<1>6. ASSUME NEW p \in Process, Crash(p)
      PROVE  AssetInv'
  <2>. DEFINE lost == {t \in Task : Home(t) = p}
  <2>1. /\ lost \in SUBSET Task /\ Die(lost)
        /\ UNCHANGED <<job, synced, saw, saved, history, kept>>
    BY <1>6 DEF Crash
  <2>. QED  BY <1>5, <2>1
<1>7. CASE PowerLoss
  <2>1. Task \in SUBSET Task /\ Die(Task) /\ LosePower
        /\ UNCHANGED <<job, synced, saw, saved>>
    BY <1>7 DEF PowerLoss, LosePower
  <2>. QED  BY <1>5, <2>1
<1>8. CASE Tick \/ UNCHANGED vars
  BY <1>2, <1>8 DEF Tick, vars
<1>. QED  BY <1>1, <1>3, <1>4, <1>6, <1>7, <1>8 DEF Next, Step

(***************************************************************************)
(* write_atomic_replace syncs the bytes before it renames them, so no      *)
(* power loss leaves half an image under a name that can be opened.        *)
(***************************************************************************)
THEOREM TargetsAreWhole == Spec => []TargetNeverTorn
<1>1. AssetInv => TargetNeverTorn
  <2>1. ASSUME AssetInv, NEW s \in Slug, NEW i \in kept[s] .. Len(history[s]), i > 0
        PROVE  history[s][i] \in synced
    <3>1. /\ kept[s] \in Nat /\ Len(history[s]) \in Nat
          /\ \A j \in 1 .. Len(history[s]) : history[s][j] \in synced
      BY <2>1, AssetsBelow
    <3>2. i \in 1 .. Len(history[s])
      BY <2>1, <3>1
    <3>. QED  BY <3>1, <3>2
  <2>. QED  BY <2>1 DEF TargetNeverTorn
<1>. QED  BY <1>1, AssetStarts, AssetKept, PTL DEF Spec

(***************************************************************************)
(* What write_atomic_replace reports as saved survives every later crash   *)
(* and power loss, whatever else is saved under the same name.             *)
(***************************************************************************)
THEOREM SavedSurvives == Spec => []SavedIsDurable
<1>1. AssetInv => SavedIsDurable
  BY DEF AssetInv, SavedIsDurable, Among
<1>. QED  BY <1>1, AssetStarts, AssetKept, PTL DEF Spec

----------------------------------------------------------------------------

WriteStages == {"creating", "filling", "placing"}

\* A temporary file belongs to the task it is named for; what a task is about
\* to rename is whole.
CacheInv ==
  /\ job \in [Task -> Jobs]
  /\ DOMAIN files = Dir /\ DOMAIN stage = Task /\ DOMAIN dir = Task
  /\ \A t \in Task : stage[t] \in WriteStages => dir[t] \in Dir
  /\ \A d \in Dir : \A f \in files[d] :
       /\ f.name \in Task => f.by = f.name
       /\ f.name \in Key /\ f.by \in Task => f.whole
  /\ \A t \in Task : stage[t] = "placing" =>
       \A f \in files[dir[t]] : f.by = t => f.whole

LEMMA CacheStarts ==
  ASSUME Start
  PROVE  CacheInv
<1>1. PICK jobs \in [Task -> Jobs],
           left \in SUBSET [name : Key, at : Int, whole : BOOLEAN] :
        StoreInit(jobs, {Leftover(f) : f \in left})
  BY DEF Start
<1>2. /\ job \in [Task -> Jobs]
      /\ stage = [t \in Task |-> IF Does(t) = "nothing" THEN "done" ELSE "start"]
      /\ files = [d \in Dir |-> IF d = 1 THEN {Leftover(f) : f \in left} ELSE {}]
      /\ dir = [t \in Task |-> 0]
  BY <1>1 DEF StoreInit
<1>3. \A t \in Task : stage[t] \notin WriteStages /\ stage[t] # "placing"
  BY <1>2 DEF WriteStages
<1>4. ASSUME NEW d \in Dir, NEW f \in files[d]
      PROVE  f.name \in Key /\ f.by = "before"
  BY <1>2, <1>4 DEF Leftover, File
<1>. QED  BY <1>2, <1>3, <1>4, NamesAssumption DEF CacheInv

\* Steps that write nothing.
LEMMA CacheShrinks ==
  ASSUME CacheInv, NEW t \in Task, NEW s,
         stage' = [stage EXCEPT ![t] = s], s \notin WriteStages,
         job' = job, DOMAIN files' = Dir, DOMAIN dir' = Task,
         \A u \in Task \ {t} : dir'[u] = dir[u],
         \A d \in Dir : files'[d] \subseteq files[d]
  PROVE  CacheInv'
<1>1. \A u \in Task : stage'[u] \in WriteStages =>
        u # t /\ stage'[u] = stage[u] /\ dir'[u] = dir[u]
  BY DEF CacheInv
<1>2. DOMAIN stage' = Task
  BY DEF CacheInv
<1>3. ASSUME NEW u \in Task, stage'[u] = "placing", NEW f \in files'[dir'[u]], f.by = u
      PROVE  f.whole
  <2>1. stage[u] = "placing" /\ dir'[u] = dir[u] /\ dir[u] \in Dir
    BY <1>1, <1>3 DEF CacheInv, WriteStages
  <2>2. f \in files[dir[u]]
    BY <1>3, <2>1
  <2>. QED  BY <1>3, <2>1, <2>2 DEF CacheInv
<1>. QED  BY <1>1, <1>2, <1>3 DEF CacheInv, Dir

LEMMA CacheStepKept ==
  ASSUME CacheInv, AssetInv, NEW t \in Task, UseCache(t), job' = job
  PROVE  CacheInv'
<1>0. DOMAIN files = Dir /\ DOMAIN dir = Task /\ DOMAIN stage = Task
  BY DEF CacheInv
<1>1. CASE Read(t)
  <2>1. \E s : stage' = [stage EXCEPT ![t] = s] /\ s \notin WriteStages
    BY <1>1 DEF Read, TakeNow, OpenForRead, ReadEntry, ReopenRoot, DropEntry,
                GoTo, WriteStages
  <2>2. DOMAIN dir' = Task /\ \A u \in Task \ {t} : dir'[u] = dir[u]
    BY <1>0, <1>1 DEF Read, TakeNow, OpenForRead, ReadEntry, ReopenRoot, DropEntry
  <2>3. DOMAIN files' = Dir /\ \A d \in Dir : files'[d] \subseteq files[d]
    BY <1>0, <1>1 DEF Read, TakeNow, OpenForRead, ReadEntry, ReopenRoot, DropEntry,
                      Unlinked
  <2>. QED  BY <2>1, <2>2, <2>3, CacheShrinks
<1>2. CASE Prune(t)
  <2>1. \E s : stage' = [stage EXCEPT ![t] = s] /\ s \notin WriteStages
    <3>1. CASE LookAtNext(t) /\ UNCHANGED stage
      <4>1. stage[t] = "pruning" /\ stage' = [stage EXCEPT ![t] = "pruning"]
        BY <3>1 DEF LookAtNext, At, AssetInv
      <4>. QED  BY <4>1 DEF WriteStages
    <3>. QED  BY <1>2, <3>1 DEF Prune, OpenForPrune, LookAtNext, UnlinkStale,
                                EndPrune, GoTo, WriteStages
  <2>2. DOMAIN dir' = Task /\ \A u \in Task \ {t} : dir'[u] = dir[u]
    BY <1>0, <1>2 DEF Prune, OpenForPrune, LookAtNext, UnlinkStale, EndPrune
  <2>3. DOMAIN files' = Dir /\ \A d \in Dir : files'[d] \subseteq files[d]
    BY <1>0, <1>2 DEF Prune, OpenForPrune, LookAtNext, UnlinkStale, EndPrune,
                      Unlinked
  <2>. QED  BY <2>1, <2>2, <2>3, CacheShrinks
<1>3. CASE Clear(t)
  <2>1. \E s : stage' = [stage EXCEPT ![t] = s] /\ s \notin WriteStages
    BY <1>3 DEF Clear, LookAtRoot, Detach, Pin, VerifyPinned, UnlinkPinned,
                RemoveAside, Fails, GoTo, WriteStages
  <2>2. DOMAIN dir' = Task /\ \A u \in Task \ {t} : dir'[u] = dir[u]
    BY <1>0, <1>3 DEF Clear, LookAtRoot, Detach, Pin, VerifyPinned, UnlinkPinned,
                      RemoveAside
  <2>3. DOMAIN files' = Dir /\ \A d \in Dir : files'[d] \subseteq files[d]
    BY <1>0, <1>3 DEF Clear, LookAtRoot, Detach, Pin, VerifyPinned, UnlinkPinned,
                      RemoveAside, Unlinked
  <2>. QED  BY <2>1, <2>2, <2>3, CacheShrinks
<1>4. CASE Fetch(t)
  <2>1. \E s : stage' = [stage EXCEPT ![t] = s] /\ s \notin WriteStages
    BY <1>4 DEF Fetch, GoTo, WriteStages
  <2>. QED  BY <1>0, <1>4, <2>1, CacheShrinks DEF Fetch
<1>5. CASE OpenForWrite(t)
  <2>1. CASE GoTo(t, "done") /\ UNCHANGED dir
    <3>1. stage' = [stage EXCEPT ![t] = "done"] /\ "done" \notin WriteStages
      BY <2>1 DEF GoTo, WriteStages
    <3>. QED  BY <1>0, <1>5, <2>1, <3>1, CacheShrinks DEF OpenForWrite
  <2>2. CASE GoTo(t, "creating") /\ \E d \in Dir : dir' = [dir EXCEPT ![t] = d]
    <3>1. /\ stage' = [stage EXCEPT ![t] = "creating"] /\ files' = files
          /\ dir'[t] \in Dir /\ \A u \in Task \ {t} : dir'[u] = dir[u]
          /\ DOMAIN dir' = Task
      BY <1>0, <1>5, <2>2 DEF OpenForWrite, GoTo
    <3>2. \A u \in Task : stage'[u] = "placing" => u # t /\ stage[u] = "placing"
      BY <1>0, <3>1
    <3>3. \A u \in Task : stage'[u] \in WriteStages => dir'[u] \in Dir
      BY <1>0, <3>1 DEF CacheInv
    <3>. QED  BY <1>0, <3>1, <3>2, <3>3 DEF CacheInv, Dir
  <2>. QED  BY <1>5, <2>1, <2>2 DEF OpenForWrite, Root
<1>6. CASE CreateTemporary(t)
  <2>1. CASE GoTo(t, "done") /\ UNCHANGED files
    <3>1. stage' = [stage EXCEPT ![t] = "done"] /\ "done" \notin WriteStages
      BY <2>1 DEF GoTo, WriteStages
    <3>. QED  BY <1>0, <1>6, <2>1, <3>1, CacheShrinks DEF CreateTemporary
  <2>2. CASE GoTo(t, "filling")
              /\ files' = [files EXCEPT ![dir[t]] = (@ \ Named(dir[t], Temporary(t)))
                   \cup {File(Temporary(t), t, StampOf(t), got[t], FALSE)}]
    <3>. DEFINE new == File(t, t, StampOf(t), got[t], FALSE)
    <3>1. /\ stage' = [stage EXCEPT ![t] = "filling"] /\ dir' = dir
          /\ stage[t] = "creating" /\ dir[t] \in Dir
      BY <1>6, <2>2 DEF CreateTemporary, GoTo, At, CacheInv, WriteStages
    <3>2. new.name = t /\ new.by = t
      BY DEF File
    <3>3. /\ DOMAIN files' = Dir
          /\ \A d \in Dir : files'[d] \subseteq files[d] \cup {new}
      BY <1>0, <2>2, <3>1 DEF Temporary
    <3>. HIDE DEF new
    <3>4. \A u \in Task : stage'[u] = "placing" => u # t /\ stage[u] = "placing"
      BY <1>0, <3>1
    <3>5. t \notin Key
      BY NamesAssumption
    <3>. QED  BY <1>0, <3>1, <3>2, <3>3, <3>4, <3>5 DEF CacheInv, Dir, WriteStages
  <2>. QED  BY <1>6, <2>1, <2>2 DEF CreateTemporary
<1>7. CASE FillTemporary(t)
  <2>1. CASE GoTo(t, "done") /\ files' = Unlinked(dir[t], Temporary(t))
    <3>1. stage' = [stage EXCEPT ![t] = "done"] /\ "done" \notin WriteStages
      BY <2>1 DEF GoTo, WriteStages
    <3>2. DOMAIN files' = Dir /\ \A d \in Dir : files'[d] \subseteq files[d]
      BY <1>0, <2>1 DEF Unlinked
    <3>. QED  BY <1>0, <1>7, <3>1, <3>2, CacheShrinks DEF FillTemporary
  <2>2. CASE GoTo(t, "placing") /\ files' = [files EXCEPT ![dir[t]] =
                {IF f.by = t THEN Filled(f) ELSE f : f \in @}]
    <3>. DEFINE filled(f) == IF f.by = t THEN Filled(f) ELSE f
    <3>1. /\ stage' = [stage EXCEPT ![t] = "placing"] /\ dir' = dir
          /\ stage[t] = "filling" /\ dir[t] \in Dir
      BY <1>7, <2>2 DEF FillTemporary, GoTo, At, CacheInv, WriteStages
    <3>2. /\ DOMAIN files' = Dir
          /\ \A d \in Dir \ {dir[t]} : files'[d] = files[d]
          /\ files'[dir[t]] = {filled(f) : f \in files[dir[t]]}
      BY <1>0, <2>2, <3>1
    <3>3. ASSUME NEW f \in files[dir[t]]
          PROVE  /\ filled(f).name = f.name /\ filled(f).by = f.by
                 /\ f.whole => filled(f).whole
                 /\ f.by = t => filled(f).whole
      <4>1. CASE f.by = t
        BY <4>1 DEF Filled, File
      <4>2. CASE f.by # t
        BY <4>2
      <4>. QED  BY <4>1, <4>2
    <3>. HIDE DEF filled
    <3>4. ASSUME NEW d \in Dir, NEW g \in files'[d]
          PROVE  \E f \in files[d] :
                   /\ g.name = f.name /\ g.by = f.by
                   /\ f.whole => g.whole
                   /\ d = dir[t] /\ f.by = t => g.whole
      BY <3>2, <3>3, <3>4
    <3>5. \A u \in Task : stage'[u] = "placing" => u = t \/ stage[u] = "placing"
      BY <1>0, <3>1
    <3>6. ASSUME NEW u \in Task, stage'[u] = "placing", NEW g \in files'[dir[u]], g.by = u
          PROVE  g.whole
      <4>1. dir[u] \in Dir
        BY <3>1, <3>5, <3>6 DEF CacheInv, WriteStages
      <4>2. PICK f \in files[dir[u]] :
              /\ g.by = f.by
              /\ f.whole => g.whole
              /\ dir[u] = dir[t] /\ f.by = t => g.whole
        BY <3>4, <3>6, <4>1
      <4>3. CASE u = t
        BY <3>6, <4>2, <4>3
      <4>4. CASE stage[u] = "placing"
        BY <3>6, <4>1, <4>2, <4>4 DEF CacheInv
      <4>. QED  BY <3>5, <3>6, <4>3, <4>4
    <3>7. \A u \in Task : stage'[u] \in WriteStages => dir'[u] \in Dir
      BY <1>0, <3>1 DEF CacheInv
    <3>8. \A d \in Dir : \A g \in files'[d] :
            /\ g.name \in Task => g.by = g.name
            /\ g.name \in Key /\ g.by \in Task => g.whole
      BY <3>4 DEF CacheInv
    <3>. QED  BY <1>0, <3>1, <3>2, <3>6, <3>7, <3>8 DEF CacheInv, Dir
  <2>. QED  BY <1>7, <2>1, <2>2 DEF FillTemporary
<1>8. CASE PutInPlace(t)
  <2>. DEFINE key == job[t].key
              mine == Named(dir[t], Temporary(t))
              placed == {Renamed(f, key) : f \in mine}
  <2>1. /\ stage' = [stage EXCEPT ![t] = "done"] /\ "done" \notin WriteStages
        /\ stage[t] = "placing" /\ dir' = dir /\ dir[t] \in Dir
    BY <1>8 DEF PutInPlace, GoTo, At, CacheInv, WriteStages
  <2>2. CASE files' = files
    BY <1>0, <2>1, <2>2, CacheShrinks
  <2>3. CASE files' = [files EXCEPT ![dir[t]] =
                         (@ \ (mine \cup Named(dir[t], key))) \cup placed]
    <3>1. /\ DOMAIN files' = Dir
          /\ \A d \in Dir : files'[d] \subseteq files[d] \cup placed
          /\ \A d \in Dir \ {dir[t]} : files'[d] = files[d]
      BY <1>0, <2>1, <2>3
    <3>2. \A f \in mine : f \in files[dir[t]] /\ f.name = t /\ f.by = t /\ f.whole
      BY <2>1 DEF Named, Temporary, CacheInv
    <3>3. ASSUME NEW g \in placed
          PROVE  g.name = key /\ g.by = t /\ g.whole
      <4>1. PICK f \in mine : g = Renamed(f, key)
        BY <3>3
      <4>. QED  BY <3>2, <4>1 DEF Renamed, File
    <3>4. key \notin Task
      BY NamesAssumption DEF CacheInv, Jobs
    <3>. HIDE DEF placed, key, mine
    <3>5. \A d \in Dir : \A g \in files'[d] :
            /\ g.name \in Task => g.by = g.name
            /\ g.name \in Key /\ g.by \in Task => g.whole
      BY <3>1, <3>3, <3>4 DEF CacheInv
    <3>6. ASSUME NEW u \in Task, stage'[u] = "placing", NEW g \in files'[dir[u]], g.by = u
          PROVE  g.whole
      <4>1. stage[u] = "placing" /\ dir[u] \in Dir
        BY <1>0, <2>1, <3>6 DEF CacheInv, WriteStages
      <4>. QED  BY <3>1, <3>3, <3>6, <4>1 DEF CacheInv
    <3>7. \A u \in Task : stage'[u] \in WriteStages => dir'[u] \in Dir
      BY <1>0, <2>1 DEF CacheInv
    <3>. QED  BY <1>0, <2>1, <3>1, <3>5, <3>6, <3>7 DEF CacheInv, Dir
  <2>. QED  BY <1>8, <2>2, <2>3 DEF PutInPlace
<1>. QED  BY <1>1, <1>2, <1>3, <1>4, <1>5, <1>6, <1>7, <1>8 DEF UseCache, Write

LEMMA CacheKept ==
  ASSUME CacheInv, AssetInv, [Next]_vars
  PROVE  CacheInv'
<1>0. DOMAIN files = Dir /\ DOMAIN dir = Task /\ DOMAIN stage = Task
  BY DEF CacheInv
<1>1. ASSUME NEW t \in Task, NEW s, stage' = [stage EXCEPT ![t] = s],
             s \notin WriteStages, UNCHANGED <<job, cacheVars>>
      PROVE  CacheInv'
  BY <1>0, <1>1, CacheShrinks DEF cacheVars
<1>2. ASSUME NEW t \in Task, Acquire(t), UNCHANGED cacheVars
      PROVE  CacheInv'
  <2>1. PICK s \in ElseStages : stage' = [stage EXCEPT ![t] = s]
          /\ s \in {"locking", "granted", "sleeping", "asking"}
    BY <1>2 DEF Acquire, ReadClock, Grant, Postpone, Wake, GoTo, ElseStages
  <2>. QED  BY <1>1, <1>2, <2>1, AcquireStages DEF WriteStages
<1>3. ASSUME NEW t \in Task, Download(t), UNCHANGED <<job, cacheVars>>
      PROVE  CacheInv'
  <2>1. \E s \in {"asking", "done"} \cup SaveStages : stage' = [stage EXCEPT ![t] = s]
    BY <1>3 DEF Download, StartDownload, FetchImage, LookAtTarget, WriteBytes,
                Persist, SyncDirectory, EndsAs, GoTo, SaveStages
  <2>2. ({"asking", "done"} \cup SaveStages) \cap WriteStages = {}
    BY DEF SaveStages, WriteStages
  <2>. QED  BY <1>1, <1>3, <2>1, <2>2
<1>4. ASSUME NEW lost \in SUBSET Task, Die(lost), UNCHANGED <<job, files, dir>>
      PROVE  CacheInv'
  <2>1. \A u \in Task : stage'[u] \in WriteStages => stage[u] = stage'[u]
    BY <1>4 DEF Die, WriteStages
  <2>2. DOMAIN stage' = Task
    BY <1>4 DEF Die
  <2>. QED  BY <1>4, <2>1, <2>2 DEF CacheInv, WriteStages, Dir
<1>5. ASSUME NEW p \in Process, Crash(p)
      PROVE  CacheInv'
  <2>. DEFINE lost == {t \in Task : Home(t) = p}
  <2>1. lost \in SUBSET Task /\ Die(lost) /\ UNCHANGED <<job, files, dir>>
    BY <1>5 DEF Crash
  <2>. QED  BY <1>4, <2>1
<1>6. CASE PowerLoss
  BY <1>4, <1>6 DEF PowerLoss
<1>7. CASE Tick \/ UNCHANGED vars
  <2>1. UNCHANGED <<job, stage, files, dir>>
    BY <1>7 DEF Tick, vars, cacheVars
  <2>. QED  BY <2>1 DEF CacheInv, Dir
<1>. QED  BY <1>2, <1>3, <1>5, <1>6, <1>7, CacheStepKept DEF Next, Step

(***************************************************************************)
(* Whichever processes write, prune, clear or die, an entry that can be    *)
(* found under its key is whole: cache_fs::write fills and syncs another   *)
(* name first.                                                             *)
(***************************************************************************)
THEOREM EntriesWhole == Spec => []EntriesAreWhole
<1>1. CacheInv => EntriesAreWhole
  BY DEF CacheInv, EntriesAreWhole
<1>. QED  BY <1>1, AssetStarts, AssetKept, CacheStarts, CacheKept, PTL DEF Spec

----------------------------------------------------------------------------

Emptying(t) == Does(t) = "clear" /\ stage[t] \in {"pinning", "clearing", "unlinking"}

\* A clear works in a directory that will never again be the root.
ClearInv ==
  /\ DOMAIN place = Dir /\ DOMAIN stage = Task
  /\ \A t \in Task : stage[t] = "pruning" => Does(t) = "prune"
  /\ \A t \in Task : Emptying(t) =>
       dir[t] \in Dir /\ place[dir[t]] \in {"aside", "removed"}

LEMMA ClearStarts ==
  ASSUME Start
  PROVE  ClearInv
<1>1. PICK jobs \in [Task -> Jobs],
           left \in SUBSET [name : Key, at : Int, whole : BOOLEAN] :
        StoreInit(jobs, {Leftover(f) : f \in left})
  BY DEF Start
<1>2. /\ stage = [t \in Task |-> IF Does(t) = "nothing" THEN "done" ELSE "start"]
      /\ DOMAIN place = Dir
  BY <1>1 DEF StoreInit
<1>. QED  BY <1>2 DEF ClearInv, Emptying

\* Where directories go, none comes back from.
LEMMA PlacesMoveOn ==
  ASSUME ClearInv, CacheInv, NEW t \in Task, UseCache(t)
  PROVE  /\ DOMAIN place' = Dir
         /\ \A d \in Dir : place[d] \in {"aside", "removed"} =>
                             place'[d] \in {"aside", "removed"}
<1>1. CASE Read(t)
  BY <1>1 DEF ClearInv, Read, TakeNow, OpenForRead, ReadEntry, ReopenRoot, DropEntry
<1>2. CASE Write(t)
  BY <1>2 DEF ClearInv, Write, Fetch, OpenForWrite, CreateTemporary,
              FillTemporary, PutInPlace
<1>3. CASE Prune(t)
  BY <1>3 DEF ClearInv, Prune, OpenForPrune, LookAtNext, UnlinkStale, EndPrune
<1>4. CASE Clear(t)
  BY <1>4 DEF ClearInv, Clear, LookAtRoot, Detach, Pin, VerifyPinned,
              UnlinkPinned, RemoveAside, Aside
<1>. QED  BY <1>1, <1>2, <1>3, <1>4 DEF UseCache

LEMMA ClearStepKept ==
  ASSUME ClearInv, CacheInv, NEW t \in Task, UseCache(t), job' = job
  PROVE  ClearInv'
<1>0. DOMAIN place = Dir /\ DOMAIN stage = Task
  BY DEF ClearInv
<1>1. /\ DOMAIN stage' = Task
      /\ \A u \in Task \ {t} : stage'[u] = stage[u] /\ dir'[u] = dir[u]
  <2>0. DOMAIN dir = Task
    BY DEF CacheInv
  <2>1. DOMAIN stage' = Task /\ \A u \in Task \ {t} : stage'[u] = stage[u]
    BY <1>0, CacheStages
  <2>2. \A u \in Task \ {t} : dir'[u] = dir[u]
    <3>1. CASE Read(t)
      BY <2>0, <3>1 DEF Read, TakeNow, OpenForRead, ReadEntry, ReopenRoot, DropEntry
    <3>2. CASE Write(t)
      BY <2>0, <3>2 DEF Write, Fetch, OpenForWrite, CreateTemporary,
                        FillTemporary, PutInPlace
    <3>3. CASE Prune(t)
      BY <2>0, <3>3 DEF Prune, OpenForPrune, LookAtNext, UnlinkStale, EndPrune
    <3>4. CASE Clear(t)
      BY <2>0, <3>4 DEF Clear, LookAtRoot, Detach, Pin, VerifyPinned,
                        UnlinkPinned, RemoveAside
    <3>. QED  BY <3>1, <3>2, <3>3, <3>4 DEF UseCache
  <2>. QED  BY <2>1, <2>2
<1>4. \A u \in Task : stage'[u] = "pruning" => Does(u)' = "prune"
  <2>1. stage'[t] = "pruning" => Does(t) = "prune"
    <3>1. CASE Read(t)
      BY <1>0, <3>1 DEF Read, TakeNow, OpenForRead, ReadEntry, ReopenRoot, DropEntry, GoTo
    <3>2. CASE Write(t)
      BY <1>0, <3>2 DEF Write, Fetch, OpenForWrite, CreateTemporary,
                        FillTemporary, PutInPlace, GoTo
    <3>3. CASE Prune(t)
      BY <1>0, <3>3 DEF Prune, OpenForPrune, LookAtNext, UnlinkStale, EndPrune, GoTo,
                        ClearInv
    <3>4. CASE Clear(t)
      BY <1>0, <3>4 DEF Clear, LookAtRoot, Detach, Pin, VerifyPinned,
                        UnlinkPinned, RemoveAside, Fails, GoTo
    <3>. QED  BY <3>1, <3>2, <3>3, <3>4 DEF UseCache
  <2>. QED  BY <1>1, <2>1 DEF ClearInv, Does
<1>2. Emptying(t)' => dir'[t] \in Dir /\ place'[dir'[t]] \in {"aside", "removed"}
  <2>1. CASE Read(t)
    BY <1>0, <2>1 DEF Read, TakeNow, OpenForRead, ReadEntry, ReopenRoot, DropEntry,
                      GoTo, Emptying
  <2>2. CASE Write(t)
    BY <1>0, <2>2 DEF Write, Fetch, OpenForWrite, CreateTemporary,
                      FillTemporary, PutInPlace, GoTo, Emptying
  <2>3. CASE OpenForPrune(t) \/ UnlinkStale(t) \/ EndPrune(t)
    BY <1>0, <2>3 DEF OpenForPrune, UnlinkStale, EndPrune, GoTo, Emptying, Does
  <2>4. CASE LookAtNext(t)
    <3>1. Does(t) = "prune"
      BY <2>4 DEF LookAtNext, At, ClearInv
    <3>. QED  BY <3>1 DEF Emptying, Does
  <2>5. CASE LookAtRoot(t)
    BY <1>0, <2>5 DEF LookAtRoot, GoTo, Emptying
  <2>6. CASE Detach(t)
    <3>1. CASE Fails(t)
      BY <1>0, <3>1 DEF Fails, GoTo, Emptying
    <3>2. CASE \E d \in Root : place' = Aside(d) /\ d = dir[t] /\ dir' = dir
      BY <1>0, <3>2 DEF Aside, Root
    <3>. QED  BY <2>6, <3>1, <3>2 DEF Detach
  <2>7. CASE Pin(t) \/ VerifyPinned(t) \/ UnlinkPinned(t) \/ RemoveAside(t)
    <3>1. CASE Does(t) = "clear"
      <4>1. Emptying(t) /\ dir' = dir
        BY <2>7, <3>1 DEF Pin, VerifyPinned, UnlinkPinned, RemoveAside, At, Emptying
      <4>2. UseCache(t)
        OBVIOUS
      <4>. QED  BY <4>1, PlacesMoveOn DEF ClearInv
    <3>2. CASE Does(t) # "clear"
      BY <3>2 DEF Emptying, Does
    <3>. QED  BY <3>1, <3>2
  <2>. QED  BY <2>1, <2>2, <2>3, <2>4, <2>5, <2>6, <2>7 DEF UseCache, Prune, Clear
<1>3. ASSUME NEW u \in Task, u # t, Emptying(u)'
      PROVE  dir'[u] \in Dir /\ place'[dir'[u]] \in {"aside", "removed"}
  <2>1. Emptying(u) /\ dir'[u] = dir[u]
    BY <1>1, <1>3 DEF Emptying, Does
  <2>. QED  BY <2>1, PlacesMoveOn DEF ClearInv
<1>. QED  BY <1>1, <1>2, <1>3, <1>4, PlacesMoveOn DEF ClearInv, Dir

LEMMA ClearKept ==
  ASSUME ClearInv, CacheInv, AssetInv, [Next]_vars
  PROVE  ClearInv'
<1>1. ASSUME NEW t \in Task, NEW s, stage' = [stage EXCEPT ![t] = s],
             s \notin {"pinning", "clearing", "unlinking", "pruning"},
             UNCHANGED <<job, place, dir>>
      PROVE  ClearInv'
  BY <1>1 DEF ClearInv, Emptying, Does, Dir
<1>2. ASSUME NEW t \in Task, Acquire(t), UNCHANGED cacheVars
      PROVE  ClearInv'
  <2>1. PICK s \in {"locking", "granted", "sleeping", "asking"} :
          stage' = [stage EXCEPT ![t] = s]
    BY <1>2 DEF Acquire, ReadClock, Grant, Postpone, Wake, GoTo
  <2>2. UNCHANGED <<job, place, dir>>
    BY <1>2, AcquireStages DEF cacheVars
  <2>. QED  BY <1>1, <2>1, <2>2
<1>3. ASSUME NEW t \in Task, Download(t), UNCHANGED <<job, cacheVars>>
      PROVE  ClearInv'
  <2>1. PICK s \in {"asking", "done"} \cup SaveStages : stage' = [stage EXCEPT ![t] = s]
    BY <1>3 DEF Download, StartDownload, FetchImage, LookAtTarget, WriteBytes,
                Persist, SyncDirectory, EndsAs, GoTo, SaveStages
  <2>2. s \notin {"pinning", "clearing", "unlinking", "pruning"}
    BY DEF SaveStages
  <2>3. UNCHANGED <<job, place, dir>>
    BY <1>3 DEF cacheVars
  <2>. QED  BY <1>1, <2>1, <2>2, <2>3
<1>4. ASSUME NEW lost \in SUBSET Task, Die(lost), UNCHANGED <<job, place, dir>>
      PROVE  ClearInv'
  <2>1. \A u \in Task : stage'[u] \in {"dead", stage[u]}
    BY <1>4 DEF Die
  <2>2. DOMAIN stage' = Task
    BY <1>4 DEF Die
  <2>. QED  BY <1>4, <2>1, <2>2 DEF ClearInv, Emptying, Does, Dir
<1>5. ASSUME NEW p \in Process, Crash(p)
      PROVE  ClearInv'
  <2>. DEFINE lost == {t \in Task : Home(t) = p}
  <2>1. lost \in SUBSET Task /\ Die(lost) /\ UNCHANGED <<job, place, dir>>
    BY <1>5 DEF Crash
  <2>. QED  BY <1>4, <2>1
<1>6. CASE PowerLoss
  BY <1>4, <1>6 DEF PowerLoss
<1>7. CASE Tick \/ UNCHANGED vars
  <2>1. UNCHANGED <<job, stage, place, dir>>
    BY <1>7 DEF Tick, vars, cacheVars
  <2>. QED  BY <2>1 DEF ClearInv, Emptying, Does, Dir
<1>. QED  BY <1>2, <1>3, <1>5, <1>6, <1>7, ClearStepKept DEF Next, Step

(***************************************************************************)
(* A cache clear never takes anything out of the directory that is the     *)
(* root at that moment: detach_root moves its own away first, and nothing  *)
(* brings it back.                                                         *)
(***************************************************************************)
THEOREM ClearSpares == Spec => ClearSparesTheNewRoot
<1>. DEFINE Spares ==
       \A t \in Task :
         /\ At(t, "unlinking") /\ Does(t) = "clear" /\ stage'[t] # stage[t]
         => \A d \in Root : files[d] \subseteq files'[d]
<1>1. ASSUME ClearInv, CacheInv, [Next]_vars
      PROVE  Spares
  <2>1. SUFFICES ASSUME NEW t \in Task, At(t, "unlinking"), Does(t) = "clear",
                        stage'[t] # stage[t], NEW d \in Root
                 PROVE  files[d] \subseteq files'[d]
    OBVIOUS
  <2>2. Emptying(t) /\ dir[t] # d /\ d \in Dir /\ DOMAIN files = Dir
    BY <1>1, <2>1 DEF ClearInv, CacheInv, Emptying, At, Root
  <2>3. ASSUME NEW u \in Task, u # t, UseCache(u)
        PROVE  FALSE
    BY <1>1, <2>1, <2>3, CacheStages DEF ClearInv
  <2>4. CASE UseCache(t)
    <3>1. UnlinkPinned(t)
      BY <2>1, <2>4 DEF UseCache, Read, TakeNow, OpenForRead, ReadEntry, ReopenRoot,
           DropEntry, Write, Fetch, OpenForWrite, CreateTemporary, FillTemporary,
           PutInPlace, Prune, OpenForPrune, LookAtNext, UnlinkStale, EndPrune,
           Clear, LookAtRoot, Detach, Pin, VerifyPinned, RemoveAside, At
    <3>. QED  BY <2>2, <3>1 DEF UnlinkPinned, Unlinked
  <2>5. CASE UNCHANGED files
    BY <2>5
  <2>6. CASE \E u \in Task : UseCache(u)
    BY <2>3, <2>4, <2>6
  <2>. QED  BY <1>1, <2>5, <2>6 DEF Next, Step, Tick, Crash, PowerLoss, vars, cacheVars
<1>2. Spec => [][Spares]_vars
  BY <1>1, AssetStarts, AssetKept, CacheStarts, CacheKept, ClearStarts, ClearKept,
     PTL DEF Spec
<1>. QED  BY <1>2 DEF ClearSparesTheNewRoot
----------------------------------------------------------------------------

\* Between entering and leaving CACHE_OPERATIONS.
HoldStages == {"reading", "stale", "dropping", "pruning", "detaching"} \cup WriteStages
Removing(t) == stage[t] = "unlinking" /\ Does(t) = "prune"
Holding(t) == stage[t] \in HoldStages \/ Removing(t)

GuardInv ==
  /\ DOMAIN stage = Task
  /\ \A t \in Task : Holding(t) => t \in guarded
  /\ \A t, u \in Task : t \in guarded /\ u \in guarded /\ Home(t) = Home(u) => t = u
  /\ \A t \in Task : stage[t] \in {"detaching", "pinning", "clearing"} =>
       Does(t) = "clear"

LEMMA GuardStarts ==
  ASSUME Start
  PROVE  GuardInv
<1>1. PICK jobs \in [Task -> Jobs],
           left \in SUBSET [name : Key, at : Int, whole : BOOLEAN] :
        StoreInit(jobs, {Leftover(f) : f \in left})
  BY DEF Start
<1>2. /\ stage = [t \in Task |-> IF Does(t) = "nothing" THEN "done" ELSE "start"]
      /\ guarded = {}
  BY <1>1 DEF StoreInit
<1>. QED  BY <1>2 DEF GuardInv, Holding, Removing, HoldStages, WriteStages

\* What a step does to the guard of its process.
LEMMA GuardMoves ==
  ASSUME GuardInv, NEW t \in Task, UseCache(t)
  PROVE  /\ DOMAIN stage' = Task /\ \A u \in Task \ {t} : stage'[u] = stage[u]
         /\ \/ guarded' = guarded /\ (stage'[t] \in HoldStages => Holding(t))
               /\ (stage'[t] = "unlinking" /\ Does(t) = "prune" => Holding(t))
            \/ MayEnter(t) /\ Entered(t)
            \/ Left(t) /\ stage'[t] \notin HoldStages \cup {"unlinking"}
         /\ stage'[t] \in {"detaching", "pinning", "clearing"} => Does(t) = "clear"
<1>. USE DEF GoTo, At
<1>0. DOMAIN stage = Task
  BY DEF GuardInv
<1>1. DOMAIN stage' = Task /\ \A u \in Task \ {t} : stage'[u] = stage[u]
  BY <1>0, CacheStages
<1>2. CASE TakeNow(t) \/ OpenForRead(t) \/ ReadEntry(t) \/ ReopenRoot(t) \/ DropEntry(t)
  BY <1>0, <1>1, <1>2 DEF TakeNow, OpenForRead, ReadEntry, ReopenRoot, DropEntry,
              Holding, Removing, HoldStages, WriteStages
<1>3. CASE Write(t)
  BY <1>0, <1>1, <1>3 DEF Write, Fetch, OpenForWrite, CreateTemporary, FillTemporary,
              PutInPlace, Holding, Removing, HoldStages, WriteStages
<1>4. CASE Prune(t)
  BY <1>0, <1>1, <1>4 DEF Prune, OpenForPrune, LookAtNext, UnlinkStale, EndPrune,
              Holding, Removing, HoldStages, WriteStages
<1>5. CASE Clear(t)
  BY <1>0, <1>1, <1>5 DEF Clear, LookAtRoot, Detach, Pin, VerifyPinned, UnlinkPinned,
              RemoveAside, Fails, GuardInv, Holding, Removing, HoldStages, WriteStages
<1>. QED  BY <1>2, <1>3, <1>4, <1>5 DEF UseCache, Read

LEMMA GuardKept ==
  ASSUME GuardInv, AssetInv, [Next]_vars
  PROVE  GuardInv'
<1>1. ASSUME NEW t \in Task, UseCache(t), job' = job
      PROVE  GuardInv'
  <2>1. /\ DOMAIN stage' = Task
        /\ \A u \in Task \ {t} : stage'[u] = stage[u]
    BY <1>1, GuardMoves DEF GuardInv
  <2>2. \A u \in Task : Home(u)' = Home(u) /\ Does(u)' = Does(u)
    BY <1>1 DEF Home, Does
  <2>3. CASE MayEnter(t) /\ Entered(t)
    BY <1>1, <2>1, <2>2, <2>3, GuardMoves
       DEF GuardInv, Holding, Removing, MayEnter, Entered, Siblings
  <2>4. CASE Left(t) /\ stage'[t] \notin HoldStages \cup {"unlinking"}
    BY <1>1, <2>1, <2>2, <2>4, GuardMoves DEF GuardInv, Holding, Removing, Left
  <2>5. CASE /\ guarded' = guarded /\ (stage'[t] \in HoldStages => Holding(t))
             /\ (stage'[t] = "unlinking" /\ Does(t) = "prune" => Holding(t))
    BY <1>1, <2>1, <2>2, <2>5, GuardMoves DEF GuardInv, Holding, Removing
  <2>. QED  BY <1>1, <2>3, <2>4, <2>5, GuardMoves
<1>2. ASSUME NEW t \in Task, NEW s, stage' = [stage EXCEPT ![t] = s],
             s \notin HoldStages \cup {"unlinking", "pinning", "clearing"},
             UNCHANGED <<job, guarded>>
      PROVE  GuardInv'
  BY <1>2 DEF GuardInv, Holding, Removing, HoldStages, Home, Does
<1>3. ASSUME NEW t \in Task, Acquire(t), UNCHANGED cacheVars
      PROVE  GuardInv'
  <2>1. PICK s \in {"locking", "granted", "sleeping", "asking"} :
          stage' = [stage EXCEPT ![t] = s]
    BY <1>3 DEF Acquire, ReadClock, Grant, Postpone, Wake, GoTo
  <2>2. UNCHANGED <<job, guarded>>
    BY <1>3, AcquireStages DEF cacheVars
  <2>. QED  BY <1>2, <2>1, <2>2 DEF HoldStages, WriteStages
<1>4. ASSUME NEW t \in Task, Download(t), UNCHANGED <<job, cacheVars>>
      PROVE  GuardInv'
  <2>1. PICK s \in {"asking", "done"} \cup SaveStages : stage' = [stage EXCEPT ![t] = s]
    BY <1>4 DEF Download, StartDownload, FetchImage, LookAtTarget, WriteBytes,
                Persist, SyncDirectory, EndsAs, GoTo, SaveStages
  <2>2. s \notin HoldStages \cup {"unlinking", "pinning", "clearing"}
    BY DEF SaveStages, HoldStages, WriteStages
  <2>3. UNCHANGED <<job, guarded>>
    BY <1>4 DEF cacheVars
  <2>. QED  BY <1>2, <2>1, <2>2, <2>3
<1>5. ASSUME NEW lost \in SUBSET Task, Die(lost), job' = job,
             guarded' = guarded \ lost
      PROVE  GuardInv'
  <2>1. DOMAIN stage' = Task
    BY <1>5 DEF Die
  <2>2. ASSUME NEW u \in Task, stage'[u] \notin {"dead", "done"}
        PROVE  u \notin lost /\ stage'[u] = stage[u]
    BY <1>5, <2>2 DEF Die, Ended
  <2>3. \A u \in Task : stage'[u] \in HoldStages \cup {"unlinking", "pinning", "clearing"}
          => u \notin lost /\ stage'[u] = stage[u]
    BY <2>2 DEF HoldStages, WriteStages
  <2>4. \A u \in Task : Home(u)' = Home(u) /\ Does(u)' = Does(u)
    BY <1>5 DEF Home, Does
  <2>. QED  BY <1>5, <2>1, <2>3, <2>4 DEF GuardInv, Holding, Removing, HoldStages
<1>6. ASSUME NEW p \in Process, Crash(p)
      PROVE  GuardInv'
  <2>. DEFINE lost == {t \in Task : Home(t) = p}
  <2>1. lost \in SUBSET Task /\ Die(lost) /\ job' = job /\ guarded' = guarded \ lost
    BY <1>6 DEF Crash
  <2>. QED  BY <1>5, <2>1
<1>7. CASE PowerLoss
  <2>1. Die(Task) /\ job' = job /\ guarded' = {}
    BY <1>7 DEF PowerLoss
  <2>2. DOMAIN stage' = Task /\ \A u \in Task : stage'[u] \in {"dead", "done"}
    BY <2>1 DEF Die, Ended
  <2>. QED  BY <2>1, <2>2 DEF GuardInv, Holding, Removing, HoldStages, WriteStages
<1>8. CASE Tick \/ UNCHANGED vars
  <2>1. UNCHANGED <<job, stage, guarded>>
    BY <1>8 DEF Tick, vars, cacheVars
  <2>. QED  BY <2>1 DEF GuardInv, Holding, Removing, Home, Does
<1>. QED  BY <1>1, <1>3, <1>4, <1>6, <1>7, <1>8 DEF Next, Step

----------------------------------------------------------------------------

\* One directory at most is the root, a name stands for one file of a task,
\* and nothing is in a directory that was not made.
RootInv ==
  /\ DOMAIN place = Dir
  /\ \A d, e \in Root : d = e
  /\ \A d \in Dir : place[d] = "unmade" => files[d] = {}
  /\ \A t \in Task : stage[t] \in WriteStages => place[dir[t]] # "unmade"
  /\ \A d \in Dir : \A f, g \in files[d] :
       f.by \in Task /\ f.name = g.name => f = g

LEMMA RootStarts ==
  ASSUME Start
  PROVE  RootInv
<1>1. PICK jobs \in [Task -> Jobs],
           left \in SUBSET [name : Key, at : Int, whole : BOOLEAN] :
        StoreInit(jobs, {Leftover(f) : f \in left})
  BY DEF Start
<1>. DEFINE old == {Leftover(f) : f \in left}
<1>2. /\ stage = [t \in Task |-> IF Does(t) = "nothing" THEN "done" ELSE "start"]
      /\ place = [d \in Dir |-> IF d = 1 /\ old # {} THEN "root" ELSE "unmade"]
      /\ files = [d \in Dir |-> IF d = 1 THEN old ELSE {}]
  BY <1>1 DEF StoreInit
<1>3. \A f \in old : f.by = "before"
  BY DEF Leftover, File
<1>. HIDE DEF old
<1>4. \A d \in Dir : files[d] \subseteq old
  BY <1>2
<1>5. \A t \in Task : stage[t] \notin WriteStages
  BY <1>2 DEF WriteStages
<1>6. \A d \in Root : d = 1
  BY <1>2 DEF Root
<1>7. \A d \in Dir : place[d] = "unmade" => files[d] = {}
  BY <1>2
<1>. QED  BY <1>2, <1>3, <1>4, <1>5, <1>6, <1>7, NamesAssumption DEF RootInv

\* How the directories change places: none is unmade again.
LEMMA PlaceChanges ==
  ASSUME RootInv, NEW t \in Task, UseCache(t)
  PROVE  \/ place' = place
         \/ \E d \in Dir : /\ place' = [place EXCEPT ![d] = "root"]
                           /\ Root = {} /\ place[d] = "unmade" /\ files' = files
         \/ \E d, s : /\ place' = [place EXCEPT ![d] = s]
                      /\ s \in {"aside", "removed"} /\ files' = files
<1>1. CASE Read(t)
  BY <1>1 DEF Read, TakeNow, OpenForRead, ReadEntry, ReopenRoot, DropEntry
<1>2. CASE Write(t)
  BY <1>2 DEF Write, Fetch, OpenForWrite, CreateTemporary, FillTemporary, PutInPlace
<1>3. CASE Prune(t)
  BY <1>3 DEF Prune, OpenForPrune, LookAtNext, UnlinkStale, EndPrune
<1>4. CASE Clear(t)
  <2>1. CASE Detach(t)
    BY <2>1 DEF Detach, Aside
  <2>2. CASE RemoveAside(t)
    BY <2>2 DEF RemoveAside
  <2>. QED  BY <1>4, <2>1, <2>2 DEF Clear, LookAtRoot, Pin, VerifyPinned, UnlinkPinned
<1>. QED  BY <1>1, <1>2, <1>3, <1>4 DEF UseCache

WritesFile(t) == CreateTemporary(t) \/ FillTemporary(t) \/ PutInPlace(t)

\* Only a writer adds files, its own, and it keeps the names apart.
LEMMA FilesWritten ==
  ASSUME CacheInv, RootInv, NEW t \in Task, WritesFile(t)
  PROVE  /\ stage[t] \in WriteStages /\ dir[t] \in Dir /\ DOMAIN files' = Dir
         /\ \A d \in Dir \ {dir[t]} : files'[d] = files[d]
         /\ \A g \in files'[dir[t]] : g \in files[dir[t]] \/ g.by = t
         /\ \A f, g \in files'[dir[t]] : f.by \in Task /\ f.name = g.name => f = g
<1>. DEFINE d == dir[t]
<1>0. /\ stage[t] \in WriteStages /\ d \in Dir /\ DOMAIN files = Dir
      /\ \A f, g \in files[d] : f.by \in Task /\ f.name = g.name => f = g
  BY DEF WritesFile, CreateTemporary, FillTemporary, PutInPlace, At, WriteStages,
         CacheInv, RootInv
<1>1. ASSUME NEW rest, files' = [files EXCEPT ![d] = rest],
             \A g \in rest : g \in files[d] \/ g.by = t,
             \A f, g \in rest : f.by \in Task /\ f.name = g.name => f = g
      PROVE  /\ DOMAIN files' = Dir
             /\ \A e \in Dir \ {d} : files'[e] = files[e]
             /\ \A g \in files'[d] : g \in files[d] \/ g.by = t
             /\ \A f, g \in files'[d] : f.by \in Task /\ f.name = g.name => f = g
  BY <1>0, <1>1
<1>2. \A rest \in SUBSET files[d] :
        \A f, g \in rest : f.by \in Task /\ f.name = g.name => f = g
  BY <1>0
<1>3. CASE files' = files
  BY <1>0, <1>3
<1>4. CASE CreateTemporary(t)
  <2>. DEFINE new == File(t, t, StampOf(t), got[t], FALSE)
              rest == (files[d] \ Named(d, t)) \cup {new}
  <2>1. files' = files \/ files' = [files EXCEPT ![d] = rest]
    BY <1>4 DEF CreateTemporary, Temporary
  <2>2. new.name = t /\ new.by = t
    BY DEF File
  <2>. HIDE DEF new
  <2>3. \A f \in files[d] \ Named(d, t) : f.name # t
    BY DEF Named
  <2>4. /\ \A g \in rest : g \in files[d] \/ g.by = t
        /\ \A f, g \in rest : f.by \in Task /\ f.name = g.name => f = g
    BY <1>0, <2>2, <2>3
  <2>. QED  BY <1>0, <1>1, <1>3, <2>1, <2>4
<1>5. CASE FillTemporary(t)
  <2>. DEFINE filled(f) == IF f.by = t THEN Filled(f) ELSE f
              rest == {filled(f) : f \in files[d]}
  <2>1. \/ files' = [files EXCEPT ![d] = files[d] \ Named(d, t)]
        \/ files' = [files EXCEPT ![d] = rest]
    BY <1>5 DEF FillTemporary, Unlinked, Temporary
  <2>2. ASSUME NEW f \in files[d]
        PROVE  /\ filled(f).name = f.name /\ filled(f).by = f.by
               /\ filled(f) = f \/ filled(f).by = t
    BY DEF Filled, File
  <2>. HIDE DEF filled
  <2>3. /\ \A g \in rest : g \in files[d] \/ g.by = t
        /\ \A f, g \in rest : f.by \in Task /\ f.name = g.name => f = g
    BY <1>0, <2>2
  <2>4. /\ \A g \in files[d] \ Named(d, t) : g \in files[d] \/ g.by = t
        /\ \A f, g \in files[d] \ Named(d, t) : f.by \in Task /\ f.name = g.name => f = g
    BY <1>0
  <2>. HIDE DEF rest
  <2>. QED  BY <1>0, <1>1, <2>1, <2>3, <2>4
<1>6. CASE PutInPlace(t)
  <2>. DEFINE key == job[t].key
              mine == Named(d, t)
              placed == {Renamed(f, key) : f \in mine}
              rest == (files[d] \ (mine \cup Named(d, key))) \cup placed
  <2>1. files' = files \/ files' = [files EXCEPT ![d] = rest]
    BY <1>6 DEF PutInPlace, Temporary
  <2>2. \A f \in mine : f \in files[d] /\ f.name = t /\ f.by = t
    BY <1>0 DEF Named, CacheInv
  <2>3. \A f, g \in mine : f = g
    BY <1>0, <2>2
  <2>4. ASSUME NEW g \in placed PROVE g.name = key /\ g.by = t
    BY <2>2 DEF Renamed, File
  <2>5. \A f, g \in placed : f = g
    BY <2>3
  <2>6. \A f \in files[d] \ (mine \cup Named(d, key)) : f.name # key
    BY DEF Named
  <2>. HIDE DEF placed, mine, key
  <2>7. /\ \A g \in rest : g \in files[d] \/ g.by = t
        /\ \A f, g \in rest : f.by \in Task /\ f.name = g.name => f = g
    BY <1>0, <2>4, <2>5, <2>6
  <2>. HIDE DEF rest
  <2>. QED  BY <1>0, <1>1, <1>3, <2>1, <2>7
<1>. QED  BY <1>0, <1>4, <1>5, <1>6 DEF WritesFile

\* Every other step of a task at most removes.
LEMMA FilesRemoved ==
  ASSUME CacheInv, NEW t \in Task, UseCache(t), ~WritesFile(t)
  PROVE  DOMAIN files' = Dir /\ \A d \in Dir : files'[d] \subseteq files[d]
<1>0. DOMAIN files = Dir
  BY DEF CacheInv
<1>1. CASE Read(t)
  BY <1>0, <1>1 DEF Read, TakeNow, OpenForRead, ReadEntry, ReopenRoot, DropEntry, Unlinked
<1>2. CASE Fetch(t) \/ OpenForWrite(t)
  BY <1>0, <1>2 DEF Fetch, OpenForWrite
<1>3. CASE Prune(t)
  BY <1>0, <1>3 DEF Prune, OpenForPrune, LookAtNext, UnlinkStale, EndPrune, Unlinked
<1>4. CASE Clear(t)
  BY <1>0, <1>4 DEF Clear, LookAtRoot, Detach, Pin, VerifyPinned, UnlinkPinned,
                    RemoveAside, Unlinked
<1>. QED  BY <1>1, <1>2, <1>3, <1>4 DEF UseCache, Write, WritesFile

LEMMA RootStepKept ==
  ASSUME RootInv, CacheInv, GuardInv, NEW t \in Task, UseCache(t), job' = job
  PROVE  RootInv'
<1>0. /\ DOMAIN place = Dir /\ DOMAIN files = Dir /\ DOMAIN dir = Task
      /\ DOMAIN stage = Task
  BY DEF RootInv, CacheInv
<1>1. /\ DOMAIN place' = Dir
      /\ \A d, e \in Root' : d = e
      /\ \A d \in Dir : place[d] # "unmade" => place'[d] # "unmade"
      /\ \A d \in Dir : place'[d] = "unmade" => place[d] = "unmade"
  BY <1>0, PlaceChanges DEF RootInv, Root
<1>2. CASE WritesFile(t)
  <2>1. place' = place /\ dir' = dir
    BY <1>2 DEF WritesFile, CreateTemporary, FillTemporary, PutInPlace
  <2>2. \A u \in Task : stage'[u] \in WriteStages => stage[u] \in WriteStages
    BY <1>2, FilesWritten, GuardMoves
  <2>3. ASSUME NEW d \in Dir, place[d] = "unmade"
        PROVE  files'[d] = {}
    <3>1. d # dir[t]
      BY <1>2, <2>3, FilesWritten DEF RootInv
    <3>. QED  BY <1>2, <2>3, <3>1, FilesWritten DEF RootInv
  <2>4. \A d \in Dir : \A f, g \in files'[d] :
          f.by \in Task /\ f.name = g.name => f = g
    BY <1>2, FilesWritten DEF RootInv
  <2>. QED  BY <1>1, <2>1, <2>2, <2>3, <2>4 DEF RootInv, Dir
<1>3. CASE ~WritesFile(t)
  <2>1. DOMAIN files' = Dir /\ \A d \in Dir : files'[d] \subseteq files[d]
    BY <1>3, FilesRemoved
  <2>2. ASSUME NEW u \in Task, stage'[u] \in WriteStages
        PROVE  dir'[u] \in Dir /\ place'[dir'[u]] # "unmade"
    <3>1. CASE u = t /\ OpenForWrite(t)
      <4>1. CASE GoTo(t, "done")
        BY <1>0, <2>2, <3>1, <4>1 DEF GoTo, WriteStages
      <4>2. CASE Root # {} /\ place' = place /\ \E d \in Root : dir' = [dir EXCEPT ![t] = d]
        BY <1>0, <3>1, <4>2 DEF Root
      <4>3. CASE \E d \in Dir : /\ place' = [place EXCEPT ![d] = "root"]
                                /\ dir' = [dir EXCEPT ![t] = d]
        BY <1>0, <3>1, <4>3
      <4>. QED  BY <3>1, <4>1, <4>2, <4>3 DEF OpenForWrite
    <3>2. CASE u = t /\ ~OpenForWrite(t)
      <4>1. CASE Read(t)
        BY <1>0, <2>2, <3>2, <4>1 DEF Read, TakeNow, OpenForRead, ReadEntry, ReopenRoot,
             DropEntry, GoTo, WriteStages
      <4>2. CASE Fetch(t)
        BY <1>0, <2>2, <3>2, <4>2 DEF Fetch, GoTo, WriteStages
      <4>3. CASE Prune(t)
        BY <1>0, <2>2, <3>2, <4>3 DEF Prune, OpenForPrune, LookAtNext, UnlinkStale,
             EndPrune, GoTo, At, WriteStages
      <4>4. CASE Clear(t)
        BY <1>0, <2>2, <3>2, <4>4 DEF Clear, LookAtRoot, Detach, Pin, VerifyPinned,
             UnlinkPinned, RemoveAside, Fails, GoTo, WriteStages
      <4>. QED  BY <1>3, <3>2, <4>1, <4>2, <4>3, <4>4 DEF UseCache, Write, WritesFile
    <3>3. CASE u # t
      <4>1. stage[u] \in WriteStages
        BY <2>2, <3>3, GuardMoves
      <4>2. dir'[u] = dir[u]
        <5>1. CASE Read(t)
          BY <1>0, <3>3, <5>1 DEF Read, TakeNow, OpenForRead, ReadEntry, ReopenRoot, DropEntry
        <5>2. CASE Write(t)
          BY <1>0, <3>3, <5>2 DEF Write, Fetch, OpenForWrite, CreateTemporary,
                            FillTemporary, PutInPlace
        <5>3. CASE Prune(t)
          BY <1>0, <3>3, <5>3 DEF Prune, OpenForPrune, LookAtNext, UnlinkStale, EndPrune
        <5>4. CASE Clear(t)
          BY <1>0, <3>3, <5>4 DEF Clear, LookAtRoot, Detach, Pin, VerifyPinned,
                            UnlinkPinned, RemoveAside
        <5>. QED  BY <5>1, <5>2, <5>3, <5>4 DEF UseCache
      <4>. QED  BY <1>1, <4>1, <4>2 DEF RootInv, CacheInv
    <3>. QED  BY <3>1, <3>2, <3>3
  <2>3. \A d \in Dir : place'[d] = "unmade" => files'[d] = {}
    BY <1>1, <2>1 DEF RootInv
  <2>4. \A d \in Dir : \A f, g \in files'[d] :
          f.by \in Task /\ f.name = g.name => f = g
    BY <2>1 DEF RootInv
  <2>. QED  BY <1>1, <2>2, <2>3, <2>4 DEF RootInv, Dir
<1>. QED  BY <1>2, <1>3

\* A step that is not one of the cache leaves its directories alone, and
\* brings no task into the middle of using them.
Outside ==
  /\ UNCHANGED <<job, place, files, dir, now, item>>
  /\ DOMAIN stage' = Task
  /\ \A t \in Task : stage'[t] \in HoldStages \cup {"unlinking"} =>
       stage'[t] = stage[t]

LEMMA StepsOutside ==
  ASSUME AssetInv, [Next]_vars
  PROVE  \/ Outside
         \/ \E t \in Task : UseCache(t) /\ job' = job
<1>0. DOMAIN stage = Task
  BY DEF AssetInv
<1>1. ASSUME NEW t \in Task, NEW s, stage' = [stage EXCEPT ![t] = s],
             s \notin HoldStages \cup {"unlinking"},
             UNCHANGED <<job, cacheVars>>
      PROVE  Outside
  BY <1>0, <1>1 DEF Outside, cacheVars
<1>2. ASSUME NEW t \in Task, Acquire(t), UNCHANGED cacheVars
      PROVE  Outside
  <2>1. PICK s \in {"locking", "granted", "sleeping", "asking"} :
          stage' = [stage EXCEPT ![t] = s]
    BY <1>2 DEF Acquire, ReadClock, Grant, Postpone, Wake, GoTo
  <2>. QED  BY <1>1, <1>2, <2>1, AcquireStages DEF HoldStages, WriteStages
<1>3. ASSUME NEW t \in Task, Download(t), UNCHANGED <<job, cacheVars>>
      PROVE  Outside
  <2>1. PICK s \in {"asking", "done"} \cup SaveStages : stage' = [stage EXCEPT ![t] = s]
    BY <1>3 DEF Download, StartDownload, FetchImage, LookAtTarget, WriteBytes,
                Persist, SyncDirectory, EndsAs, GoTo, SaveStages
  <2>2. s \notin HoldStages \cup {"unlinking"}
    BY DEF SaveStages, HoldStages, WriteStages
  <2>. QED  BY <1>1, <1>3, <2>1, <2>2
<1>4. ASSUME NEW lost \in SUBSET Task, Die(lost),
             UNCHANGED <<job, place, files, dir, now, item>>
      PROVE  Outside
  BY <1>4 DEF Outside, Die, HoldStages, WriteStages
<1>5. ASSUME NEW p \in Process, Crash(p)
      PROVE  Outside
  <2>. DEFINE lost == {t \in Task : Home(t) = p}
  <2>1. /\ lost \in SUBSET Task /\ Die(lost)
        /\ UNCHANGED <<job, place, files, dir, now, item>>
    BY <1>5 DEF Crash
  <2>. QED  BY <1>4, <2>1
<1>6. CASE PowerLoss
  BY <1>4, <1>6 DEF PowerLoss
<1>7. CASE Tick \/ UNCHANGED vars
  BY <1>0, <1>7 DEF Tick, vars, cacheVars, Outside
<1>. QED  BY <1>2, <1>3, <1>5, <1>6, <1>7 DEF Next, Step

LEMMA RootKept ==
  ASSUME RootInv, CacheInv, GuardInv, AssetInv, [Next]_vars
  PROVE  RootInv'
<1>1. CASE Outside
  BY <1>1 DEF Outside, RootInv, Root, Dir, HoldStages
<1>. QED  BY <1>1, StepsOutside, RootStepKept

----------------------------------------------------------------------------

\* No sibling of t has a file in d, or a fresh one under that name.
Foreign(t, d) == \A f \in files[d] : f.by \notin Siblings(t)
Spent(t, d, name) ==
  \A f \in Named(d, name) : f.by \in Siblings(t) => ~IsGood(f, now[t])

\* What a task that looked may still rely on when it removes: its siblings are
\* kept out, and a root made meanwhile is another process's.
LookOf(t) ==
  /\ stage[t] \in {"reading", "stale", "dropping", "pruning"} \/ Removing(t)
       => dir[t] \in Dir
  /\ stage[t] \in {"reading", "stale"} =>
       \A d \in Root \ {dir[t]} : Foreign(t, d)
  /\ stage[t] \in {"stale", "dropping"} => Spent(t, dir[t], job[t].key)
  /\ Removing(t) => \A f \in item[t] : Spent(t, dir[t], f.name)

LookInv ==
  /\ DOMAIN dir = Task /\ DOMAIN now = Task /\ DOMAIN item = Task
  /\ \A t \in Task : LookOf(t)

LEMMA LookStarts ==
  ASSUME Start
  PROVE  LookInv
<1>1. PICK jobs \in [Task -> Jobs],
           left \in SUBSET [name : Key, at : Int, whole : BOOLEAN] :
        StoreInit(jobs, {Leftover(f) : f \in left})
  BY DEF Start
<1>2. /\ stage = [t \in Task |-> IF Does(t) = "nothing" THEN "done" ELSE "start"]
      /\ DOMAIN dir = Task /\ DOMAIN now = Task /\ DOMAIN item = Task
  BY <1>1 DEF StoreInit
<1>. QED  BY <1>2 DEF LookInv, LookOf, Removing

\* The steps of another task spoil nothing that t relies on.
LEMMA OthersSpareLook ==
  ASSUME LookInv, RootInv, CacheInv, GuardInv, NEW u \in Task, UseCache(u),
         job' = job, NEW t \in Task, t # u, Holding(t)
  PROVE  /\ \A d \in Dir : Foreign(t, d) => Foreign(t, d)'
         /\ \A d \in Dir : \A name : Spent(t, d, name) /\ now'[t] = now[t] => Spent(t, d, name)'
         /\ \A d \in Root' \ Root : d \in Dir /\ Foreign(t, d)'
<1>1. Siblings(t)' = Siblings(t)
  BY DEF Siblings, Home
<1>2. /\ DOMAIN files' = Dir
      /\ \A d \in Dir : \A g \in files'[d] : g \in files[d] \/ g.by \notin Siblings(t)
  <2>1. CASE WritesFile(u)
    <3>1. u \in guarded /\ t \in guarded
      BY <2>1, FilesWritten DEF GuardInv, Holding, HoldStages
    <3>2. u \notin Siblings(t)
      BY <3>1 DEF GuardInv, Siblings
    <3>. QED  BY <2>1, <3>2, FilesWritten
  <2>2. CASE ~WritesFile(u)
    BY <2>2, FilesRemoved
  <2>. QED  BY <2>1, <2>2
<1>3. \A d \in Dir : Foreign(t, d) => Foreign(t, d)'
  BY <1>1, <1>2 DEF Foreign
<1>4. \A d \in Dir : \A name : Spent(t, d, name) /\ now'[t] = now[t] => Spent(t, d, name)'
  BY <1>1, <1>2 DEF Spent, Named, IsGood, IsFresh
<1>5. ASSUME NEW d \in Root', d \notin Root
      PROVE  d \in Dir /\ Foreign(t, d)'
  <2>1. place[d] = "unmade" /\ d \in Dir /\ files' = files
    BY <1>5, PlaceChanges DEF Root, RootInv
  <2>. QED  BY <2>1 DEF RootInv, Foreign
<1>. QED  BY <1>3, <1>4, <1>5

\* The variables a task writes are its own.
LEMMA OwnVariables ==
  ASSUME LookInv, GuardInv, NEW t \in Task, UseCache(t)
  PROVE  /\ DOMAIN dir' = Task /\ DOMAIN now' = Task /\ DOMAIN item' = Task
         /\ \A u \in Task \ {t} :
              dir'[u] = dir[u] /\ now'[u] = now[u] /\ item'[u] = item[u]
<1>0. DOMAIN dir = Task /\ DOMAIN now = Task /\ DOMAIN item = Task
  BY DEF LookInv
<1>1. CASE Read(t)
  BY <1>0, <1>1 DEF Read, TakeNow, OpenForRead, ReadEntry, ReopenRoot, DropEntry
<1>2. CASE Write(t)
  BY <1>0, <1>2 DEF Write, Fetch, OpenForWrite, CreateTemporary, FillTemporary, PutInPlace
<1>3. CASE Prune(t)
  BY <1>0, <1>3 DEF Prune, OpenForPrune, LookAtNext, UnlinkStale, EndPrune
<1>4. CASE Clear(t)
  BY <1>0, <1>4 DEF Clear, LookAtRoot, Detach, Pin, VerifyPinned, UnlinkPinned, RemoveAside
<1>. QED  BY <1>1, <1>2, <1>3, <1>4 DEF UseCache

\* What a task's own look leaves it with.
LEMMA OwnLook ==
  ASSUME LookInv, RootInv, CacheInv, GuardInv, ClearInv, NEW t \in Task,
         UseCache(t), job' = job
  PROVE  LookOf(t)'
<1>0. /\ DOMAIN dir = Task /\ DOMAIN now = Task /\ DOMAIN item = Task
      /\ DOMAIN stage = Task /\ LookOf(t)
  BY DEF LookInv, GuardInv
<1>1. Siblings(t)' = Siblings(t) /\ Does(t)' = Does(t)
  BY DEF Siblings, Home, Does
<1>2. CASE stage'[t] \notin {"reading", "stale", "dropping", "pruning", "unlinking"}
  BY <1>2 DEF LookOf, Removing
<1>3. CASE OpenForRead(t)
  <2>1. CASE GoTo(t, "asking")
    BY <1>0, <1>2, <2>1 DEF GoTo
  <2>2. CASE GoTo(t, "reading") /\ \E d \in Root : dir' = [dir EXCEPT ![t] = d]
    <3>1. stage'[t] = "reading" /\ dir'[t] \in Root /\ place' = place
      BY <1>0, <1>3, <2>2 DEF GoTo, OpenForRead
    <3>2. Root' \ {dir'[t]} = {}
      BY <3>1 DEF RootInv, Root
    <3>. QED  BY <3>1, <3>2 DEF LookOf, Removing, Root
  <2>. QED  BY <1>3, <2>1, <2>2 DEF OpenForRead
<1>4. CASE ReadEntry(t)
  <2>1. CASE GoTo(t, "done")
    BY <1>0, <1>2, <2>1 DEF GoTo
  <2>2. CASE /\ GoTo(t, "stale")
             /\ {f \in Named(dir[t], job[t].key) : IsGood(f, now[t])} = {}
    <3>1. /\ stage[t] = "reading" /\ stage'[t] = "stale"
          /\ UNCHANGED <<place, files, dir, now>>
      BY <1>0, <1>4, <2>2 DEF GoTo, ReadEntry, At
    <3>2. Spent(t, dir[t], job[t].key)'
      BY <2>2, <3>1 DEF Spent, Named, IsGood, IsFresh
    <3>3. \A d \in Root' \ {dir'[t]} : Foreign(t, d)'
      BY <1>0, <1>1, <3>1 DEF LookOf, Foreign, Root
    <3>. QED  BY <1>0, <3>1, <3>2, <3>3 DEF LookOf, Removing
  <2>. QED  BY <1>4, <2>1, <2>2 DEF ReadEntry
<1>5. CASE ReopenRoot(t)
  <2>1. CASE GoTo(t, "asking")
    BY <1>0, <1>2, <2>1 DEF GoTo
  <2>2. CASE GoTo(t, "dropping") /\ \E d \in Root : dir' = [dir EXCEPT ![t] = d]
    <3>1. /\ stage[t] = "stale" /\ stage'[t] = "dropping" /\ dir'[t] \in Root
          /\ UNCHANGED <<place, files, now>>
      BY <1>0, <1>5, <2>2 DEF GoTo, ReopenRoot, At
    <3>2. CASE dir'[t] = dir[t]
      BY <1>0, <1>1, <3>1, <3>2 DEF LookOf, Removing, Spent, Named, IsGood, IsFresh
    <3>3. CASE dir'[t] # dir[t]
      <4>1. Foreign(t, dir'[t])
        BY <1>0, <3>1, <3>3 DEF LookOf
      <4>2. Spent(t, dir[t], job[t].key)'
        BY <1>1, <3>1, <4>1 DEF Foreign, Spent, Named
      <4>. QED  BY <3>1, <4>2 DEF LookOf, Removing, Root
    <3>. QED  BY <3>2, <3>3
  <2>. QED  BY <1>5, <2>1, <2>2 DEF ReopenRoot
<1>6. CASE OpenForPrune(t)
  <2>1. CASE GoTo(t, "done")
    BY <1>0, <1>2, <2>1 DEF GoTo
  <2>2. CASE GoTo(t, "pruning") /\ \E d \in Root : dir' = [dir EXCEPT ![t] = d]
    BY <1>0, <2>2 DEF GoTo, LookOf, Removing, Root
  <2>. QED  BY <1>6, <2>1, <2>2 DEF OpenForPrune
<1>7. CASE LookAtNext(t)
  <2>1. /\ stage[t] = "pruning" /\ dir[t] \in Dir
        /\ UNCHANGED <<place, files, dir, now>>
    BY <1>0, <1>7 DEF LookAtNext, At, LookOf
  <2>2. CASE UNCHANGED stage
    BY <2>1, <2>2 DEF LookOf, Removing
  <2>3. CASE GoTo(t, "unlinking") /\ \E f \in todo[t] :
               /\ item' = [item EXCEPT ![t] = {f}]
               /\ \E g \in Named(dir[t], f.name) : IsExpired(g, now[t])
    <3>1. PICK f \in todo[t] : /\ item'[t] = {f}
                               /\ \E g \in Named(dir[t], f.name) : IsExpired(g, now[t])
      BY <1>0, <2>3
    <3>2. PICK g \in Named(dir[t], f.name) : IsExpired(g, now[t])
      BY <3>1
    <3>3. ASSUME NEW h \in Named(dir[t], f.name), h.by \in Siblings(t)
          PROVE  ~IsGood(h, now[t])
      <4>1. h \in files[dir[t]] /\ g \in files[dir[t]] /\ h.name = g.name /\ h.by \in Task
        BY <3>3, <3>2 DEF Named, Siblings
      <4>2. h = g
        BY <2>1, <4>1 DEF RootInv
      <4>. QED  BY <3>2, <4>2 DEF IsExpired
    <3>4. Spent(t, dir[t], f.name)'
      BY <1>1, <2>1, <3>3 DEF Spent, Named, IsGood, IsFresh
    <3>5. \A e \in item'[t] : Spent(t, dir[t], e.name)'
      BY <3>1, <3>4
    <3>. QED  BY <1>0, <2>1, <2>3, <3>5 DEF GoTo, LookOf
  <2>. QED  BY <1>7, <2>2, <2>3 DEF LookAtNext
<1>8. CASE UnlinkStale(t)
  BY <1>0, <1>8 DEF UnlinkStale, GoTo, At, LookOf, Removing
<1>9. CASE TakeNow(t) \/ DropEntry(t) \/ EndPrune(t) \/ Write(t)
  BY <1>0, <1>2, <1>9 DEF TakeNow, DropEntry, EndPrune, Write, Fetch, OpenForWrite,
       CreateTemporary, FillTemporary, PutInPlace, GoTo
<1>10. CASE Clear(t)
  <2>1. CASE VerifyPinned(t) /\ GoTo(t, "unlinking")
    <3>1. Does(t) = "clear"
      BY <2>1 DEF VerifyPinned, At, GuardInv
    <3>2. stage'[t] = "unlinking"
      BY <1>0, <2>1 DEF GoTo
    <3>. QED  BY <1>1, <3>1, <3>2 DEF LookOf, Removing
  <2>. QED  BY <1>0, <1>2, <1>10, <2>1 DEF Clear, LookAtRoot, Detach, Pin, VerifyPinned,
                 UnlinkPinned, RemoveAside, Fails, GoTo
<1>. QED  BY <1>3, <1>4, <1>5, <1>6, <1>7, <1>8, <1>9, <1>10 DEF UseCache, Read, Prune

LEMMA LookKept ==
  ASSUME LookInv, RootInv, CacheInv, GuardInv, ClearInv, AssetInv, [Next]_vars
  PROVE  LookInv'
<1>1. CASE Outside
  <2>1. \A t \in Task : Siblings(t)' = Siblings(t) /\ Does(t)' = Does(t)
    BY <1>1 DEF Outside, Siblings, Home, Does
  <2>2. ASSUME NEW t \in Task PROVE LookOf(t)'
    <3>1. LookOf(t) /\ UNCHANGED <<job, place, files, dir, now, item>>
      BY <1>1 DEF LookInv, Outside
    <3>2. stage'[t] \in {"reading", "stale", "dropping", "pruning", "unlinking"} =>
            stage'[t] = stage[t]
      BY <1>1 DEF Outside, HoldStages
    <3>. QED  BY <2>1, <3>1, <3>2 DEF LookOf, Removing, Foreign, Spent, Named, Root,
                                      IsGood, IsFresh, Dir
  <2>. QED  BY <1>1, <2>2 DEF LookInv, Outside
<1>2. ASSUME NEW u \in Task, UseCache(u), job' = job
      PROVE  LookInv'
  <2>1. ASSUME NEW t \in Task, t # u PROVE LookOf(t)'
    <3>1. /\ LookOf(t) /\ stage'[t] = stage[t] /\ Does(t)' = Does(t) /\ job' = job
          /\ dir'[t] = dir[t] /\ now'[t] = now[t] /\ item'[t] = item[t]
      BY <1>2, <2>1, GuardMoves, OwnVariables DEF LookInv, Does
    <3>2. CASE ~Holding(t)
      BY <3>1, <3>2 DEF LookOf, Holding, HoldStages, Removing
    <3>3. CASE Holding(t)
      <4>1. /\ \A d \in Dir : Foreign(t, d) => Foreign(t, d)'
            /\ \A d \in Dir : \A name : Spent(t, d, name) => Spent(t, d, name)'
            /\ \A d \in Root' \ Root : d \in Dir /\ Foreign(t, d)'
        BY <1>2, <2>1, <3>1, <3>3, OthersSpareLook
      <4>2. \A d \in Root : d \in Dir
        BY DEF Root
      <4>3. stage[t] \in {"reading", "stale"} =>
              \A d \in Root' \ {dir[t]} : Foreign(t, d)'
        BY <3>1, <4>1, <4>2 DEF LookOf
      <4>4. /\ stage[t] \in {"stale", "dropping"} => Spent(t, dir[t], job[t].key)'
            /\ Removing(t) => \A f \in item[t] : Spent(t, dir[t], f.name)'
        BY <3>1, <4>1 DEF LookOf
      <4>. QED  BY <3>1, <4>3, <4>4 DEF LookOf, Removing, Dir
    <3>. QED  BY <3>2, <3>3
  <2>. QED  BY <1>2, <2>1, OwnLook, OwnVariables DEF LookInv
<1>. QED  BY <1>1, <1>2, StepsOutside

(***************************************************************************)
(* A reader or a prune that removes an entry by name takes away no fresh   *)
(* one that a task of its own process wrote (the guard of cache.rs): also  *)
(* when the root was moved aside and made anew between the look and the    *)
(* removal, since only another process can have made it.                   *)
(***************************************************************************)
THEOREM OwnWritesKept == Spec => OwnWritesAreKept
<1>. DEFINE Keeps ==
       \A t \in Task :
         /\ At(t, "dropping") \/ (At(t, "unlinking") /\ Does(t) = "prune")
         /\ stage'[t] # stage[t]
         =>
           \A f \in files[dir[t]] \ files'[dir[t]] :
             f.by \in Siblings(t) => ~IsGood(f, now[t])
<1>1. ASSUME LookInv, RootInv, CacheInv, GuardInv, ClearInv, AssetInv, [Next]_vars
      PROVE  Keeps
  <2>1. SUFFICES ASSUME NEW t \in Task,
                        At(t, "dropping") \/ (At(t, "unlinking") /\ Does(t) = "prune"),
                        stage'[t] # stage[t],
                        NEW f \in files[dir[t]], f \notin files'[dir[t]],
                        f.by \in Siblings(t)
                 PROVE  ~IsGood(f, now[t])
    OBVIOUS
  <2>2. LookOf(t) /\ dir[t] \in Dir /\ DOMAIN files = Dir
    BY <1>1, <2>1 DEF LookInv, LookOf, CacheInv, At, Removing
  <2>3. UseCache(t)
    BY <1>1, <2>1, StepsOutside, GuardMoves DEF Outside
  <2>4. DropEntry(t) \/ UnlinkStale(t)
    BY <2>1, <2>3 DEF UseCache, Read, TakeNow, OpenForRead, ReadEntry, ReopenRoot,
         Write, Fetch, OpenForWrite, CreateTemporary, FillTemporary,
         PutInPlace, Prune, OpenForPrune, LookAtNext, EndPrune,
         Clear, LookAtRoot, Detach, Pin, VerifyPinned, UnlinkPinned, RemoveAside, At
  <2>5. CASE DropEntry(t)
    <3>1. f \in Named(dir[t], job[t].key)
      BY <2>1, <2>2, <2>5 DEF DropEntry, Unlinked
    <3>. QED  BY <2>1, <2>2, <2>5, <3>1 DEF DropEntry, At, LookOf, Spent
  <2>6. CASE UnlinkStale(t)
    <3>1. PICK e \in item[t] : files' = Unlinked(dir[t], e.name)
      BY <2>6 DEF UnlinkStale
    <3>2. f \in Named(dir[t], e.name)
      BY <2>1, <2>2, <3>1 DEF Unlinked
    <3>. QED  BY <2>1, <2>2, <2>6, <3>2 DEF UnlinkStale, At, Removing, LookOf, Spent
  <2>. QED  BY <2>4, <2>5, <2>6
<1>2. Spec => [][Keeps]_vars
  BY <1>1, AssetStarts, AssetKept, CacheStarts, CacheKept, ClearStarts, ClearKept,
     GuardStarts, GuardKept, RootStarts, RootKept, LookStarts, LookKept, PTL DEF Spec
<1>. QED  BY <1>2 DEF OwnWritesAreKept
----------------------------------------------------------------------------

FetchedStages == {"fetched"} \cup WriteStages

\* An entry says at the latest when it was truly fetched.
Dated(f) == f.at \in Int /\ f.from \in Int /\ f.at <= f.from

\* The times a task takes stand in the order it took them, and who has been
\* answered from the cache is through.
TimeInv ==
  /\ clock \in Nat /\ now \in [Task -> Nat] /\ got \in [Task -> Nat]
  /\ DOMAIN answer = Task /\ DOMAIN stage = Task /\ DOMAIN files = Dir
  /\ \A t \in Task : now[t] <= clock
  /\ \A t \in Task : stage[t] \in FetchedStages => now[t] <= got[t]
  /\ \A d \in Dir : \A f \in files[d] : Dated(f)
  /\ \A t \in Task : answer[t] # {} => stage[t] = "done"
  /\ \A t \in Task : \A f \in answer[t] :
       f.whole /\ f.name = job[t].key /\ now[t] - f.from < Ttl

LEMMA TimeStarts ==
  ASSUME Start
  PROVE  TimeInv
<1>1. PICK jobs \in [Task -> Jobs],
           left \in SUBSET [name : Key, at : Int, whole : BOOLEAN] :
        StoreInit(jobs, {Leftover(f) : f \in left})
  BY DEF Start
<1>2. /\ stage = [t \in Task |-> IF Does(t) = "nothing" THEN "done" ELSE "start"]
      /\ files = [d \in Dir |-> IF d = 1 THEN {Leftover(f) : f \in left} ELSE {}]
      /\ clock = 0 /\ now = [t \in Task |-> 0] /\ got = [t \in Task |-> 0]
      /\ answer = [t \in Task |-> {}]
  BY <1>1 DEF StoreInit
<1>3. ASSUME NEW d \in Dir, NEW f \in files[d] PROVE Dated(f)
  BY <1>2, <1>3 DEF Leftover, File, Dated
<1>4. \A t \in Task : stage[t] \notin FetchedStages
  BY <1>2 DEF FetchedStages, WriteStages
<1>. QED  BY <1>2, <1>3, <1>4 DEF TimeInv

\* Whoever takes a step in the cache is not through, nor saving an image.
LEMMA CacheIsUsedOnTheWay ==
  ASSUME NEW t \in Task, UseCache(t)
  PROVE  stage[t] \notin SaveStages \cup {"done", "dead"}
<1>. USE DEF At, SaveStages
<1>1. CASE Read(t)
  BY <1>1 DEF Read, TakeNow, OpenForRead, ReadEntry, ReopenRoot, DropEntry
<1>2. CASE Write(t)
  BY <1>2 DEF Write, Fetch, OpenForWrite, CreateTemporary, FillTemporary, PutInPlace
<1>3. CASE Prune(t)
  BY <1>3 DEF Prune, OpenForPrune, LookAtNext, UnlinkStale, EndPrune
<1>4. CASE Clear(t)
  BY <1>4 DEF Clear, LookAtRoot, Detach, Pin, VerifyPinned, UnlinkPinned, RemoveAside
<1>. QED  BY <1>1, <1>2, <1>3, <1>4 DEF UseCache

\* A new file is stamped no later than its content came.
LEMMA FilesStayDated ==
  ASSUME TimeInv, CacheInv, NEW t \in Task, UseCache(t)
  PROVE  DOMAIN files' = Dir /\ \A d \in Dir : \A f \in files'[d] : Dated(f)
<1>0. DOMAIN files = Dir /\ \A d \in Dir : \A f \in files[d] : Dated(f)
  BY DEF TimeInv
<1>1. CASE ~WritesFile(t)
  BY <1>0, <1>1, FilesRemoved
<1>2. CASE CreateTemporary(t)
  <2>. DEFINE new == File(Temporary(t), t, StampOf(t), got[t], FALSE)
  <2>1. now[t] \in Nat /\ got[t] \in Nat /\ now[t] <= got[t]
    BY <1>2 DEF CreateTemporary, At, TimeInv, FetchedStages, WriteStages
  <2>2. Dated(new)
    BY <2>1 DEF Dated, File, StampOf
  <2>3. \/ files' = files
        \/ files' = [files EXCEPT ![dir[t]] = (@ \ Named(dir[t], Temporary(t))) \cup {new}]
    BY <1>2 DEF CreateTemporary
  <2>. HIDE DEF new
  <2>. QED  BY <1>0, <2>2, <2>3
<1>3. CASE FillTemporary(t)
  <2>. DEFINE filled(f) == IF f.by = t THEN Filled(f) ELSE f
  <2>1. \/ files' = [files EXCEPT ![dir[t]] = @ \ Named(dir[t], Temporary(t))]
        \/ files' = [files EXCEPT ![dir[t]] = {filled(f) : f \in @}]
    BY <1>3 DEF FillTemporary, Unlinked
  <2>2. \A f : Dated(f) => Dated(filled(f))
    BY DEF Dated, Filled, File
  <2>. HIDE DEF filled
  <2>. QED  BY <1>0, <2>1, <2>2
<1>4. CASE PutInPlace(t)
  <2>. DEFINE mine == Named(dir[t], Temporary(t))
              placed == {Renamed(f, job[t].key) : f \in mine}
  <2>1. \/ files' = files
        \/ files' = [files EXCEPT ![dir[t]] =
                       (@ \ (mine \cup Named(dir[t], job[t].key))) \cup placed]
    BY <1>4 DEF PutInPlace
  <2>2. dir[t] \in Dir
    BY <1>4 DEF PutInPlace, At, CacheInv, WriteStages
  <2>3. \A f \in placed : Dated(f)
    BY <1>0, <2>2 DEF Named, Renamed, File, Dated
  <2>. HIDE DEF mine, placed
  <2>. QED  BY <1>0, <2>1, <2>3
<1>. QED  BY <1>1, <1>2, <1>3, <1>4 DEF WritesFile

LEMMA TimeStepKept ==
  ASSUME TimeInv, CacheInv, LookInv, NEW t \in Task, UseCache(t),
         UNCHANGED <<job, clock>>
  PROVE  TimeInv'
<1>0. /\ clock \in Nat /\ now \in [Task -> Nat] /\ got \in [Task -> Nat]
      /\ DOMAIN answer = Task /\ DOMAIN stage = Task /\ now[t] <= clock
  BY DEF TimeInv
<1>1. DOMAIN stage' = Task /\ \A u \in Task \ {t} : stage'[u] = stage[u]
  BY <1>0, CacheStages
<1>2. answer[t] = {}
  BY CacheIsUsedOnTheWay DEF TimeInv
<1>3. CASE TakeNow(t)
  <2>1. /\ now' = [now EXCEPT ![t] = clock] /\ UNCHANGED <<got, answer>>
        /\ stage'[t] = "looking"
    BY <1>0, <1>3 DEF TakeNow, GoTo
  <2>. QED  BY <1>0, <1>1, <1>2, <2>1, FilesStayDated DEF TimeInv, FetchedStages, WriteStages
<1>4. CASE Fetch(t)
  <2>1. CASE stage'[t] = "done" /\ UNCHANGED <<got, now, answer>>
    BY <1>0, <1>1, <1>2, <2>1, FilesStayDated DEF TimeInv, FetchedStages, WriteStages
  <2>2. CASE got' = [got EXCEPT ![t] = clock] /\ UNCHANGED <<now, answer>>
    BY <1>0, <1>1, <1>2, <2>2, FilesStayDated DEF TimeInv
  <2>. QED  BY <1>0, <1>4, <2>1, <2>2 DEF Fetch, GoTo
<1>5. CASE ReadEntry(t)
  <2>. DEFINE good == {f \in Named(dir[t], job[t].key) : IsGood(f, now[t])}
  <2>1. CASE answer' = [answer EXCEPT ![t] = good] /\ stage'[t] = "done"
    <3>1. UNCHANGED <<now, got>>
      BY <1>5 DEF ReadEntry
    <3>2. dir[t] \in Dir
      BY <1>5 DEF ReadEntry, At, LookInv, LookOf
    <3>3. ASSUME NEW f \in good
          PROVE  f.whole /\ f.name = job[t].key /\ now[t] - f.from < Ttl
      <4>1. f \in files[dir[t]] /\ f.name = job[t].key /\ f.whole /\ IsFresh(f, now[t])
        BY <3>3 DEF Named, IsGood
      <4>2. Dated(f)
        BY <3>2, <4>1 DEF TimeInv
      <4>. QED  BY <1>0, <4>1, <4>2, TtlAssumption DEF Dated, IsFresh
    <3>. HIDE DEF good
    <3>4. \A u \in Task \ {t} : answer'[u] = answer[u]
      BY <1>0, <2>1
    <3>5. answer'[t] = good /\ DOMAIN answer' = Task
      BY <1>0, <2>1
    <3>6. ASSUME NEW u \in Task, NEW f \in answer'[u]
          PROVE  f.whole /\ f.name = job[u].key /\ now[u] - f.from < Ttl
      BY <3>3, <3>4, <3>5, <3>6 DEF TimeInv
    <3>7. \A u \in Task : answer'[u] # {} => stage'[u] = "done"
      BY <1>1, <2>1, <3>4 DEF TimeInv
    <3>8. \A u \in Task : stage'[u] \in FetchedStages => now[u] <= got[u]
      BY <1>1, <2>1 DEF TimeInv, FetchedStages, WriteStages
    <3>. QED  BY <1>0, <1>1, <3>1, <3>5, <3>6, <3>7, <3>8, FilesStayDated DEF TimeInv
  <2>2. CASE stage'[t] = "stale" /\ UNCHANGED <<now, got, answer>>
    BY <1>0, <1>1, <1>2, <2>2, FilesStayDated DEF TimeInv, FetchedStages, WriteStages
  <2>. QED  BY <1>0, <1>5, <2>1, <2>2 DEF ReadEntry, GoTo
<1>6. CASE /\ UNCHANGED <<now, got, answer>>
           /\ stage'[t] \in FetchedStages => stage[t] \in FetchedStages
  BY <1>0, <1>1, <1>2, <1>6, FilesStayDated DEF TimeInv
<1>7. CASE OpenForRead(t) \/ ReopenRoot(t) \/ DropEntry(t)
  BY <1>0, <1>6, <1>7 DEF OpenForRead, ReopenRoot, DropEntry, GoTo, FetchedStages, WriteStages
<1>8. CASE OpenForWrite(t) \/ CreateTemporary(t) \/ FillTemporary(t) \/ PutInPlace(t)
  BY <1>0, <1>6, <1>8 DEF OpenForWrite, CreateTemporary, FillTemporary, PutInPlace,
       GoTo, At, FetchedStages, WriteStages
<1>9. CASE Prune(t)
  BY <1>0, <1>6, <1>9 DEF Prune, OpenForPrune, LookAtNext, UnlinkStale, EndPrune,
       GoTo, At, FetchedStages, WriteStages
<1>10. CASE Clear(t)
  BY <1>0, <1>6, <1>10 DEF Clear, LookAtRoot, Detach, Pin, VerifyPinned, UnlinkPinned,
       RemoveAside, Fails, GoTo, FetchedStages, WriteStages
<1>. QED  BY <1>3, <1>4, <1>5, <1>7, <1>8, <1>9, <1>10 DEF UseCache, Read, Write

LEMMA TimeKept ==
  ASSUME TimeInv, CacheInv, LookInv, AssetInv, [Next]_vars
  PROVE  TimeInv'
<1>0. DOMAIN stage = Task /\ clock \in Nat
  BY DEF TimeInv
<1>1. ASSUME UNCHANGED <<job, files, now, got, answer>>,
             clock' \in Nat, clock <= clock', DOMAIN stage' = Task,
             \A u \in Task : /\ stage'[u] \in FetchedStages => stage'[u] = stage[u]
                             /\ stage[u] = "done" => stage'[u] = "done"
      PROVE  TimeInv'
  <2>1. \A u \in Task : now[u] <= clock'
    BY <1>0, <1>1 DEF TimeInv
  <2>. QED  BY <1>1, <2>1 DEF TimeInv, Dir
<1>2. ASSUME NEW t \in Task, Acquire(t), UNCHANGED cacheVars
      PROVE  TimeInv'
  <2>1. PICK s \in {"locking", "granted", "sleeping", "asking"} :
          stage' = [stage EXCEPT ![t] = s]
    BY <1>2 DEF Acquire, ReadClock, Grant, Postpone, Wake, GoTo
  <2>2. stage[t] # "done" /\ UNCHANGED <<job, clock>>
    BY <1>2 DEF Acquire, ReadClock, Grant, Postpone, Wake, Settle, At
  <2>. QED  BY <1>0, <1>1, <1>2, <2>1, <2>2 DEF cacheVars, FetchedStages, WriteStages
<1>3. ASSUME NEW t \in Task, Download(t), UNCHANGED <<job, clock, cacheVars>>
      PROVE  TimeInv'
  <2>1. PICK s \in {"asking", "done"} \cup SaveStages : stage' = [stage EXCEPT ![t] = s]
    BY <1>3 DEF Download, StartDownload, FetchImage, LookAtTarget, WriteBytes,
                Persist, SyncDirectory, EndsAs, GoTo, SaveStages
  <2>2. stage[t] # "done"
    BY <1>3 DEF Download, StartDownload, FetchImage, LookAtTarget, WriteBytes,
                Persist, SyncDirectory, At
  <2>3. s \notin FetchedStages
    BY DEF SaveStages, FetchedStages, WriteStages
  <2>. QED  BY <1>0, <1>1, <1>3, <2>1, <2>2, <2>3 DEF cacheVars
<1>4. ASSUME NEW lost \in SUBSET Task, Die(lost),
             UNCHANGED <<job, clock, files, now, got, answer>>
      PROVE  TimeInv'
  <2>1. /\ DOMAIN stage' = Task
        /\ \A u \in Task : stage'[u] \in {stage[u], "dead"}
        /\ \A u \in Task : stage[u] = "done" => stage'[u] = "done"
    BY <1>4 DEF Die, Ended
  <2>. QED  BY <1>0, <1>1, <1>4, <2>1 DEF FetchedStages, WriteStages
<1>5. ASSUME NEW p \in Process, Crash(p)
      PROVE  TimeInv'
  <2>. DEFINE lost == {t \in Task : Home(t) = p}
  <2>1. /\ lost \in SUBSET Task /\ Die(lost)
        /\ UNCHANGED <<job, clock, files, now, got, answer>>
    BY <1>5 DEF Crash
  <2>. QED  BY <1>4, <2>1
<1>6. CASE PowerLoss
  BY <1>4, <1>6 DEF PowerLoss
<1>7. CASE Tick
  BY <1>0, <1>1, <1>7 DEF Tick, cacheVars
<1>8. CASE UNCHANGED vars
  BY <1>0, <1>1, <1>8 DEF vars, cacheVars
<1>. QED  BY <1>2, <1>3, <1>5, <1>6, <1>7, <1>8, TimeStepKept DEF Next, Step

----------------------------------------------------------------------------

LockedStages == {"writing", "persisting", "syncing"}

\* No other process saves under the name of t.
Alone(t) ==
  \A u \in Task : Does(u) = "download" /\ SlugOf(u) = SlugOf(t) => Home(u) = Home(t)

\* WRITE_LOCK admits one task of a process, and until that one has put its
\* image in place nobody else of its process puts one under the name.
SaveInv ==
  /\ \A t, u \in Task : t \in saving /\ u \in saving /\ Home(t) = Home(u) => t = u
  /\ \A t \in Task : stage[t] \in LockedStages => t \in saving
  /\ \A s \in Slug : \A i \in 1 .. Len(history[s]) :
       stage[history[s][i]] \in {"syncing", "done", "dead"}
  /\ \A t \in Task : saved[t] \in {"created", "replaced"} => stage[t] = "done"
  /\ \A t \in Task : Alone(t) =>
       /\ stage[t] \in {"writing", "persisting"} =>
            (saw[t] = "created" <=> Len(history[SlugOf(t)]) = 0)
       /\ stage[t] = "syncing" =>
            (saw[t] = "created" <=> history[SlugOf(t)][1] = t)
       /\ saved[t] \in {"created", "replaced"} =>
            (saved[t] = "created" <=> history[SlugOf(t)][1] = t)

LEMMA SaveStarts ==
  ASSUME Start
  PROVE  SaveInv
<1>1. PICK jobs \in [Task -> Jobs],
           left \in SUBSET [name : Key, at : Int, whole : BOOLEAN] :
        StoreInit(jobs, {Leftover(f) : f \in left})
  BY DEF Start
<1>2. /\ stage = [t \in Task |-> IF Does(t) = "nothing" THEN "done" ELSE "start"]
      /\ saving = {} /\ history = [s \in Slug |-> <<>>]
      /\ saved = [t \in Task |-> "nothing"]
  BY <1>1 DEF StoreInit, AssetInit
<1>3. \A s \in Slug : Len(history[s]) = 0
  BY <1>2
<1>. QED  BY <1>2, <1>3 DEF SaveInv, LockedStages

\* Steps that leave the assets alone.
LEMMA SaveFrame ==
  ASSUME SaveInv, AssetInv, UNCHANGED <<job, history, saw, saved>>,
         saving' \subseteq saving,
         \A u \in Task : /\ stage'[u] \in LockedStages => stage'[u] = stage[u] /\ u \in saving'
                         /\ stage[u] \in {"syncing", "done", "dead"} =>
                              stage'[u] \in {stage[u], "dead"}
                         /\ stage[u] = "done" => stage'[u] = "done"
  PROVE  SaveInv'
<1>1. \A u \in Task : /\ Home(u)' = Home(u) /\ SlugOf(u)' = SlugOf(u)
                      /\ Alone(u)' = Alone(u)
  BY DEF Home, SlugOf, Does, Alone
<1>2. \A s \in Slug : \A i \in 1 .. Len(history[s]) : history[s][i] \in Task
  BY DEF AssetInv
<1>3. \A s \in Slug : \A i \in 1 .. Len(history'[s]) :
        stage'[history'[s][i]] \in {"syncing", "done", "dead"}
  BY <1>2 DEF SaveInv
<1>. QED  BY <1>1, <1>3 DEF SaveInv, LockedStages

\* A step of one download that puts nothing under a name.
LEMMA SaveMoves ==
  ASSUME SaveInv, AssetInv, NEW t \in Task, NEW s,
         stage' = [stage EXCEPT ![t] = s], UNCHANGED <<job, history>>,
         stage[t] \notin {"done", "dead"}, stage[t] = "syncing" => s = "done",
         s # "syncing", saw' \in [Task -> Outcomes], saved' \in [Task -> Outcomes],
         \A u \in Task \ {t} : saw'[u] = saw[u] /\ saved'[u] = saved[u],
         \/ s \notin LockedStages /\ saving' \subseteq saving /\ saving \subseteq saving' \cup {t}
         \/ s \in LockedStages /\ stage[t] \in LockedStages /\ saving' = saving
         \/ s \in LockedStages /\ MaySave(t) /\ saving' = saving \cup {t},
         saved'[t] \in {"created", "replaced"} => s = "done" /\ saved'[t] = saw[t] /\ stage[t] = "syncing",
         Alone(t) /\ s \in {"writing", "persisting"} =>
           (saw'[t] = "created" <=> Len(history[SlugOf(t)]) = 0)
  PROVE  SaveInv'
<1>1. \A u \in Task : /\ Home(u)' = Home(u) /\ SlugOf(u)' = SlugOf(u)
                      /\ Alone(u)' = Alone(u)
  BY DEF Home, SlugOf, Does, Alone
<1>2. /\ \A u \in Task \ {t} : stage'[u] = stage[u]
      /\ stage'[t] = s
  BY DEF AssetInv
<1>3. \A n \in Slug : \A i \in 1 .. Len(history'[n]) :
        stage'[history'[n][i]] \in {"syncing", "done", "dead"}
  <2>1. ASSUME NEW n \in Slug, NEW i \in 1 .. Len(history[n])
        PROVE  stage'[history[n][i]] \in {"syncing", "done", "dead"}
    <3>1. history[n][i] \in Task /\ stage[history[n][i]] \in {"syncing", "done", "dead"}
      BY <2>1 DEF SaveInv, AssetInv
    <3>. QED  BY <1>2, <3>1
  <2>. QED  BY <2>1
<1>4. \A u, v \in Task : u \in saving' /\ v \in saving' /\ Home(u) = Home(v) => u = v
  BY DEF SaveInv, MaySave, Siblings
<1>5. \A u \in Task : stage'[u] \in LockedStages => u \in saving'
  BY <1>2 DEF SaveInv
<1>6. \A u \in Task : saved'[u] \in {"created", "replaced"} => stage'[u] = "done"
  BY <1>2 DEF SaveInv
<1>7. ASSUME NEW u \in Task, Alone(u)
      PROVE  /\ stage'[u] \in {"writing", "persisting"} =>
                  (saw'[u] = "created" <=> Len(history[SlugOf(u)]) = 0)
             /\ stage'[u] = "syncing" =>
                  (saw'[u] = "created" <=> history[SlugOf(u)][1] = u)
             /\ saved'[u] \in {"created", "replaced"} =>
                  (saved'[u] = "created" <=> history[SlugOf(u)][1] = u)
  <2>1. CASE u = t
    BY <1>2, <1>7, <2>1 DEF SaveInv
  <2>2. CASE u # t
    BY <1>2, <1>7, <2>2 DEF SaveInv
  <2>. QED  BY <2>1, <2>2
<1>. QED  BY <1>1, <1>3, <1>4, <1>5, <1>6, <1>7 DEF SaveInv

\* The rename puts the first image under a name just if none was seen there.
LEMMA SavePuts ==
  ASSUME SaveInv, AssetInv, NEW t \in Task, stage[t] = "persisting",
         stage' = [stage EXCEPT ![t] = "syncing"],
         history' = [history EXCEPT ![SlugOf(t)] = Append(@, t)],
         UNCHANGED <<job, saving, saw, saved>>
  PROVE  SaveInv'
<1>. DEFINE n == SlugOf(t)
<1>0. /\ Does(t) = "download" /\ n \in Slug
      /\ history \in [Slug -> Seq(Task)] /\ DOMAIN stage = Task
  <2>1. Does(t) = "download"
    BY DEF AssetInv, Saving, SaveStages
  <2>. QED  BY <2>1, SlugOfDownload DEF AssetInv
<1>1. \A u \in Task : /\ Home(u)' = Home(u) /\ SlugOf(u)' = SlugOf(u)
                      /\ Alone(u)' = Alone(u)
  BY DEF Home, SlugOf, Does, Alone
<1>2. /\ \A u \in Task \ {t} : stage'[u] = stage[u]
      /\ stage'[t] = "syncing"
  BY <1>0
<1>3. /\ \A s \in Slug \ {n} : history'[s] = history[s]
      /\ history'[n] = Append(history[n], t)
  BY <1>0
<1>4. /\ history[n] \in Seq(Task) /\ Len(history[n]) \in Nat
      /\ Len(history'[n]) = Len(history[n]) + 1
      /\ \A i \in 1 .. Len(history[n]) : history'[n][i] = history[n][i]
      /\ history'[n][Len(history[n]) + 1] = t
  BY <1>0, <1>3
<1>5. ASSUME NEW s \in Slug, NEW i \in 1 .. Len(history'[s])
      PROVE  stage'[history'[s][i]] \in {"syncing", "done", "dead"}
  <2>1. CASE s = n /\ i = Len(history[n]) + 1
    BY <1>2, <1>4, <2>1
  <2>2. CASE ~(s = n /\ i = Len(history[n]) + 1)
    <3>1. i \in 1 .. Len(history[s]) /\ history'[s][i] = history[s][i]
      BY <1>3, <1>4, <1>5, <2>2
    <3>2. history[s][i] \in Task /\ stage[history[s][i]] \in {"syncing", "done", "dead"}
      BY <3>1 DEF SaveInv, AssetInv
    <3>. QED  BY <1>2, <3>1, <3>2
  <2>. QED  BY <2>1, <2>2
<1>6. \A u \in Task : stage'[u] \in LockedStages => u \in saving'
  BY <1>2 DEF SaveInv, LockedStages
<1>7. \A u \in Task : saved'[u] \in {"created", "replaced"} => stage'[u] = "done"
  BY <1>2 DEF SaveInv
<1>8. ASSUME NEW u \in Task, Alone(u)
      PROVE  /\ stage'[u] \in {"writing", "persisting"} =>
                  (saw[u] = "created" <=> Len(history'[SlugOf(u)]) = 0)
             /\ stage'[u] = "syncing" =>
                  (saw[u] = "created" <=> history'[SlugOf(u)][1] = u)
             /\ saved[u] \in {"created", "replaced"} =>
                  (saved[u] = "created" <=> history'[SlugOf(u)][1] = u)
  <2>1. CASE u = t
    <3>1. saw[t] = "created" <=> Len(history[n]) = 0
      BY <1>8, <2>1 DEF SaveInv
    <3>2. CASE Len(history[n]) = 0
      BY <1>2, <1>4, <2>1, <3>1, <3>2 DEF SaveInv
    <3>3. CASE Len(history[n]) # 0
      <4>1. 1 \in 1 .. Len(history[n])
        BY <1>4, <3>3
      <4>2. stage[history[n][1]] \in {"syncing", "done", "dead"}
        BY <1>0, <4>1 DEF SaveInv
      <4>3. history'[n][1] # t
        BY <1>4, <4>1, <4>2
      <4>. QED  BY <1>2, <2>1, <3>1, <3>3, <4>3 DEF SaveInv
    <3>. QED  BY <3>2, <3>3
  <2>2. CASE u # t /\ SlugOf(u) # n
    <3>1. stage'[u] \in LockedStages \/ saved[u] \in {"created", "replaced"} =>
            history'[SlugOf(u)] = history[SlugOf(u)]
      <4>1. stage[u] \in LockedStages \/ saved[u] \in {"created", "replaced"} =>
              SlugOf(u) \in Slug
        BY SlugOfDownload DEF AssetInv, Saving, SaveStages, LockedStages
      <4>. QED  BY <1>2, <1>3, <2>2, <4>1
    <3>. QED  BY <1>2, <1>8, <2>2, <3>1 DEF SaveInv, LockedStages
  <2>3. CASE u # t /\ SlugOf(u) = n
    <3>1. stage[u] \notin LockedStages
      <4>1. Home(t) = Home(u)
        BY <1>0, <1>8, <2>3 DEF Alone
      <4>. QED  BY <2>3, <4>1 DEF SaveInv, LockedStages
    <3>2. ASSUME saved[u] \in {"created", "replaced"}
          PROVE  history'[n][1] = history[n][1]
      <4>1. PICK i \in 1 .. kept[n] : history[n][i] = u
        BY <2>3, <3>2 DEF AssetInv, Among
      <4>2. kept[n] \in Nat /\ kept[n] <= Len(history[n])
        BY <1>0 DEF AssetInv
      <4>. QED  BY <1>4, <4>1, <4>2
    <3>. QED  BY <1>2, <1>8, <2>3, <3>1, <3>2 DEF SaveInv, LockedStages
  <2>. QED  BY <2>1, <2>2, <2>3
<1>9. \A u, v \in Task : u \in saving' /\ v \in saving' /\ Home(u) = Home(v) => u = v
  BY DEF SaveInv
<1>. QED  BY <1>1, <1>5, <1>6, <1>7, <1>8, <1>9 DEF SaveInv

\* What was reported is kept by a loss of power, and with it what was put first.
LEMMA SaveOutlivesPower ==
  ASSUME SaveInv, AssetInv, PowerLoss
  PROVE  SaveInv'
<1>1. /\ \A u \in Task : stage'[u] \in {"done", "dead"}
      /\ \A u \in Task : stage[u] = "done" => stage'[u] = "done"
      /\ UNCHANGED <<job, saw, saved>> /\ saving' = {}
  BY DEF PowerLoss, Die, Ended, LosePower
<1>2. \A u \in Task : SlugOf(u)' = SlugOf(u) /\ Alone(u)' = Alone(u)
  BY <1>1 DEF Home, SlugOf, Does, Alone
<1>3. PICK left \in [Slug -> 0 .. Cardinality(Task)] :
        /\ \A s \in Slug : left[s] \in kept[s] .. Len(history[s])
        /\ history' = [s \in Slug |-> SubSeq(history[s], 1, left[s])]
  BY DEF PowerLoss, LosePower
<1>4. ASSUME NEW s \in Slug
      PROVE  /\ \A i \in 1 .. Len(history'[s]) : history'[s][i] \in Task
             /\ kept[s] >= 1 => history'[s][1] = history[s][1]
  <2>1. /\ history[s] \in Seq(Task) /\ kept[s] \in Nat
        /\ left[s] \in Nat /\ left[s] <= Len(history[s]) /\ kept[s] <= left[s]
    BY <1>3 DEF AssetInv
  <2>2. history'[s] = SubSeq(history[s], 1, left[s])
    BY <1>3
  <2>. QED  BY <2>1, <2>2
<1>5. ASSUME NEW u \in Task, saved[u] \in {"created", "replaced"}
      PROVE  history'[SlugOf(u)][1] = history[SlugOf(u)][1]
  <2>1. SlugOf(u) \in Slug /\ Among(u, history[SlugOf(u)], kept[SlugOf(u)])
    BY <1>5, SlugOfDownload DEF AssetInv
  <2>2. kept[SlugOf(u)] >= 1
    BY <2>1 DEF Among, AssetInv
  <2>. QED  BY <1>4, <2>1, <2>2
<1>6. \A s \in Slug : \A i \in 1 .. Len(history'[s]) :
        stage'[history'[s][i]] \in {"syncing", "done", "dead"}
  BY <1>1, <1>4
<1>. QED  BY <1>1, <1>2, <1>5, <1>6 DEF SaveInv, LockedStages

LEMMA DownloadKeepsOrder ==
  ASSUME SaveInv, AssetInv, NEW t \in Task, Download(t), job' = job
  PROVE  SaveInv'
<1>0. /\ saw \in [Task -> Outcomes] /\ saved \in [Task -> Outcomes]
      /\ history \in [Slug -> Seq(Task)]
  BY DEF AssetInv
<1>1. stage[t] \notin {"done", "dead"}
  BY DEF Download, StartDownload, FetchImage, LookAtTarget, WriteBytes, Persist,
         SyncDirectory, At
<1>2. saved[t] \notin {"created", "replaced"}
  BY <1>1 DEF SaveInv
<1>3. ASSUME EndsAs(t, "failed"), UNCHANGED <<history, saw>>
      PROVE  SaveInv'
  <2>1. /\ stage' = [stage EXCEPT ![t] = "done"] /\ saving' = saving \ {t}
        /\ saved' = [saved EXCEPT ![t] = "failed"]
    BY <1>3 DEF EndsAs, GoTo
  <2>2. /\ saved' \in [Task -> Outcomes] /\ saved'[t] = "failed"
        /\ \A u \in Task \ {t} : saved'[u] = saved[u]
    BY <1>0, <2>1 DEF Outcomes
  <2>. QED  BY <1>0, <1>1, <1>3, <2>1, <2>2, SaveMoves DEF LockedStages
<1>4. CASE StartDownload(t)
  BY <1>0, <1>1, <1>2, <1>4, SaveMoves DEF StartDownload, GoTo, At, assetVars, LockedStages
<1>5. CASE FetchImage(t)
  <2>1. CASE GoTo(t, "embedded") /\ UNCHANGED assetVars
    BY <1>0, <1>1, <1>2, <1>5, <2>1, SaveMoves
       DEF FetchImage, GoTo, At, assetVars, LockedStages
  <2>. QED  BY <1>3, <1>5, <2>1 DEF FetchImage
<1>6. CASE LookAtTarget(t)
  <2>. DEFINE n == SlugOf(t)
  <2>1. /\ stage[t] = "embedded" /\ stage' = [stage EXCEPT ![t] = "writing"]
        /\ MaySave(t) /\ saving' = saving \cup {t} /\ UNCHANGED <<history, saved>>
        /\ saw' = [saw EXCEPT ![t] = IF history[n] = <<>> THEN "created" ELSE "replaced"]
    BY <1>6 DEF LookAtTarget, GoTo, At
  <2>2. history[n] \in Seq(Task)
    <3>1. Does(t) = "download"
      BY <2>1 DEF AssetInv, Saving, SaveStages
    <3>. QED  BY <1>0, <3>1, SlugOfDownload
  <2>3. history[n] = <<>> <=> Len(history[n]) = 0
    BY <2>2
  <2>4. /\ saw' \in [Task -> Outcomes]
        /\ saw'[t] = "created" <=> Len(history[n]) = 0
        /\ \A u \in Task \ {t} : saw'[u] = saw[u]
    BY <1>0, <2>1, <2>3 DEF Outcomes
  <2>. QED  BY <1>0, <1>1, <1>2, <2>1, <2>4, SaveMoves DEF LockedStages
<1>7. CASE WriteBytes(t)
  <2>1. CASE GoTo(t, "persisting") /\ UNCHANGED <<saving, saved>>
    <3>1. /\ stage[t] = "writing" /\ stage' = [stage EXCEPT ![t] = "persisting"]
          /\ UNCHANGED <<saving, saved, saw, history>>
      BY <1>7, <2>1 DEF WriteBytes, GoTo, At
    <3>2. Alone(t) => (saw[t] = "created" <=> Len(history[SlugOf(t)]) = 0)
      BY <3>1 DEF SaveInv
    <3>. QED  BY <1>0, <1>1, <1>2, <3>1, <3>2, SaveMoves DEF LockedStages
  <2>. QED  BY <1>3, <1>7, <2>1 DEF WriteBytes
<1>8. CASE Persist(t)
  <2>1. CASE GoTo(t, "syncing") /\ UNCHANGED <<saving, saved>>
             /\ history' = [history EXCEPT ![SlugOf(t)] = Append(@, t)]
    BY <1>8, <2>1, SavePuts DEF Persist, GoTo, At
  <2>. QED  BY <1>3, <1>8, <2>1 DEF Persist
<1>9. CASE SyncDirectory(t)
  <2>1. CASE EndsAs(t, saw[t])
    <3>1. /\ stage[t] = "syncing" /\ stage' = [stage EXCEPT ![t] = "done"]
          /\ saving' = saving \ {t} /\ UNCHANGED <<history, saw>>
          /\ saved' = [saved EXCEPT ![t] = saw[t]]
      BY <1>9, <2>1 DEF SyncDirectory, EndsAs, GoTo, At
    <3>2. /\ saved' \in [Task -> Outcomes] /\ saved'[t] = saw[t]
          /\ \A u \in Task \ {t} : saved'[u] = saved[u]
      BY <1>0, <3>1
    <3>. QED  BY <1>0, <1>1, <3>1, <3>2, SaveMoves DEF LockedStages
  <2>. QED  BY <1>3, <1>9, <2>1 DEF SyncDirectory
<1>. QED  BY <1>4, <1>5, <1>6, <1>7, <1>8, <1>9 DEF Download

LEMMA SaveKept ==
  ASSUME SaveInv, AssetInv, [Next]_vars
  PROVE  SaveInv'
<1>0. DOMAIN stage = Task /\ \A u \in Task : stage[u] \in LockedStages => u \in saving
  BY DEF AssetInv, SaveInv
<1>1. ASSUME NEW t \in Task, NEW s \in ElseStages, stage' = [stage EXCEPT ![t] = s],
             stage[t] \notin SaveStages \cup {"done", "dead"}, UNCHANGED <<job, assetVars>>
      PROVE  SaveInv'
  <2>1. \A u \in Task : /\ stage'[u] \in LockedStages => stage'[u] = stage[u]
                        /\ stage[u] \in {"syncing", "done", "dead"} => stage'[u] = stage[u]
    BY <1>0, <1>1 DEF LockedStages, SaveStages, ElseStages
  <2>. QED  BY <1>0, <1>1, <2>1, SaveFrame DEF assetVars
<1>2. CASE UNCHANGED <<job, stage, assetVars>>
  BY <1>0, <1>2, SaveFrame DEF assetVars
<1>3. ASSUME NEW t \in Task, Acquire(t), UNCHANGED assetVars
      PROVE  SaveInv'
  <2>1. stage[t] \notin SaveStages \cup {"done", "dead"}
    BY <1>3 DEF Acquire, ReadClock, Grant, Postpone, Wake, At, SaveStages
  <2>. QED  BY <1>1, <1>3, <2>1, AcquireStages
<1>4. ASSUME NEW t \in Task, UseCache(t), UNCHANGED <<job, assetVars>>
      PROVE  SaveInv'
  BY <1>1, <1>2, <1>4, CacheStages, CacheIsUsedOnTheWay
<1>5. ASSUME NEW p \in Process, Crash(p)
      PROVE  SaveInv'
  <2>. DEFINE lost == {t \in Task : Home(t) = p}
  <2>1. /\ lost \in SUBSET Task /\ Die(lost) /\ saving' = saving \ lost
        /\ UNCHANGED <<job, history, saw, saved>>
    BY <1>5 DEF Crash
  <2>. HIDE DEF lost
  <2>2. \A u \in Task : /\ stage'[u] \in {stage[u], "dead"}
                        /\ stage[u] \in {"done", "dead"} => stage'[u] = stage[u]
                        /\ u \in lost => stage'[u] \in {"done", "dead"}
    BY <2>1 DEF Die, Ended
  <2>3. \A u \in Task : stage'[u] \in LockedStages => stage'[u] = stage[u] /\ u \notin lost
    BY <2>2 DEF LockedStages
  <2>. QED  BY <1>0, <2>1, <2>2, <2>3, SaveFrame
<1>6. CASE Tick \/ UNCHANGED vars
  BY <1>2, <1>6 DEF Tick, vars
<1>. QED  BY <1>3, <1>4, <1>5, <1>6, SaveOutlivesPower, DownloadKeepsOrder DEF Next, Step

(***************************************************************************)
(* What a task is told is so: an answer from the cache is whole and came   *)
(* from the provider less than Ttl before the time the request took as its *)
(* own (is_fresh), and a download whose process alone saves under its name *)
(* is reported as a creation just if it was the first put there            *)
(* (write_atomic_replace looks for the target under WRITE_LOCK).           *)
(***************************************************************************)
THEOREM ReportsTruthful == Spec => []ReportsAreTruthful
<1>1. TimeInv /\ SaveInv => ReportsAreTruthful
  BY DEF TimeInv, SaveInv, Alone, ReportsAreTruthful, AnswersAreFresh, DispositionsAreTruthful
<1>. QED  BY <1>1, AssetStarts, AssetKept, CacheStarts, CacheKept, ClearStarts,
             ClearKept, GuardStarts, GuardKept, RootStarts, RootKept, LookStarts,
             LookKept, TimeStarts, TimeKept, SaveStarts, SaveKept, PTL DEF Spec
=============================================================================
