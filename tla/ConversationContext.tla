------------------------- MODULE ConversationContext -------------------------
(***************************************************************************)
(* The conversation of one user (pigagent/context): every session has a   *)
(* ContextManager with a memory of its own, in front of Redis and Postgres,*)
(* both shared.  A turn is numbered, put in the memory and pushed to the   *)
(* stores by tasks nobody awaits; a new session recovers the memory from   *)
(* Redis, or from Postgres, which then warms Redis up again; a compression *)
(* replaces the turns up to an anchor, end, by what it tells of them.      *)
(*                                                                         *)
(* A text is the set of the utterances it tells of.  Games give a turn its *)
(* roast_instance_id.  The profile layer, L2, and the game state are left  *)
(* out.                                                                    *)
(***************************************************************************)
EXTENDS Positions, FiniteSets, SequencesExt

CONSTANTS
  Managers,   \* sessions of the user; a manager serves one after another
  Games,      \* roast_instance_ids
  TurnCount,  \* bounds what is said
  MaxTurns,   \* CONTEXT_MAX_TURNS
  Window,     \* CONTEXT_HOT_WINDOW_SIZE, MaxTurns + 50 in the code
  MemoryTurns, \* bounds the turns in the memory of a session, recovered or said
  RoastMin,   \* the 20 turns of a game before it is first compressed
  JobCount,   \* bounds the compressions under way at once
  TaskCount,  \* bounds the writes a compression may still find in the queue
  Outages,    \* what goes wrong: a set of subsets of {"redis", "pg", "week"}
  ModelFails, \* the language model may fail
  Calm,       \* see Calm operation below
  None

ASSUME WindowAssumption == MaxTurns \in Nat /\ Window \in Nat /\ MaxTurns < Window
ASSUME BoundsAssumption == {TurnCount, MemoryTurns, RoastMin, JobCount, TaskCount} \subseteq Nat
ASSUME FaultAssumption ==
  Outages \subseteq SUBSET {"redis", "pg", "week"} /\ ModelFails \in BOOLEAN /\ Calm \in BOOLEAN
ASSUME NoneAssumption == None \notin Games

VARIABLES
  mgr,         \* the ContextManager of a session and the calls under way in it
  said,        \* the utterances so far: the game each belongs to, or None
  jobs,        \* ContextCompressor.run tasks
  redisTasks,  \* tasks that write to Redis, each the writes it has left
  pgTasks,     \* tasks that write to Postgres
  redis,       \* ctx:{user}:turns and ctx:{user}:summaries
  pg,          \* agent_conversations and context_summaries
  outage       \* the stores that are down; "week": Redis may expire

contextVars == <<mgr, said, jobs, redisTasks, pgTasks, redis, pg, outage>>

NoSummary == [end |-> 0, l3 |-> {}, l4 |-> {}, rid |-> None, prompt |-> 0, rules |-> {}]

Closed == [open |-> FALSE, turns |-> <<>>, sums |-> NoSummary, loaded |-> FALSE,
           load |-> "no", data |-> NoSummary, add |-> "no", n |-> 0]

-----------------------------------------------------------------------------
(* Records: turn > 0 is real, -2 and -1 carry the summaries L3 and L4. *)

Ids(rs)     == UNION {rs[i].ids : i \in DOMAIN rs}
After(rs, anchor) == Pick(rs, {i \in DOMAIN rs : rs[i].turn > anchor})
Real(rs)    == After(rs, 0)
Virtual(rs) == Pick(rs, {i \in DOMAIN rs : rs[i].turn <= 0})
LastN(rs, n) == IF Len(rs) > n THEN SubSeq(rs, Len(rs) - n + 1, Len(rs)) ELSE rs

Hot(rs, n) == Virtual(rs) \o LastN(Real(rs), n)
LastTurn(rs) == IF Real(rs) = <<>> THEN 0 ELSE Last(Real(rs)).turn
LastRid(rs) == IF rs = <<>> THEN None ELSE Last(rs).rid

(* What the stores answer: nothing when they are down. *)
Up(store) == store \notin outage
RedisTurns   == IF Up("redis") THEN redis.turns ELSE <<>>
RedisSummary == IF Up("redis") THEN redis.sum ELSE NoSummary
PgRows == IF Up("pg") THEN pg.rows ELSE {}
PgLast == LET turns == {r.turn : r \in PgRows} IN
  IF turns = {} THEN 0 ELSE CHOOSE t \in turns : \A u \in turns : u <= t
PgSummary(otherwise) == IF ~Up("pg") \/ pg.sums = {} THEN otherwise
  ELSE CHOOSE s \in pg.sums : \A o \in pg.sums : o.end <= s.end

(* The first rows after the anchor, at most a window of them. *)
PgTurns(anchor) ==
  LET numbers == Pick([t \in 1..PgLast |-> t], {r.turn : r \in {q \in PgRows : q.turn > anchor}})
      first == SubSeq(numbers, 1, IF Len(numbers) > Window THEN Window ELSE Len(numbers))
  IN [i \in DOMAIN first |-> CHOOSE r \in PgRows : r.turn = first[i]]

-----------------------------------------------------------------------------
(* Calm operation: one session at a time; the next one opens once the      *)
(* writes of the one before are done, loads its context before it adds to  *)
(* it and adds nothing while it loads, the tasks of a store end in the     *)
(* order they were started, and the process is not killed.                 *)

Open(m) ==
  /\ ~mgr[m].open
  /\ Calm => redisTasks = <<>> /\ pgTasks = <<>> /\ \A o \in Managers : ~mgr[o].open
  /\ mgr' = [mgr EXCEPT ![m] = [Closed EXCEPT !.open = TRUE]]
  /\ UNCHANGED <<said, jobs, redisTasks, pgTasks, redis, pg, outage>>

(* The session ends; its tasks go on, unless the process goes with it. *)
EndSession(m) ==
  /\ mgr[m].open
  /\ mgr' = [mgr EXCEPT ![m] = Closed]
  /\ \/ UNCHANGED <<jobs, redisTasks, pgTasks>>
     \/ ~Calm /\ jobs' = {} /\ redisTasks' = <<>> /\ pgTasks' = <<>>
  /\ UNCHANGED <<said, redis, pg, outage>>

-----------------------------------------------------------------------------
(* add_turn: the number from the memory, else Redis, else Postgres, under  *)
(* the lock of the manager.                                                *)

MayAdd(m) ==
  /\ mgr[m].open /\ mgr[m].add = "no"
  /\ Len(said) < TurnCount /\ Len(Real(mgr[m].turns)) < MemoryTurns
  /\ Calm => mgr[m].loaded /\ mgr[m].load = "no"

(* assign_roast_instance_id: given to the first turn of a game, inherited, *)
(* or stale after a day.                                                   *)
Rids(history) == (Games \ ToSet(said)) \cup {LastRid(history), None}

Push(m, n, history) == \E rid \in Rids(history) :
  LET r == [turn |-> n, ids |-> {Len(said) + 1}, rid |-> rid] IN
  /\ said' = Append(said, rid)
  /\ mgr' = [mgr EXCEPT ![m].turns = Append(@, r), ![m].add = "no", ![m].n = 0]
  /\ redisTasks' = Append(redisTasks, <<[put |-> "turn", what |-> r]>>)
  /\ pgTasks' = Append(pgTasks, <<[put |-> "turn", what |-> r]>>)

AddTurn(m) ==
  /\ MayAdd(m)
  /\ IF LastTurn(mgr[m].turns) > 0
     THEN Push(m, LastTurn(mgr[m].turns) + 1, mgr[m].turns)
     ELSE /\ mgr' = [mgr EXCEPT ![m].add = "redis"]
          /\ UNCHANGED <<said, redisTasks, pgTasks>>
  /\ UNCHANGED <<jobs, redis, pg, outage>>

AddAsksRedis(m) ==
  /\ mgr[m].add = "redis"
  /\ LET n == IF RedisTurns = <<>> THEN 0 ELSE Last(RedisTurns).turn IN
       mgr' = [mgr EXCEPT ![m].n = n, ![m].add = IF n = 0 THEN "pg" ELSE "push"]
  /\ UNCHANGED <<said, jobs, redisTasks, pgTasks, redis, pg, outage>>

(* mutant: Postgres is not asked *)
CountsFromZero(m) ==
  /\ mgr[m].add = "pg"
  /\ mgr' = [mgr EXCEPT ![m].n = 0, ![m].add = "push"]
  /\ UNCHANGED <<said, jobs, redisTasks, pgTasks, redis, pg, outage>>

AddAsksPg(m) ==
  /\ mgr[m].add = "pg"
  /\ mgr' = [mgr EXCEPT ![m].n = PgLast, ![m].add = "push"]
  /\ UNCHANGED <<said, jobs, redisTasks, pgTasks, redis, pg, outage>>

AddCold(m) ==
  /\ mgr[m].add = "push" /\ Len(said) < TurnCount
  /\ Push(m, mgr[m].n + 1, IF mgr[m].turns = <<>> THEN RedisTurns ELSE mgr[m].turns)
  /\ UNCHANGED <<jobs, redis, pg, outage>>

-----------------------------------------------------------------------------
(* assemble *)

(* A summary is consumed once: its layers become records of the list. *)
WithSummary(data, rs) ==
  <<[turn |-> -2, ids |-> data.l3, rid |-> None]>>
    \o (IF data.l4 = {} THEN <<>> ELSE <<[turn |-> -1, ids |-> data.l4, rid |-> data.rid]>>)
    \o rs

(* should_compress: too many turns, or (long) too many tokens.  The flag   *)
(* that is looked at is never set: the compressor has a memory of its own. *)
Started(records, data) ==
  LET job == [records |-> records, l3 |-> data.l3, l4 |-> data.l4] IN
  IF records = <<>> \/ Cardinality(jobs) >= JobCount THEN {jobs}
  ELSE IF Len(Real(records)) > MaxTurns THEN {jobs \cup {job}}
  ELSE {jobs, jobs \cup {job}}

(* The turns of a game, the first of which holds its rules. *)
GameTurns(rs, rid) == Pick(rs, {i \in DOMAIN rs : rs[i].turn > 0 /\ rs[i].rid = rid})

(* to_records: in a game its rules go in front. *)
Unified(list, memory) == LET game == GameTurns(memory, LastRid(list)) IN
  IF LastRid(list) = None \/ game = <<>> THEN list ELSE <<Head(game)>> \o list

(* The rest of assemble once the records are there, with no await. *)
Finish(m, memory, data, rs) ==
  LET list == IF data.l3 = {} THEN rs ELSE WithSummary(data, rs)
  IN /\ mgr' = [mgr EXCEPT ![m] = [memory EXCEPT
                  !.turns = IF data.l3 = {} THEN @ ELSE list,
                  !.sums = IF data.l3 = {} THEN @ ELSE NoSummary,
                  !.load = "no", !.data = NoSummary, !.loaded = TRUE]]
     /\ jobs' \in Started(Unified(list, IF data.l3 = {} THEN memory.turns ELSE list), data)

LoadWarm(m) ==
  /\ mgr[m].open /\ mgr[m].load = "no" /\ mgr[m].turns # <<>>
  /\ Finish(m, mgr[m], mgr[m].sums, Hot(mgr[m].turns, Window))
  /\ UNCHANGED <<said, redisTasks, pgTasks, redis, pg, outage>>

LoadCold(m) ==
  /\ mgr[m].open /\ mgr[m].load = "no" /\ mgr[m].turns = <<>>
  /\ Calm => mgr[m].add = "no"
  /\ LET data == IF mgr[m].sums = NoSummary THEN RedisSummary ELSE mgr[m].sums IN
       mgr' = [mgr EXCEPT ![m].load = "redis", ![m].data = data, ![m].sums = data]
  /\ UNCHANGED <<said, jobs, redisTasks, pgTasks, redis, pg, outage>>

LoadRedis(m) ==
  /\ mgr[m].load = "redis"
  /\ LET rs == LastN(After(RedisTurns, mgr[m].data.end), Window)
         filled == [mgr[m] EXCEPT !.turns = rs, !.sums = mgr[m].data]
     IN IF rs = <<>>
        THEN mgr' = [mgr EXCEPT ![m].load = "pg"] /\ UNCHANGED jobs
        ELSE Finish(m, filled, mgr[m].data, rs)
  /\ UNCHANGED <<said, redisTasks, pgTasks, redis, pg, outage>>

Rewarm(data, rs) ==
  <<[put |-> "summary", what |-> data]>> \o [i \in DOMAIN rs |-> [put |-> "turn", what |-> rs[i]]]

LoadPg(m) ==
  /\ mgr[m].load = "pg"
  /\ LET data == PgSummary(mgr[m].data)
         rs == PgTurns(data.end)
         filled == [mgr[m] EXCEPT !.turns = rs, !.sums = data]
     IN IF rs = <<>>
        THEN Finish(m, mgr[m], data, rs) /\ UNCHANGED redisTasks
        ELSE Finish(m, filled, data, rs) /\ redisTasks' = Append(redisTasks, Rewarm(data, rs))
  /\ UNCHANGED <<said, pgTasks, redis, pg, outage>>

-----------------------------------------------------------------------------
(* The compressor.  A model that fails leaves the text there was. *)

Told(existing, rs, ok) == IF ok THEN existing \cup Ids(rs) ELSE existing

VirtualText(rs, turn, otherwise) ==
  LET found == Pick(rs, {i \in DOMAIN rs : rs[i].turn = turn})
  IN IF found = <<>> THEN otherwise ELSE Last(found).ids

FreeChat(job, ok) == LET turns == Real(job.records) IN
  [NoSummary EXCEPT !.end = Last(turns).turn,
                    !.l3 = Told(VirtualText(job.records, -2, job.l3), turns, ok)]

(* The game of the last turns; its first turn holds the rules, which the   *)
(* stored summary may know of when they are gone from the list.            *)
Roast(job, ok, enough) ==
  LET turns == Real(job.records)
      rid == Last(turns).rid
      first == Head(GameTurns(turns, rid))
      s == RedisSummary
      known == s.rid = rid /\ s.prompt > 0 /\ s.prompt < first.turn
      prompt == IF known THEN s.prompt ELSE first.turn
      before == Pick(turns, {i \in DOMAIN turns : turns[i].turn < prompt})
      played == Pick(turns, {i \in DOMAIN turns : turns[i].turn > prompt /\ turns[i].rid = rid})
      told3 == VirtualText(job.records, -2, job.l3)
      told4 == VirtualText(job.records, -1, job.l4)
      due == enough /\ played # <<>> /\ (told4 = {} => Len(played) >= RoastMin)
  IN [end |-> IF Last(turns).turn < prompt THEN prompt ELSE Last(turns).turn,
      l3 |-> IF before = <<>> THEN told3 ELSE Told(told3, before, ok),
      l4 |-> IF due THEN Told(told4, played, ok) ELSE {},
      rid |-> rid, prompt |-> prompt, rules |-> IF known THEN s.rules ELSE first.ids]

Compressed(job, ok, enough) ==
  IF Last(Real(job.records)).rid = None THEN FreeChat(job, ok) ELSE Roast(job, ok, enough)

(* mutant: the anchor is past the last turn *)
SkipsATurn(job) ==
  /\ Len(redisTasks) < TaskCount /\ Len(pgTasks) < TaskCount
  /\ jobs' = jobs \ {job}
  /\ IF Real(job.records) = <<>> THEN UNCHANGED <<redisTasks, pgTasks>>
     ELSE \E ok \in (IF ModelFails THEN BOOLEAN ELSE {TRUE}), enough \in BOOLEAN :
       LET put == <<[put |-> "summary", what |->
                       [Compressed(job, ok, enough) EXCEPT !.end = @ + 1]]>> IN
       redisTasks' = Append(redisTasks, put) /\ pgTasks' = Append(pgTasks, put)
  /\ UNCHANGED <<mgr, said, redis, pg, outage>>

Compress(job) ==
  /\ Len(redisTasks) < TaskCount /\ Len(pgTasks) < TaskCount
  /\ jobs' = jobs \ {job}
  /\ IF Real(job.records) = <<>> THEN UNCHANGED <<redisTasks, pgTasks>>
     ELSE \E ok \in (IF ModelFails THEN BOOLEAN ELSE {TRUE}), enough \in BOOLEAN :
       LET put == <<[put |-> "summary", what |-> Compressed(job, ok, enough)]>> IN
       redisTasks' = Append(redisTasks, put) /\ pgTasks' = Append(pgTasks, put)
  /\ UNCHANGED <<mgr, said, redis, pg, outage>>

-----------------------------------------------------------------------------
(* The tasks. *)

Advance(tasks, i) == IF Len(tasks[i]) = 1 THEN RemoveAt(tasks, i)
                   ELSE ReplaceAt(tasks, i, Tail(tasks[i]))

RedisWrite(i) == LET w == Head(redisTasks[i]) IN
  /\ Calm => i = 1
  /\ redisTasks' = Advance(redisTasks, i)
  /\ redis' = CASE ~Up("redis") -> redis
                [] Up("redis") /\ w.put = "turn" ->
                     [redis EXCEPT !.turns = LastN(Append(@, w.what), Window)]
                [] OTHER -> [redis EXCEPT !.sum = w.what]
  /\ UNCHANGED <<mgr, said, jobs, pgTasks, pg, outage>>

(* ON CONFLICT DO NOTHING: both tables keep the row that is there. *)
WithRow(rows, r)     == IF \E q \in rows : q.turn = r.turn THEN rows ELSE rows \cup {r}
WithSummaryRow(s, n) == IF \E o \in s : o.end = n.end THEN s ELSE s \cup {n}

PgWrite(i) == LET w == Head(pgTasks[i]) IN
  /\ Calm => i = 1
  /\ pgTasks' = Advance(pgTasks, i)
  /\ pg' = CASE ~Up("pg") -> pg
             [] Up("pg") /\ w.put = "turn" -> [pg EXCEPT !.rows = WithRow(@, w.what)]
             [] OTHER -> [pg EXCEPT !.sums = WithSummaryRow(@, w.what)]
  /\ UNCHANGED <<mgr, said, jobs, redisTasks, redis, outage>>

(* A week without a write: every key goes at once. *)
RedisExpires ==
  /\ "week" \in outage
  /\ redis # [turns |-> <<>>, sum |-> NoSummary]
  /\ redisTasks = <<>> /\ \A m \in Managers : ~mgr[m].open
  /\ redis' = [turns |-> <<>>, sum |-> NoSummary]
  /\ UNCHANGED <<mgr, said, jobs, redisTasks, pgTasks, pg, outage>>

-----------------------------------------------------------------------------
ContextInit ==
  /\ mgr = [m \in Managers |-> Closed]
  /\ said = <<>>
  /\ jobs = {}
  /\ redisTasks = <<>> /\ pgTasks = <<>>
  /\ redis = [turns |-> <<>>, sum |-> NoSummary]
  /\ pg = [rows |-> {}, sums |-> {}]
  /\ outage \in Outages

ContextNext ==
  \/ \E m \in Managers :
       \/ Open(m) \/ EndSession(m)
       \/ AddTurn(m) \/ AddAsksRedis(m) \/ AddAsksPg(m) \/ AddCold(m)
       \/ LoadWarm(m) \/ LoadCold(m) \/ LoadRedis(m) \/ LoadPg(m)
  \/ \E job \in jobs : Compress(job)
  \/ \E i \in DOMAIN redisTasks : RedisWrite(i)
  \/ \E i \in DOMAIN pgTasks : PgWrite(i)
  \/ RedisExpires

ContextSpec == ContextInit /\ [][ContextNext]_contextVars

-----------------------------------------------------------------------------
Utterances == 1 .. TurnCount
TurnNumbers == {-2, -1} \cup Utterances
Records == [turn : TurnNumbers, ids : SUBSET Utterances, rid : Games \cup {None}]
Summaries == [end : 0 .. TurnCount, l3 : SUBSET Utterances, l4 : SUBSET Utterances,
              rid : Games \cup {None}, prompt : 0 .. TurnCount, rules : SUBSET Utterances]

(* Type invariant: no store holds a virtual record or a number of no turn. *)
ContextTypeOK ==
  /\ mgr \in [Managers -> [open : BOOLEAN, turns : Seq(Records), sums : Summaries,
       loaded : BOOLEAN, load : {"no", "redis", "pg"}, data : Summaries,
       add : {"no", "redis", "pg", "push"}, n : 0 .. TurnCount]]
  /\ said \in Seq(Games \cup {None})
  /\ \A job \in jobs : job.records \in Seq(Records) /\ job.l3 \subseteq Utterances
  /\ redis.turns \in Seq(Records) /\ Virtual(redis.turns) = <<>> /\ redis.sum \in Summaries
  /\ pg.sums \subseteq Summaries /\ \A r \in pg.rows : r \in Records /\ r.turn > 0

FreeChatUtterances == {i \in DOMAIN said : said[i] = None}

(* What the next reply of a session is given of the conversation. *)
Context(m) == Ids(Hot(mgr[m].turns, Window)) \cup mgr[m].sums.l3 \cup mgr[m].sums.l4

(* A session that has loaded its context knows of everything said outside  *)
(* of games, in this session and in those before it, from its records or a *)
(* summary (assemble).  Does not hold once Redis has expired: a recovery   *)
(* that finds a summary in Postgres and no turns behind it does not warm   *)
(* Redis up, and the session after next reads the new turns in Redis only. *)
NothingForgotten == \A m \in Managers :
  mgr[m].loaded => FreeChatUtterances \subseteq Context(m)

(* The same as long as Redis does not expire, also with either store down. *)
RemembersFreeChat == "week" \notin outage => NothingForgotten

(* A summary tells of every turn up to its anchor that is not of a game,   *)
(* over restarts and repeated compressions, unless Redis expires: what is  *)
(* behind the anchor is never read again (_run_free_chat, _run_roast).     *)
AnchorKeepsFreeChat == "week" \notin outage => \A s \in pg.sums \cup {redis.sum} : \A r \in pg.rows :
  r.turn <= s.end /\ r.rid = None => r.ids \subseteq s.l3

(* No turn is given a number another turn has been stored under, which     *)
(* Postgres would silently drop (add_turn, ON CONFLICT DO NOTHING).        *)
NumbersNotReused == \A i \in DOMAIN pgTasks : \A k \in DOMAIN pgTasks[i] :
  LET w == pgTasks[i][k] IN
  w.put = "turn" => \A r \in pg.rows : r.turn = w.what.turn => r = w.what

(* Nothing said in free chat is lost, neither to a session that has loaded *)
(* its context nor behind the anchor of a summary (context/manager.py:     *)
(* 147-264, compression/compressor.py:88-273).  Does not hold once two     *)
(* compressions overlap, which a lock should prevent that is never read:   *)
(* the one that ends last may have begun first, and puts the anchor back   *)
(* behind turns that Redis has dropped.                                    *)
FreeChatKept == RemembersFreeChat /\ AnchorKeepsFreeChat
=============================================================================
