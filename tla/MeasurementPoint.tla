-------------------------- MODULE MeasurementPoint --------------------------
(***************************************************************************)
(* The life of an instrumented application's measurement points: samples   *)
(* are injected (lib/client/api.c), go through the filters of every stream *)
(* of their point, and are reported as rows, by the injecting thread when  *)
(* there are enough of them or by the stream's own thread periodically     *)
(* (filter.c); omlc_close (init.c) reports what is left and frees it all.  *)
(*                                                                         *)
(* A row is handed to a writer in one step: row_start takes the writer's   *)
(* lock and row_end releases it (BufferedWriter models what happens then). *)
(***************************************************************************)
EXTENDS ClientConfig

CONSTANTS
  Apps,          \* the threads of the application
  FilterThreads, \* names for the filtering threads, in the order they start
  Setups,        \* what the application may be started with: [argv, env, late],
                 \* where late is the point it adds after omlc_start, or <<>>
  Files,         \* the configuration files
  AppMPs,        \* the measurement points it has: a sequence of [name, fields]
  Numbers,       \* the numbers in the samples, in order,
  Labels,        \* and the strings
  MaxReports,    \* bound: periodic reports before the end, times threads
  SignalAt,      \* where a thread may be when it gets SIGTERM or the like
  JoinsFirst     \* whether the application joins its threads before it closes

Threads == Apps \cup Range(FilterThreads)
Nobody == "nobody"

ASSUME MeasurementPointAssumption ==
  /\ Len(Numbers) = Len(Labels)
  /\ MaxReports \in Nat /\ Len(AppMPs) \in Nat
  /\ SignalAt \subseteq STRING /\ JoinsFirst \in BOOLEAN
  /\ FilterThreads \in Seq(Range(FilterThreads)) /\ IsInjective(FilterThreads)
  /\ Apps \cap Range(FilterThreads) = {} /\ Nobody \notin Threads

VARIABLES
  setup,   \* what it was started with
  client,  \* omlc_instance, and what hangs on it
  frame,   \* where each thread is
  holder,  \* who holds the mutex of each measurement point
  out,     \* what each writer was given: schema lines and rows
  seen,    \* the samples that reached each stream
  cuts,    \* how many there were at the end of each of its windows
  samples, \* how many were injected
  freed,   \* the streams that were freed
  over     \* whether the process has ended

history == <<out, seen, cuts>>
memory == <<freed, over>>
vars == <<setup, client, frame, holder, history, samples, memory>>

At(pc, job, m) == [pc |-> pc, job |-> job, mp |-> m, todo |-> <<>>, k |-> 1, v |-> <<>>,
                   add |-> FALSE]
Idle == At("idle", "", 0)

Runs(t, pc) == ~over /\ frame[t].pc = pc
Stream(t) == Head(frame[t].todo)
Moves(t, f) == frame' = [frame EXCEPT ![t] = f]

(* omlc_init and omlc_add_mp.                                              *)
Initialised(s) ==
  LET c == OmlcInit(s.argv, s.env)
  IN  IF c.up THEN FoldLeft(LAMBDA d, mp : AddMP(d, mp.name, mp.fields), c, AppMPs) ELSE c

PointCount == 2 + Len(AppMPs) + 1

Init ==
  /\ setup \in Setups
  /\ client = Initialised(setup)
  /\ frame = [t \in Threads |-> IF t \in Apps THEN Idle ELSE At("none", "report", 0)]
  /\ holder = [m \in 1..PointCount |-> Nobody]
  /\ out = <<>> /\ seen = <<>> /\ cuts = <<>>
  /\ samples = 0
  /\ freed = {} /\ over = FALSE

----------------------------------------------------------------------------
(* omlc_start.                                                             *)

SchemaLine(ms) == [kind |-> "schema", index |-> ms.index, columns |-> Columns(ms)]

(* write_meta, to a writer: the schemas of the streams that have it.       *)
Headers(c, w) ==
  LET mine == SelectSeq(StreamOrder(c), LAMBDA id : w \in Range(c.streams[id].writers))
  IN  [k \in DOMAIN mine |-> SchemaLine(c.streams[mine[k]])]

(* The threads that were started since there were n.                       *)
Started(c, n) ==
  [t \in Threads |->
     IF \E k \in n + 1..Len(c.threads) : FilterThreads[k] = t
       THEN LET k == CHOOSE k \in n + 1..Len(c.threads) : FilterThreads[k] = t
            IN  [At("sleep", "report", c.streams[c.threads[k]].mp)
                   EXCEPT !.todo = <<c.threads[k]>>]
       ELSE frame[t]]

Empty(s) == [k \in DOMAIN s |-> <<>>]

(* In omlc_start, with the headers still to be written.                    *)
Announcing == At("meta", "start", 0)

(* The configuration, which is read in one step.  It starts the filtering  *)
(* threads; one that fails ends the client, one that crashes the program.  *)
Start(t) ==
  /\ Runs(t, "idle") /\ t \in Apps
  /\ client.up /\ ~client.started
  /\ \E c \in {OmlcStart(client, Files)} :
      /\ IF c.up
           THEN /\ client' = c
                /\ frame' = [Started(c, 0) EXCEPT ![t] = Announcing]
                /\ out' = Empty(c.writers)
                /\ seen' = Empty(c.streams) /\ cuts' = Empty(c.streams)
                /\ UNCHANGED over
           ELSE /\ client' = [client EXCEPT !.up = FALSE]
                /\ over' = c.crashed
                /\ UNCHANGED <<frame, history>>
      /\ UNCHANGED <<setup, holder, samples, freed>>

(* write_meta: the streams get their numbers and the writers the headers,  *)
(* unless another thread has closed the client: there is no first_writer.  *)
WriteMeta(t) ==
  /\ Runs(t, "meta")
  /\ \E c \in {NumberStreams(client)} :
       /\ client' = c
       /\ out' = [w \in DOMAIN out |-> out[w] \o Headers(c, w)]
  /\ over' = ~client.up
  /\ Moves(t, Idle)
  /\ UNCHANGED <<setup, holder, seen, cuts, samples, freed>>

----------------------------------------------------------------------------
(* Injection.                                                              *)

(* omlc_inject does nothing unless the client was started.                 *)
Accepts == client.up /\ client.started

SampleOf(m, n) ==
  [k \in DOMAIN client.mpoints[m].fields |->
     IF client.mpoints[m].fields[k].type \in NumericTypes THEN Numbers[n] ELSE Labels[n]]

Note(key, index, columns) == <<[key |-> key, index |-> index, columns |-> columns]>>

Inject(t) ==
  \E m \in 3..Len(client.mpoints) :
    /\ samples < Len(Numbers)
    /\ samples' = samples + 1
    /\ Moves(t, [At("lock", "inject", m) EXCEPT !.v = SampleOf(m, samples + 1)])
    /\ UNCHANGED client

(* omlc_inject_metadata.                                                   *)
InjectMetadata(t) ==
  /\ samples < Len(Numbers)
  /\ samples' = samples + 1
  /\ Moves(t, [At("lock", "inject", Schema0) EXCEPT !.v = Note("note", samples, <<>>)])

(* omlc_add_mp after omlc_start: the schema is announced in schema 0.      *)
AddLate(t) ==
  /\ setup.late # <<>>
  /\ FindMP(client, setup.late[1].name) = 0
  /\ \A u \in Apps : ~frame[u].add
  /\ Moves(t, [At("lock", "inject", Schema0) EXCEPT
                 !.v = Note("schema", client.next_ms_idx, FieldColumns(setup.late[1].fields)),
                 !.add = TRUE])
  /\ UNCHANGED samples

(* The application is in its own call of omlc_close.                       *)
Closing == \E u \in Apps : frame[u].job = "close" /\ ~frame[u].add

Call(t) ==
  /\ Runs(t, "idle") /\ t \in Apps
  /\ Accepts
  /\ ~(JoinsFirst /\ Closing)
  /\ Inject(t) \/ InjectMetadata(t) \/ AddLate(t)
  /\ UNCHANGED <<setup, client, holder, history, memory>>

(* mp_lock: nothing at all for a point without a mutex.                    *)
Guarded(m) == client.mpoints[m].guarded

(* Mutant of CanLock: the mutex is never waited for.                       *)
CanLockAlways(m) == TRUE

CanLock(m) == Guarded(m) => holder[m] = Nobody

(* Mutants of Locked: the filtering thread does not look whether the point *)
(* is still active; and then goes on sleeping.                             *)
LockedAnyway(t) ==
  LET f == frame[t]
      m == client.mpoints[f.mp]
  IN  CASE f.job = "inject" -> [f EXCEPT !.pc = "feed", !.todo = m.streams]
        [] f.job = "close" -> [f EXCEPT !.pc = "destroy", !.todo = m.streams]
        [] f.job = "report" -> [f EXCEPT !.pc = "row", !.k = 1]

LockedAgain(t) ==
  LET f == frame[t]
      m == client.mpoints[f.mp]
  IN  CASE f.job = "inject" -> [f EXCEPT !.pc = "feed", !.todo = m.streams]
        [] f.job = "close" -> [f EXCEPT !.pc = "destroy", !.todo = m.streams]
        [] f.job = "report" -> [f EXCEPT !.pc = IF m.active THEN "row" ELSE "unlock", !.k = 1]

(* What a thread does once it has the lock.                                *)
Locked(t) ==
  LET f == frame[t]
      m == client.mpoints[f.mp]
  IN  CASE f.job = "inject" -> [f EXCEPT !.pc = "feed", !.todo = m.streams]
        [] f.job = "close" -> [f EXCEPT !.pc = "destroy", !.todo = m.streams]
        [] f.job = "report" -> [f EXCEPT !.pc = IF m.active THEN "row" ELSE "end", !.k = 1]

Lock(t) ==
  LET m == frame[t].mp
  IN  /\ Runs(t, "lock")
      /\ CanLock(m)
      /\ holder' = [holder EXCEPT ![m] = IF Guarded(m) THEN t ELSE @]
      /\ Moves(t, Locked(t))
      /\ client' = IF frame[t].job = "close" THEN [client EXCEPT !.mpoints[m].active = FALSE]
                                             ELSE client
      /\ UNCHANGED <<setup, history, samples, memory>>

Uses(t, pc) == Runs(t, pc) /\ frame[t].todo # <<>>

(* A filter of the stream is given its field of the sample.  One without   *)
(* state is the end of the process.                                        *)
Feed(t) ==
  LET id == Stream(t)
      k == frame[t].k
      Input(f) == IF f.usable THEN FilterInput(f, frame[t].v[f.index]) ELSE f
  IN  /\ Uses(t, "feed")
      /\ k <= Len(client.streams[id].filters)
      /\ client' = [client EXCEPT !.streams[id].filters[k] = Input(@)]
      /\ over' = ~client.streams[id].filters[k].usable
      /\ seen' = IF k = 1 THEN [seen EXCEPT ![id] = Append(@, frame[t].v)] ELSE seen
      /\ Moves(t, [frame[t] EXCEPT !.k = @ + 1])
      /\ UNCHANGED <<setup, holder, out, cuts, samples, freed>>

Reports(ms) == ms.thres > 0 /\ ms.size + 1 >= ms.thres

(* omlc_ms_process: enough samples make a row.                             *)
CountSample(t) ==
  LET ms == client.streams[Stream(t)]
  IN  /\ Uses(t, "feed")
      /\ frame[t].k > Len(ms.filters)
      /\ client' = [client EXCEPT !.streams[Stream(t)].size = IF ms.thres > 0 THEN @ + 1 ELSE @]
      /\ Moves(t, IF Reports(ms) THEN [frame[t] EXCEPT !.pc = "row", !.k = 1]
                                 ELSE [frame[t] EXCEPT !.todo = Tail(@), !.k = 1])
      /\ UNCHANGED <<setup, holder, history, samples, memory>>

----------------------------------------------------------------------------
(* filter_process.                                                         *)

RowOf(id, seq_no) ==
  LET ms == client.streams[id]
  IN  [kind |-> "row", index |-> ms.index, id |-> id, seq |-> seq_no,
       types |-> FlattenSeq([k \in DOMAIN ms.filters |-> ResultTypes(ms.filters[k])]),
       values |-> [k \in DOMAIN ms.filters |-> FilterOutput(ms.filters[k])]]

(* After a report, or where there is no writer to report to.               *)
Reported(f) ==
  CASE f.job = "inject" -> [f EXCEPT !.pc = "feed", !.todo = Tail(@), !.k = 1]
    [] f.job = "report" -> [f EXCEPT !.pc = "unlock"]
    [] f.job = "close" -> [f EXCEPT !.pc = "free"]

NoWriter(t) ==
  /\ Uses(t, "row")
  /\ client.streams[Stream(t)].writers = <<>>
  /\ Moves(t, IF frame[t].job = "report" THEN [frame[t] EXCEPT !.pc = "end"]
                                         ELSE Reported(frame[t]))
  /\ UNCHANGED <<setup, client, holder, history, samples, memory>>

(* The row goes to one more of the stream's writers.                       *)
Row(t) ==
  LET id == Stream(t)
      ms == client.streams[id]
      k == frame[t].k
      seq_no == IF k = 1 THEN ms.seq_no + 1 ELSE ms.seq_no
  IN  /\ Uses(t, "row")
      /\ k <= Len(ms.writers)
      /\ out' = [out EXCEPT ![ms.writers[k]] = Append(@, RowOf(id, seq_no))]
      /\ client' = [client EXCEPT !.streams[id].seq_no = seq_no, !.streams[id].written = @ + 1]
      /\ Moves(t, [frame[t] EXCEPT !.k = @ + 1, !.pc = IF k = Len(ms.writers) THEN "window" ELSE @])
      /\ UNCHANGED <<setup, holder, seen, cuts, samples, memory>>

Window(t) ==
  LET id == Stream(t)
      ms == client.streams[id]
  IN  /\ Uses(t, "window")
      /\ client' = [client EXCEPT !.streams[id].size = 0,
                                  !.streams[id].filters = [k \in DOMAIN @ |-> NewWindow(@[k])]]
      /\ cuts' = [cuts EXCEPT ![id] = Append(@, Len(seen[id]))]
      /\ Moves(t, Reported(frame[t]))
      /\ UNCHANGED <<setup, holder, out, seen, samples, memory>>

----------------------------------------------------------------------------
(* The ends of what is done under the lock.                                *)

Finished(t) == frame[t].pc \in {"unlock", "end"} \/ (frame[t].pc = "feed" /\ frame[t].todo = <<>>)

(* omlc_inject, after mp_unlock: it is time to report on the client itself *)
(* at first and then after an interval; what it reports is left out.       *)
Instruments(f) == f.mp # ClientInstr /\ client.instr_interval > 0

AfterInject(f) ==
  LET report == [At("lock", "inject", ClientInstr) EXCEPT !.v = <<0>>, !.add = f.add]
      return == IF f.add THEN [f EXCEPT !.pc = "create"] ELSE Idle
  IN  IF ~Instruments(f) THEN {return}
      ELSE IF client.instr_time = 0 THEN {report} ELSE {report, return}

After(f) ==
  CASE f.job = "inject" -> AfterInject(f)
    [] f.job = "report" -> {[f EXCEPT !.pc = IF @ = "end" THEN "done" ELSE "sleep"]}
    [] f.job = "close" -> {[f EXCEPT !.pc = IF f.mp < Len(client.mpoints) THEN "lock" ELSE "shut",
                                     !.mp = @ + 1]}

Unlock(t) ==
  /\ ~over
  /\ Finished(t)
  /\ holder' = [holder EXCEPT ![frame[t].mp] = IF @ = t THEN Nobody ELSE @]
  /\ \E f \in After(frame[t]) :
       /\ Moves(t, f)
       /\ client' = IF f.job = "inject" /\ f.mp = ClientInstr THEN [client EXCEPT !.instr_time = 1]
                                                             ELSE client
  /\ UNCHANGED <<setup, history, samples, memory>>

(* omlc_add_mp, once the schema was announced: the default stream.         *)
Create(t) ==
  /\ Runs(t, "create")
  /\ \E added \in {AddMP(client, setup.late[1].name, setup.late[1].fields)} :
     \E made \in {DefaultMs(added, Len(added.mpoints))} :
       LET id == made.mpoints[Len(added.mpoints)].streams[1]
       IN  /\ client' = [made EXCEPT !.streams[id].index = client.next_ms_idx, !.next_ms_idx = @ + 1]
           /\ frame' = [Started(made, Len(client.threads)) EXCEPT ![t] = Idle]
  /\ seen' = Append(seen, <<>>)
  /\ cuts' = Append(cuts, <<>>)
  /\ UNCHANGED <<setup, holder, out, samples, memory>>

(* thread_start: usleep returns, before omlc_start is over or after.        *)
Awake == {u \in Range(FilterThreads) : frame[u].pc \notin {"none", "sleep", "done"}}
Periodic == FoldLeft(LAMBDA n, id : n + Len(cuts[id]), Cardinality(Awake), client.threads)

Wake(t) ==
  /\ Runs(t, "sleep")
  /\ client.mpoints[frame[t].mp].active => Periodic * Len(client.threads) < MaxReports
  /\ Moves(t, [frame[t] EXCEPT !.pc = "lock"])
  /\ UNCHANGED <<setup, client, holder, history, samples, memory>>

----------------------------------------------------------------------------
(* omlc_close.                                                             *)

Close(t) ==
  /\ Runs(t, "idle") /\ t \in Apps
  /\ Accepts
  /\ JoinsFirst => \A u \in Apps : frame[u] = Idle
  /\ Moves(t, At("lock", "close", 1))
  /\ UNCHANGED <<setup, client, holder, history, samples, memory>>

(* Mutant of LeftOver: off by one.                                         *)
LeftOverMany(ms) == ms.size > 1

(* destroy_ms: what was counted since the last row makes one more.         *)
LeftOver(ms) == ms.size > 0

Destroy(t) ==
  /\ Uses(t, "destroy")
  /\ Moves(t, [frame[t] EXCEPT !.k = 1,
                 !.pc = IF LeftOver(client.streams[Stream(t)]) THEN "row" ELSE "free"])
  /\ UNCHANGED <<setup, client, holder, history, samples, memory>>

Free(t) ==
  /\ Runs(t, "free")
  /\ freed' = freed \cup {Stream(t)}
  /\ Moves(t, [frame[t] EXCEPT !.todo = Tail(@), !.pc = "destroy"])
  /\ UNCHANGED <<setup, client, holder, history, samples, over>>

DestroyedMP(t) ==
  /\ Runs(t, "destroy")
  /\ frame[t].todo = <<>>
  /\ Moves(t, [frame[t] EXCEPT !.pc = "unlock"])
  /\ UNCHANGED <<setup, client, holder, history, samples, memory>>

(* The writers are closed and omlc_instance is NULL; termination_handler   *)
(* then ends the process.                                                  *)
Shut(t) ==
  /\ Runs(t, "shut")
  /\ client' = [client EXCEPT !.up = FALSE]
  /\ over' = frame[t].add
  /\ Moves(t, Idle)
  /\ UNCHANGED <<setup, holder, history, samples, freed>>

(* termination_handler, in whichever thread the signal finds.              *)
Signal(t) ==
  /\ ~over
  /\ frame[t].pc \in SignalAt \ {"none", "done"}
  /\ \A u \in Threads : frame[u].job # "close"
  /\ Accepts
  /\ Moves(t, [At("lock", "close", 1) EXCEPT !.add = TRUE])
  /\ UNCHANGED <<setup, client, holder, history, samples, memory>>

----------------------------------------------------------------------------
(* What a thread does by itself once it is called.                         *)
Step(t) ==
  \/ WriteMeta(t)
  \/ Lock(t) \/ Feed(t) \/ CountSample(t)
  \/ NoWriter(t) \/ Row(t) \/ Window(t) \/ Unlock(t)
  \/ Create(t) \/ Wake(t)
  \/ Destroy(t) \/ Free(t) \/ DestroyedMP(t) \/ Shut(t)

Next == \E t \in Threads : Start(t) \/ Call(t) \/ Close(t) \/ Signal(t) \/ Step(t)

(* A call is carried on with, and a sleep ends, as the scheduler lets every *)
(* thread run.                                                             *)
Fairness == \A t \in Threads : WF_vars(Step(t))

Spec == Init /\ [][Next]_vars /\ Fairness

----------------------------------------------------------------------------
(* What the last two invariants need for any setup and number of threads.  *)

IsList(l) == Len(l) \in Nat /\ l = [i \in 1..Len(l) |-> l[i]]

ClientFields == {"up", "started", "set", "uri", "sample_count", "sample_interval",
                 "instr_interval", "instr_time", "mpoints", "streams", "writers",
                 "default_writer", "next_ms_idx", "threads"}

(* Each stream is in the list of its measurement point, once, and a point  *)
(* with a thread has a mutex.                                              *)
Linked(c) ==
  /\ DOMAIN c = ClientFields
  /\ IsList(c.mpoints) /\ IsList(c.streams) /\ IsList(c.threads)
  /\ Len(c.mpoints) >= ClientInstr
  /\ \A m \in DOMAIN c.mpoints :
       /\ DOMAIN c.mpoints[m] = DOMAIN NewMP("", <<>>)
       /\ IsList(c.mpoints[m].streams) /\ IsInjective(c.mpoints[m].streams)
       /\ Range(c.mpoints[m].streams) = {id \in DOMAIN c.streams : c.streams[id].mp = m}
  /\ \A id \in DOMAIN c.streams :
       /\ DOMAIN c.streams[id] = DOMAIN NewStream("", 1, 0, 0)
       /\ c.streams[id].mp \in DOMAIN c.mpoints /\ c.streams[id].size \in Nat
  /\ \A id \in Range(c.threads) :
       id \in DOMAIN c.streams /\ c.mpoints[c.streams[id].mp].guarded

(* The point that is added later gets a stream of its own, and a thread if *)
(* it needs one.                                                           *)
RoomFor(c, name) ==
  /\ Len(c.mpoints) < PointCount /\ Len(c.threads) < Len(FilterThreads)
  /\ \A id \in DOMAIN c.streams : c.streams[id].table # name

(* What omlc_start leaves, unless it fails.  A configuration file can do   *)
(* otherwise: a stream that is named again, now with an interval, gets a   *)
(* thread and no mutex (create_mstream, init.c:995-1023).                  *)
SoundlyConfigured ==
  \A s \in Setups :
    LET i == Initialised(s)
        c == OmlcStart(i, Files)
    IN  i = NoClient \/
        /\ DOMAIN i = ClientFields /\ i.up /\ ~i.started
        /\ c.up =>
             /\ c.started /\ Linked(c)
             /\ \A m \in DOMAIN c.mpoints : c.mpoints[m].active
             /\ Len(c.mpoints) <= PointCount /\ Len(c.threads) <= Len(FilterThreads)
             /\ s.late # <<>> => RoomFor(c, s.late[1].name)

(* No thread of the application injects while another one closes.          *)
NobodyInjectsWhileClosing ==
  JoinsFirst /\ SignalAt \subseteq {"idle"} /\ (SignalAt = {} \/ \E t : Apps = {t})

----------------------------------------------------------------------------
(* Properties.                                                             *)

Rows(w) == SelectSeq(out[w], LAMBDA item : item.kind = "row")

(* The samples of a window of a stream, and those before it.               *)
Bound(id, n) == IF n = 0 THEN 0 ELSE IF n > Len(cuts[id]) THEN Len(seen[id]) ELSE cuts[id][n]
Before(id, n) == SubSeq(seen[id], 1, Bound(id, n - 1))
WindowOf(id, n) == SubSeq(seen[id], Bound(id, n - 1) + 1, Bound(id, n))
FieldOf(window, k) == [j \in DOMAIN window |-> window[j][k]]

Summarises(row, k) ==
  LET f == client.streams[row.id].filters[k]
      window == FieldOf(WindowOf(row.id, row.seq), f.index)
  IN  \/ window = <<>> /\ f.kind = "first"
      \/ row.values[k] = Summary(f.kind, window, FieldOf(Before(row.id, row.seq), f.index))

(* Each row gives, for every filter of its stream, exactly the summary of  *)
(* the samples injected since the row before it: none is counted twice, or *)
(* in no row, or by one filter and not by another, and every writer of the *)
(* stream is told the same (omlc_inject, filter_process: omlc_inject(3):   *)
(* "Internally, the library guards each MP with a mutex, so this function  *)
(* should be thread safe").                                                *)
RowsSummariseTheirWindow ==
  \A w \in DOMAIN out : \A n \in DOMAIN Rows(w) :
    \A k \in DOMAIN Rows(w)[n].values : Summarises(Rows(w)[n], k)

(* The schema a line of schema 0 or a header gives for an index.           *)
Declares(item, index) ==
  \/ item.kind = "schema" /\ item.index = index
  \/ /\ item.kind = "row" /\ item.index = 0
     /\ item.values[1][1] # <<>>
     /\ item.values[1][1][1].key = "schema" /\ item.values[1][1][1].index = index

ColumnsIn(item) == IF item.kind = "schema" THEN item.columns ELSE item.values[1][1][1].columns

(* What a writer was given while its headers were still to come.           *)
HasHeader(w, items) == \E j \in items : out[w][j].kind = "schema"
Early(w, n) ==
  /\ ~HasHeader(w, 1..n)
  /\ HasHeader(w, DOMAIN out[w]) \/ \E t \in Apps : frame[t].pc = "meta"


(* omlc_close(3): "It also flushes all measurement streams".  Once it is   *)
(* done, every sample that was injected is in a row of each stream that    *)
(* reports by samples (destroy_ms: the last, partial, sample).             *)
Closed == client # NoClient /\ client.started /\ ~client.up
Flushed(id) == client.streams[id].writers # <<>> =>
                 seen[id] = <<>> \/ (cuts[id] # <<>> /\ Last(cuts[id]) = Len(seen[id]))
SampledStreamsFlushed ==
  Closed => \A id \in DOMAIN client.streams : client.streams[id].thres > 0 => Flushed(id)

(* No thread uses a stream once omlc_close freed it (thread_start tests    *)
(* mp->active before it touches its stream).                               *)
NoFreedStreamUsed ==
  \A t \in Threads :
    /\ frame[t].pc \in {"feed", "row", "window", "destroy"}
    /\ frame[t].todo # <<>>
    => Stream(t) \notin freed

(* Every filtering thread ends once the client is closed.                  *)
FilterThreadsEnd ==
  Closed ~> (over \/ \A t \in Range(FilterThreads) : frame[t].pc \in {"none", "done"})

----------------------------------------------------------------------------
(* Statements of the documentation that the code refutes.                  *)

(* The manual: the client "sends a set of configuration headers in the     *)
(* first part, and then sends its measurement data".  Refuted: a filtering *)
(* thread that wakes before write_meta reports under the index 0.          *)
HeadersBeforeRows ==
  \A w \in DOMAIN out : \A n \in DOMAIN out[w] :
    out[w][n].kind = "row" => HasHeader(w, 1..n)

(* omlc_close(3), for the streams that report periodically too.  Refuted:  *)
(* omlc_ms_process counts samples only where sample_thres > 0.             *)
AllStreamsFlushed == Closed => \A id \in DOMAIN client.streams : Flushed(id)

(* liboml2.conf(5): the columns of a filter are named after its field.     *)
(* Refuted: two averages of one stream both have a column "avg".           *)
ColumnsAreDistinct ==
  \A w \in DOMAIN out : \A n \in DOMAIN out[w] :
    out[w][n].kind = "schema" =>
      IsInjective([j \in DOMAIN out[w][n].columns |-> out[w][n].columns[j].name])

(* The metadata of a column is that of its field.  Refuted:                *)
(* default_filter_meta does not set it.                                    *)
ConceptsAreTheFields ==
  \A w \in DOMAIN out : \A n \in DOMAIN out[w] :
    out[w][n].kind = "schema" => \A j \in DOMAIN out[w][n].columns :
      out[w][n].columns[j].concepts # "unset"

(* omlc_inject(3): metadata is sent along _experiment_metadata.  Refuted:  *)
(* that stream is filtered as the others are, first of --oml-samples.      *)
MetadataIsSent ==
  Closed => \A n \in DOMAIN seen[1] : \E w \in DOMAIN out : \E j \in DOMAIN Rows(w) :
    Rows(w)[j].id = 1 /\ Rows(w)[j].values[1][1] = <<seen[1][n][1]>>

(* omlc_init: "these options and their arguments are removed from argv".   *)
(* Refuted: after --oml-noop the arguments are not moved any more.         *)
ArgumentsRemoved == SeenArgs(setup.argv) = SelectSeq(setup.argv, LAMBDA a : a \in Range(ParseArgs(setup.argv).kept))

(* termination_handler ends the process.  Refuted: it waits for a mutex    *)
(* its own thread holds.                                                   *)
SignalEnds == (\E t \in Threads : frame[t].job = "close" /\ frame[t].add) ~> over
=============================================================================
