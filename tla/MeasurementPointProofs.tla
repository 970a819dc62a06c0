----------------------- MODULE MeasurementPointProofs -----------------------
(***************************************************************************)
(* Theorems about MeasurementPoint, for any threads, measurement points    *)
(* and setups: closing the client frees no stream that a thread still      *)
(* uses, and what was sampled of a stream is in its rows by then.          *)
(***************************************************************************)
EXTENDS MeasurementPoint, ListProofs

(* The fields of a frame.                                                  *)
FrameFields == DOMAIN Idle

(* The streams left to a thread are some of its measurement point's.       *)
TodoOK(f, c) ==
  /\ IsList(f.todo) /\ IsInjective(f.todo)
  /\ \A i \in DOMAIN f.todo : f.todo[i] \in DOMAIN c.streams /\ c.streams[f.todo[i]].mp = f.mp

(* A thread that injects.                                                  *)
InjectOK(f, c) ==
  /\ DOMAIN f = FrameFields /\ f.job = "inject"
  /\ f.pc \in {"lock", "feed", "row", "window", "create"}
  /\ f.mp \in DOMAIN c.mpoints
  /\ TodoOK(f, c)
  /\ f.pc \in {"row", "window"} => f.todo # <<>>
  /\ f.pc = "create" => f.add

(* The same of a thread in omlc_close.                                     *)
CloseOK(f, c) ==
  /\ DOMAIN f = FrameFields /\ f.job = "close"
  /\ f.pc \in {"lock", "destroy", "row", "window", "free", "unlock", "shut"}
  /\ IF f.pc = "shut" THEN f.mp = Len(c.mpoints) + 1 ELSE f.mp \in DOMAIN c.mpoints
  /\ TodoOK(f, c)
  /\ f.pc \in {"row", "window", "free"} => f.todo # <<>>
  /\ f.pc = "unlock" => f.todo = <<>>
  /\ f.add => SignalAt # {}

(* A thread of the application.                                            *)
AppOK(f, c) == f = Idle \/ f = Announcing \/ InjectOK(f, c) \/ CloseOK(f, c)

(* A filtering thread, which has its stream from the start.                *)
ReportOK(t, f, c, h) ==
  /\ DOMAIN f = FrameFields /\ f.job = "report"
  /\ f.pc \in {"none", "sleep", "lock", "row", "window", "unlock", "end", "done"}
  /\ f.pc # "none" =>
       \E id \in DOMAIN c.streams :
         f.todo = <<id>> /\ f.mp = c.streams[id].mp /\ c.mpoints[f.mp].guarded
  /\ f.pc \in {"row", "window", "unlock", "end"} => h[f.mp] = t
  /\ f.pc \in {"row", "window"} => c.mpoints[f.mp].active

(* Every thread is where it can be.                                        *)
ThreadsOK ==
  /\ DOMAIN frame = Threads
  /\ \A t \in Apps : AppOK(frame[t], client)
  /\ \A t \in Range(FilterThreads) : ReportOK(t, frame[t], client, holder)

(* The late point is still to be made.                                     *)
Unmade(c) == setup.late # <<>> /\ FindMP(c, setup.late[1].name) = 0

(* A thread that is to make it.                                            *)
Adds(f) == f.job = "inject" /\ f.add

(* Who closes is alone, and one thread adds the point, once.               *)
AloneInv ==
  /\ \A t, u \in Apps : frame[t].job = "close" /\ u # t => frame[u] = Idle
  /\ ~client.up => \A t \in Apps : frame[t] = Idle
  /\ \A t, u \in Apps : Adds(frame[t]) => Unmade(client) /\ (Adds(frame[u]) => u = t)

(* The client was started and its lists hang together.                     *)
LinksInv ==
  /\ client.started /\ Linked(client)
  /\ Len(client.mpoints) <= PointCount /\ Len(client.threads) <= Len(FilterThreads)
  /\ DOMAIN holder = 1..PointCount
  /\ Unmade(client) => RoomFor(client, setup.late[1].name)

(* The points that a closing thread has stopped,                           *)
Past(f, m) == m < f.mp \/ (m = f.mp /\ f.pc # "lock")

(* and the streams that it has freed.                                      *)
Destroyed(f, c, id) ==
  Past(f, c.streams[id].mp) /\ \A i \in DOMAIN f.todo : f.todo[i] # id

(* A stream is freed when its point stopped; all of them are at the end.   *)
FreedInv ==
  /\ freed \subseteq DOMAIN client.streams
  /\ \A id \in freed : ~client.mpoints[client.streams[id].mp].active
  /\ \A t \in Apps : frame[t].job = "close" =>
       /\ \A id \in DOMAIN client.streams : id \in freed <=> Destroyed(frame[t], client, id)
       /\ \A m \in DOMAIN client.mpoints : Past(frame[t], m) => ~client.mpoints[m].active
  /\ client.up /\ (\A t \in Apps : frame[t].job # "close") => freed = {}
  /\ ~client.up => freed = DOMAIN client.streams

(* Until the client was started, and if it cannot be.                      *)
Unstarted ==
  /\ client = NoClient \/ (DOMAIN client = ClientFields /\ ~client.started)
  /\ client.up => client = Initialised(setup)
  /\ frame = [t \in Threads |-> IF t \in Apps THEN Idle ELSE At("none", "report", 0)]
  /\ freed = {}
  /\ holder = [m \in 1..PointCount |-> Nobody]

(* From omlc_start on.                                                     *)
Running == LinksInv /\ ThreadsOK /\ AloneInv /\ FreedInv

(* The invariant.                                                          *)
Inv == setup \in Setups /\ (Unstarted \/ (client # NoClient /\ Running))

----------------------------------------------------------------------------
(* Lists.                                                                  *)

(* A list is a sequence of its elements.                                   *)
LEMMA ListIsSeq ==
  ASSUME NEW l, IsList(l)
  PROVE  l \in Seq(Range(l)) /\ Len(l) \in Nat /\ DOMAIN l = 1..Len(l)
<1>1. Len(l) \in Nat /\ l \in [1..Len(l) -> Range(l)]
  BY DEF IsList, Range
<1> QED BY <1>1, SeqDef

(* Any function of as many positions is a list.                            *)
LEMMA ListIntro ==
  ASSUME NEW n \in Nat, NEW l, l = [i \in 1..n |-> l[i]]
  PROVE  IsList(l) /\ Len(l) = n /\ DOMAIN l = 1..n
<1>1. l \in [1..n -> Range(l)]
  BY DEF Range
<1>2. l \in Seq(Range(l))
  BY <1>1, SeqDef
<1>3. Len(l) = n
  BY <1>1, <1>2, LenProperties
<1> QED BY <1>1, <1>3 DEF IsList

(* A list with one more element.                                           *)
LEMMA ListAppend ==
  ASSUME NEW l, IsList(l), NEW e
  PROVE  /\ IsList(Append(l, e)) /\ Len(Append(l, e)) = Len(l) + 1
         /\ DOMAIN Append(l, e) = 1..Len(l) + 1
         /\ \A i \in 1..Len(l) : Append(l, e)[i] = l[i]
         /\ Append(l, e)[Len(l) + 1] = e
         /\ Append(l, e) # <<>> /\ Last(Append(l, e)) = e
<1> DEFINE S == Range(l) \cup {e}
<1>1. l \in Seq(S) /\ e \in S /\ Len(l) \in Nat
  BY ListIsSeq, SeqMonotonic
<1> HIDE DEF S
<1>2. /\ Append(l, e) \in Seq(S) /\ Len(Append(l, e)) = Len(l) + 1
      /\ \A i \in 1..Len(l) : Append(l, e)[i] = l[i]
      /\ Append(l, e)[Len(l) + 1] = e
      /\ Append(l, e) # <<>>
  BY <1>1, AppendProperties
<1>3. IsList(Append(l, e)) /\ DOMAIN Append(l, e) = 1..Len(l) + 1
  BY <1>1, <1>2, LenProperties DEF IsList
<1> QED BY <1>2, <1>3 DEF Last

(* A list without its first element.                                       *)
LEMMA ListTail ==
  ASSUME NEW l, IsList(l), l # <<>>
  PROVE  /\ IsList(Tail(l)) /\ Len(Tail(l)) = Len(l) - 1 /\ DOMAIN Tail(l) = 1..Len(l) - 1
         /\ \A i \in 1..Len(l) - 1 : Tail(l)[i] = l[i + 1]
         /\ Len(l) >= 1 /\ Head(l) = l[1]
<1>1. l \in Seq(Range(l)) /\ Len(l) \in Nat
  BY ListIsSeq
<1>2. /\ Tail(l) \in Seq(Range(l)) /\ Len(Tail(l)) = Len(l) - 1
      /\ \A i \in 1..Len(l) - 1 : Tail(l)[i] = l[i + 1]
      /\ Head(l) = l[1]
  BY <1>1, HeadTailProperties
<1>3. Len(l) >= 1
  BY <1>1, EmptySeq
<1>4. IsList(Tail(l)) /\ DOMAIN Tail(l) = 1..Len(l) - 1
  BY <1>1, <1>2, LenProperties DEF IsList
<1> QED BY <1>2, <1>3, <1>4

(* A list that is longer by one.                                           *)
LEMMA LongerList ==
  ASSUME NEW l, IsList(l), NEW q, IsList(q), NEW n, n = Len(l) + 1, Len(q) = n
  PROVE  /\ n \in Nat /\ n >= 1 /\ DOMAIN q = 1..n /\ n \in DOMAIN q
         /\ DOMAIN l = 1..n - 1 /\ \A i \in DOMAIN l : i \in DOMAIN q /\ i # n
         /\ DOMAIN q = DOMAIN l \cup {n}
<1>1. Len(l) \in Nat /\ DOMAIN l = 1..Len(l) /\ DOMAIN q = 1..Len(q)
  BY ListIsSeq
<1> QED BY <1>1

(* One element first, then the list; the lists of none and of one.         *)
LEMMA ListOne ==
  ASSUME NEW e
  PROVE  /\ IsList(<<>>) /\ DOMAIN <<>> = {} /\ IsInjective(<<>>)
         /\ IsList(<<e>>) /\ DOMAIN <<e>> = {1} /\ <<e>>[1] = e /\ <<e>> # <<>>
         /\ Head(<<e>>) = e /\ Len(<<e>>) = 1 /\ Range(<<e>>) = {e} /\ IsInjective(<<e>>)
         /\ <<e>> \o <<>> = <<e>>
<1>1. IsList(<<>>) /\ DOMAIN <<>> = {}
  BY DEF IsList
<1>2. IsList(<<e>>) /\ DOMAIN <<e>> = {1} /\ <<e>>[1] = e /\ <<e>> # <<>> /\ Head(<<e>>) = e /\ Len(<<e>>) = 1
  BY DEF IsList
<1>3. <<e>> \o <<>> = <<e>>
  OBVIOUS
<1> QED BY <1>1, <1>2, <1>3 DEF Range, IsInjective

----------------------------------------------------------------------------
(* The client.                                                             *)

(* d is c, but for what its streams have counted and filtered, and which   *)
(* of its points are active.                                               *)
SamePoints(c, d) ==
  /\ IsList(d.mpoints) /\ Len(d.mpoints) = Len(c.mpoints) /\ DOMAIN d.mpoints = DOMAIN c.mpoints
  /\ \A m \in DOMAIN c.mpoints :
       /\ DOMAIN d.mpoints[m] = DOMAIN c.mpoints[m]
       /\ d.mpoints[m].name = c.mpoints[m].name
       /\ d.mpoints[m].streams = c.mpoints[m].streams
       /\ d.mpoints[m].guarded = c.mpoints[m].guarded

(* The streams still are on their points, with what they report by.        *)
SameStreams(c, d) ==
  /\ IsList(d.streams) /\ DOMAIN d.streams = DOMAIN c.streams
  /\ \A id \in DOMAIN c.streams :
       /\ DOMAIN d.streams[id] = DOMAIN c.streams[id]
       /\ d.streams[id].table = c.streams[id].table
       /\ d.streams[id].mp = c.streams[id].mp
       /\ d.streams[id].thres = c.streams[id].thres
       /\ d.streams[id].writers = c.streams[id].writers
       /\ d.streams[id].size \in Nat

(* So the client hangs together as before.                                 *)
SameLinks(c, d) ==
  /\ DOMAIN d = DOMAIN c /\ d.started = c.started /\ d.threads = c.threads
  /\ SamePoints(c, d) /\ SameStreams(c, d)

(* Such a client is linked as c is.                                        *)
LEMMA SameIsLinked ==
  ASSUME NEW c, Linked(c), NEW d, SameLinks(c, d)
  PROVE  Linked(d)
<1>1. /\ DOMAIN d = ClientFields
      /\ IsList(d.mpoints) /\ IsList(d.streams) /\ IsList(d.threads)
      /\ Len(d.mpoints) >= ClientInstr
  BY DEF Linked, SameLinks, SamePoints, SameStreams
<1>2. ASSUME NEW m \in DOMAIN d.mpoints
      PROVE  /\ DOMAIN d.mpoints[m] = DOMAIN NewMP("", <<>>)
             /\ IsList(d.mpoints[m].streams) /\ IsInjective(d.mpoints[m].streams)
             /\ Range(d.mpoints[m].streams) = {id \in DOMAIN d.streams : d.streams[id].mp = m}
  <2>1. m \in DOMAIN c.mpoints /\ d.mpoints[m].streams = c.mpoints[m].streams
        /\ DOMAIN d.mpoints[m] = DOMAIN c.mpoints[m]
    BY <1>2 DEF SameLinks, SamePoints
  <2>2. {id \in DOMAIN d.streams : d.streams[id].mp = m} = {id \in DOMAIN c.streams : c.streams[id].mp = m}
    BY DEF SameLinks, SameStreams
  <2> QED BY <2>1, <2>2 DEF Linked
<1>3. ASSUME NEW id \in DOMAIN d.streams
      PROVE  /\ DOMAIN d.streams[id] = DOMAIN NewStream("", 1, 0, 0)
             /\ d.streams[id].mp \in DOMAIN d.mpoints /\ d.streams[id].size \in Nat
  BY <1>3 DEF Linked, SameLinks, SamePoints, SameStreams
<1>4. ASSUME NEW id \in Range(d.threads)
      PROVE  id \in DOMAIN d.streams /\ d.mpoints[d.streams[id].mp].guarded
  <2>1. id \in Range(c.threads)
    BY <1>4 DEF SameLinks
  <2>2. id \in DOMAIN c.streams /\ c.mpoints[c.streams[id].mp].guarded /\ c.streams[id].mp \in DOMAIN c.mpoints
    BY <2>1 DEF Linked
  <2> QED BY <2>2 DEF SameLinks, SamePoints, SameStreams
<1> QED BY <1>1, <1>2, <1>3, <1>4 DEF Linked

(* Nothing is changed by nothing.                                          *)
LEMMA SameItself ==
  ASSUME NEW c, Linked(c)
  PROVE  SameLinks(c, c)
BY DEF Linked, SameLinks, SamePoints, SameStreams

(* A stream of the client changes.                                         *)
LEMMA StreamChanges ==
  ASSUME NEW c, Linked(c), NEW id \in DOMAIN c.streams,
         NEW ms, DOMAIN ms = DOMAIN c.streams[id], ms.size \in Nat,
         ms.table = c.streams[id].table, ms.mp = c.streams[id].mp,
         ms.thres = c.streams[id].thres, ms.writers = c.streams[id].writers,
         NEW d, d = [c EXCEPT !.streams[id] = ms]
  PROVE  /\ SameLinks(c, d) /\ d.up = c.up /\ d.mpoints = c.mpoints
         /\ d.streams[id] = ms
         /\ \A i \in DOMAIN c.streams \ {id} : d.streams[i] = c.streams[i]
<1>1. PICK s : s = [c.streams EXCEPT ![id] = ms]
  OBVIOUS
<1>2. d = [c EXCEPT !.streams = s]
  BY <1>1
<1>3. /\ DOMAIN d = DOMAIN c /\ d.started = c.started /\ d.threads = c.threads
      /\ d.up = c.up /\ d.mpoints = c.mpoints /\ d.streams = s
  BY <1>2 DEF Linked, ClientFields
<1>4. DOMAIN s = DOMAIN c.streams /\ s[id] = ms /\ \A i \in DOMAIN c.streams \ {id} : s[i] = c.streams[i]
  BY <1>1
<1>5. IsList(c.streams) /\ Len(c.streams) \in Nat /\ DOMAIN c.streams = 1..Len(c.streams)
  BY ListIsSeq DEF Linked
<1>6. s = [i \in 1..Len(c.streams) |-> s[i]]
  BY <1>1, <1>5
<1>7. IsList(s)
  BY <1>5, <1>6, ListIntro
<1>8. SamePoints(c, d)
  BY <1>3 DEF Linked, SamePoints
<1>9. SameStreams(c, d)
  <2>1. \A i \in DOMAIN c.streams : c.streams[i].size \in Nat
    BY DEF Linked
  <2> QED BY <1>3, <1>4, <1>7, <2>1 DEF SameStreams
<1> QED BY <1>3, <1>4, <1>8, <1>9 DEF SameLinks

(* A point of the client becomes inactive.                                 *)
Stopped(c, m) == [c EXCEPT !.mpoints[m].active = FALSE]

(* omlc_close stops a point, and changes nothing else.                     *)
LEMMA PointStops ==
  ASSUME NEW c, Linked(c), NEW m \in DOMAIN c.mpoints, NEW d, d = Stopped(c, m)
  PROVE  /\ SameLinks(c, d) /\ d.up = c.up /\ d.streams = c.streams
         /\ d.mpoints[m].active = FALSE
         /\ \A i \in DOMAIN c.mpoints \ {m} : d.mpoints[i] = c.mpoints[i]
<1>1. PICK mp : mp = [c.mpoints[m] EXCEPT !.active = FALSE]
  OBVIOUS
<1>2. PICK s : s = [c.mpoints EXCEPT ![m] = mp]
  OBVIOUS
<1>3. d = [c EXCEPT !.mpoints = s]
  BY <1>1, <1>2 DEF Stopped
<1>4. /\ DOMAIN d = DOMAIN c /\ d.started = c.started /\ d.threads = c.threads
      /\ d.up = c.up /\ d.streams = c.streams /\ d.mpoints = s
  BY <1>3 DEF Linked, ClientFields
<1>5. DOMAIN s = DOMAIN c.mpoints /\ s[m] = mp /\ \A i \in DOMAIN c.mpoints \ {m} : s[i] = c.mpoints[i]
  BY <1>2
<1>6. /\ DOMAIN mp = DOMAIN c.mpoints[m] /\ mp.active = FALSE /\ mp.name = c.mpoints[m].name
      /\ mp.streams = c.mpoints[m].streams /\ mp.guarded = c.mpoints[m].guarded
  BY <1>1 DEF Linked, NewMP
<1>7. IsList(c.mpoints) /\ Len(c.mpoints) \in Nat /\ DOMAIN c.mpoints = 1..Len(c.mpoints)
  BY ListIsSeq DEF Linked
<1>8. s = [i \in 1..Len(c.mpoints) |-> s[i]]
  BY <1>2, <1>7
<1>9. IsList(s) /\ Len(s) = Len(c.mpoints)
  BY <1>7, <1>8, ListIntro
<1>10. SamePoints(c, d)
  BY <1>4, <1>5, <1>6, <1>9 DEF SamePoints
<1>11. SameStreams(c, d)
  BY <1>4 DEF Linked, SameStreams
<1> QED BY <1>4, <1>5, <1>6, <1>10, <1>11 DEF SameLinks

(* find_mp finds nothing exactly where no point has the name.              *)
LEMMA FindMPIs ==
  ASSUME NEW c, IsList(c.mpoints), NEW name
  PROVE  FindMP(c, name) = 0 <=> \A m \in DOMAIN c.mpoints : c.mpoints[m].name # name
<1> DEFINE I == {i \in 1..Len(c.mpoints) : c.mpoints[i].name = name}
<1>1. DOMAIN c.mpoints = 1..Len(c.mpoints) /\ Len(c.mpoints) \in Nat
  BY ListIsSeq
<1>2. FindMP(c, name) = IF I # {} THEN Min(I) ELSE 0
  BY DEF FindMP, IndexWhere, SelectInSeq
<1>3. ASSUME I # {} PROVE Min(I) \in I
  <2>1. I \in SUBSET Nat
    BY <1>1
  <2>2. \E n \in I : \A m \in I : n <= m
    <3> HIDE DEF I
    <3> QED BY <1>3, <2>1, LeastNat
  <2> HIDE DEF I
  <2> QED BY <2>2 DEF Min
<1>4. 0 \notin I
  OBVIOUS
<1> QED BY <1>1, <1>2, <1>3, <1>4

(* Whether the late point is still to be added, and whether there is room  *)
(* for it, is the same.                                                    *)
LEMMA SameRoom ==
  ASSUME NEW c, Linked(c), NEW d, SameLinks(c, d)
  PROVE  /\ Unmade(d) <=> Unmade(c)
         /\ \A name : RoomFor(c, name) => RoomFor(d, name)
<1>1. IsList(c.mpoints) /\ IsList(d.mpoints) /\ DOMAIN c.mpoints = DOMAIN d.mpoints
  BY DEF Linked, SameLinks, SamePoints
<1>2. \A name : FindMP(d, name) = 0 <=> FindMP(c, name) = 0
  BY <1>1, FindMPIs DEF SameLinks, SamePoints
<1>3. \A name : RoomFor(c, name) => RoomFor(d, name)
  BY DEF RoomFor, SameLinks, SamePoints, SameStreams
<1> QED BY <1>2, <1>3 DEF Unmade

(* A thread that was where it should be still is.                          *)
LEMMA SameThreads ==
  ASSUME NEW c, NEW d, SameLinks(c, d), NEW f
  PROVE  /\ TodoOK(f, c) => TodoOK(f, d)
         /\ InjectOK(f, c) => InjectOK(f, d)
         /\ CloseOK(f, c) => CloseOK(f, d)
         /\ AppOK(f, c) => AppOK(f, d)
         /\ \A id \in DOMAIN c.streams : Destroyed(f, d, id) <=> Destroyed(f, c, id)
<1>1. TodoOK(f, c) => TodoOK(f, d)
  BY DEF TodoOK, SameLinks, SameStreams
<1>2. InjectOK(f, c) => InjectOK(f, d)
  BY <1>1 DEF InjectOK, SameLinks, SamePoints
<1>3. CloseOK(f, c) => CloseOK(f, d)
  BY <1>1 DEF CloseOK, SameLinks, SamePoints
<1>4. \A id \in DOMAIN c.streams : Destroyed(f, d, id) <=> Destroyed(f, c, id)
  BY DEF Destroyed, SameLinks, SameStreams
<1> QED BY <1>1, <1>2, <1>3, <1>4 DEF AppOK

(* So is a filtering thread, if its point is still active or it does not   *)
(* rely on that, and nobody took its mutex.                                *)
LEMMA SameReports ==
  ASSUME NEW c, Linked(c), NEW d, SameLinks(c, d), NEW t, NEW f, NEW h, NEW g, ReportOK(t, f, c, h),
         f.pc \in {"row", "window", "unlock", "end"} => g[f.mp] = t,
         f.pc \in {"row", "window"} => d.mpoints[f.mp].active
  PROVE  ReportOK(t, f, d, g)
<1>1. ASSUME f.pc # "none"
      PROVE  \E id \in DOMAIN d.streams :
               f.todo = <<id>> /\ f.mp = d.streams[id].mp /\ d.mpoints[f.mp].guarded
  <2>1. PICK id \in DOMAIN c.streams :
          f.todo = <<id>> /\ f.mp = c.streams[id].mp /\ c.mpoints[f.mp].guarded
    BY <1>1 DEF ReportOK
  <2>2. f.mp \in DOMAIN c.mpoints
    BY <2>1 DEF Linked
  <2>3. id \in DOMAIN d.streams /\ f.mp = d.streams[id].mp
    BY <2>1 DEF SameLinks, SameStreams
  <2>4. d.mpoints[f.mp].guarded
    BY <2>1, <2>2 DEF SameLinks, SamePoints
  <2> QED BY <2>1, <2>3, <2>4
<1> QED BY <1>1 DEF ReportOK

----------------------------------------------------------------------------
(* What a step of one thread has to keep.                                  *)

(* Nobody takes a mutex from another thread.                               *)
TakesNoMutex(t) ==
  /\ DOMAIN holder' = DOMAIN holder
  /\ \A m \in DOMAIN holder : holder[m] # Nobody /\ holder[m] # t => holder'[m] = holder[m]

(* A point stops being active only where no other thread is reporting.     *)
StopsUnlocked ==
  \A m \in DOMAIN client.mpoints :
    client'.mpoints[m].active = client.mpoints[m].active
    \/ ~client.mpoints[m].guarded \/ holder[m] = Nobody

(* Threads have names of their own.                                        *)
LEMMA ThreadsDiffer ==
  /\ \A t \in Threads : t # Nobody
  /\ \A t \in Apps : t \notin Range(FilterThreads)
  /\ Threads = Apps \cup Range(FilterThreads)
BY MeasurementPointAssumption DEF Threads

(* A filtering thread with a stream has a measurement point with a mutex.  *)
LEMMA ReportsOf ==
  ASSUME LinksInv, NEW t, NEW f, ReportOK(t, f, client, holder), f.pc # "none"
  PROVE  f.mp \in DOMAIN client.mpoints /\ f.mp \in DOMAIN holder /\ client.mpoints[f.mp].guarded
<1>1. f.mp \in DOMAIN client.mpoints /\ client.mpoints[f.mp].guarded
  BY DEF ReportOK, LinksInv, Linked
<1>2. IsList(client.mpoints) /\ DOMAIN holder = 1..PointCount /\ Len(client.mpoints) <= PointCount
  BY DEF LinksInv, Linked
<1>3. f.mp \in 1..Len(client.mpoints) /\ Len(client.mpoints) \in Nat
  BY <1>1, <1>2, ListIsSeq
<1>4. PointCount \in Int
  BY MeasurementPointAssumption, <1>2, <1>3 DEF PointCount
<1> QED BY <1>1, <1>2, <1>3, <1>4

(* The links of the client.                                                *)
LEMMA LinksStay ==
  ASSUME LinksInv, SameLinks(client, client'), setup' = setup, DOMAIN holder' = DOMAIN holder
  PROVE  LinksInv'
<1>1. Linked(client') /\ (Unmade(client') <=> Unmade(client))
  BY SameIsLinked, SameRoom DEF LinksInv
<1>2. Unmade(client) => RoomFor(client', setup.late[1].name)
  BY SameRoom DEF LinksInv
<1>3. Unmade(client)' <=> Unmade(client')
  BY DEF Unmade
<1>4. /\ client'.started /\ Len(client'.mpoints) <= PointCount
      /\ Len(client'.threads) <= Len(FilterThreads)
  BY DEF LinksInv, SameLinks, SamePoints
<1> QED BY <1>1, <1>2, <1>3, <1>4 DEF LinksInv, Unmade

(* The other threads.                                                      *)
LEMMA OthersStay ==
  ASSUME LinksInv, ThreadsOK, SameLinks(client, client'), StopsUnlocked,
         NEW t \in Threads, TakesNoMutex(t), NEW f, frame' = [frame EXCEPT ![t] = f],
         t \in Apps => AppOK(f, client'),
         t \in Range(FilterThreads) => ReportOK(t, f, client', holder')
  PROVE  ThreadsOK'
<1>1. DOMAIN frame' = Threads /\ frame'[t] = f /\ \A u \in Threads \ {t} : frame'[u] = frame[u]
  BY DEF ThreadsOK
<1>2. ASSUME NEW u \in Apps PROVE AppOK(frame'[u], client')
  <2>1. CASE u = t
    BY <1>1, <1>2, <2>1
  <2>2. CASE u # t
    <3>1. frame'[u] = frame[u] /\ AppOK(frame[u], client)
      BY <1>1, <1>2, <2>2, ThreadsDiffer DEF ThreadsOK
    <3> QED BY <3>1, SameThreads
  <2> QED BY <2>1, <2>2
<1>3. ASSUME NEW u \in Range(FilterThreads) PROVE ReportOK(u, frame'[u], client', holder')
  <2>1. CASE u = t
    BY <1>1, <1>3, <2>1
  <2>2. CASE u # t
    <3>1. u \in Threads /\ frame'[u] = frame[u] /\ ReportOK(u, frame[u], client, holder) /\ u # Nobody
      BY <1>1, <1>3, <2>2, ThreadsDiffer DEF ThreadsOK
    <3>2. PICK g : g = frame[u]
      OBVIOUS
    <3>3. ASSUME g.pc \in {"row", "window", "unlock", "end"} PROVE holder'[g.mp] = u
      <4>1. g.mp \in DOMAIN holder /\ holder[g.mp] = u
        BY <3>1, <3>2, <3>3, ReportsOf DEF ReportOK
      <4> QED BY <2>2, <3>1, <4>1 DEF TakesNoMutex
    <3>4. ASSUME g.pc \in {"row", "window"} PROVE client'.mpoints[g.mp].active
      <4>1. /\ g.mp \in DOMAIN client.mpoints /\ client.mpoints[g.mp].guarded
            /\ client.mpoints[g.mp].active /\ holder[g.mp] = u
        BY <3>1, <3>2, <3>4, ReportsOf DEF ReportOK
      <4> QED BY <3>1, <4>1 DEF StopsUnlocked
    <3> QED BY <3>1, <3>2, <3>3, <3>4, SameReports DEF LinksInv
  <2> QED BY <2>1, <2>2
<1> QED BY <1>1, <1>2, <1>3 DEF ThreadsOK, AppOK, InjectOK, CloseOK, TodoOK, ReportOK

(* What does not change a thread's own part of FreedInv.                   *)
SameActive ==
  \A m \in DOMAIN client.mpoints : client'.mpoints[m].active = client.mpoints[m].active

(* A step of a filtering thread.                                           *)
LEMMA ReportSteps ==
  ASSUME Running, setup' = setup, SameLinks(client, client'), client'.up = client.up, SameActive,
         freed' = freed,
         NEW t \in Range(FilterThreads), TakesNoMutex(t), NEW f, frame' = [frame EXCEPT ![t] = f],
         ReportOK(t, f, client', holder')
  PROVE  Running'
<1>1. LinksInv'
  BY LinksStay DEF Running, TakesNoMutex
<1>2. ThreadsOK'
  <2>1. t \in Threads /\ t \notin Apps /\ StopsUnlocked
    BY ThreadsDiffer DEF StopsUnlocked, SameActive
  <2> QED BY <2>1, OthersStay DEF Running
<1>3. \A u \in Apps : frame'[u] = frame[u]
  BY ThreadsDiffer DEF Running, ThreadsOK
<1>4. AloneInv'
  <2>1. Unmade(client') <=> Unmade(client)
    BY SameRoom DEF Running, LinksInv
  <2>2. Unmade(client)' <=> Unmade(client')
    BY DEF Unmade
  <2> QED BY <1>3, <2>1, <2>2 DEF AloneInv, Adds, Running
<1>5. FreedInv'
  <2>1. freed' \subseteq DOMAIN client'.streams /\ DOMAIN client'.streams = DOMAIN client.streams
        /\ DOMAIN client'.mpoints = DOMAIN client.mpoints
    BY DEF Running, FreedInv, SameLinks, SameStreams, SamePoints
  <2>2. \A id \in freed' : ~client'.mpoints[client'.streams[id].mp].active
    <3>1. \A id \in freed : client'.streams[id].mp = client.streams[id].mp
                            /\ client.streams[id].mp \in DOMAIN client.mpoints
      BY DEF Running, FreedInv, LinksInv, Linked, SameLinks, SameStreams
    <3> QED BY <3>1 DEF Running, FreedInv, SameActive
  <2>3. ASSUME NEW u \in Apps, frame'[u].job = "close"
        PROVE  /\ \A id \in DOMAIN client'.streams : id \in freed' <=> Destroyed(frame'[u], client', id)
               /\ \A m \in DOMAIN client'.mpoints : Past(frame'[u], m) => ~client'.mpoints[m].active
    <3>1. /\ \A id \in DOMAIN client.streams : id \in freed <=> Destroyed(frame[u], client, id)
          /\ \A m \in DOMAIN client.mpoints : Past(frame[u], m) => ~client.mpoints[m].active
      BY <1>3, <2>3 DEF Running, FreedInv
    <3>2. \A id \in DOMAIN client.streams : Destroyed(frame[u], client', id) <=> Destroyed(frame[u], client, id)
      BY SameThreads
    <3> QED BY <1>3, <2>1, <3>1, <3>2 DEF SameActive
  <2>4. client'.up /\ (\A u \in Apps : frame'[u].job # "close") => freed' = {}
    BY <1>3 DEF Running, FreedInv
  <2>5. ~client'.up => freed' = DOMAIN client'.streams
    BY <2>1 DEF Running, FreedInv
  <2> QED BY <2>1, <2>2, <2>3, <2>4, <2>5 DEF FreedInv, Destroyed, Past
<1> QED BY <1>1, <1>2, <1>4, <1>5 DEF Running

(* A thread that does nothing.                                             *)
LEMMA IdleIs ==
  /\ Idle.pc = "idle" /\ Idle.job = "" /\ ~Adds(Idle)
  /\ DOMAIN Idle = {"pc", "job", "mp", "todo", "k", "v", "add"}
BY DEF Idle, At, Adds

(* A thread in omlc_start.                                                 *)
LEMMA AnnouncingIs ==
  /\ Announcing.pc = "meta" /\ Announcing.job = "start" /\ ~Adds(Announcing)
  /\ DOMAIN Announcing = FrameFields /\ Announcing.todo = <<>> /\ Announcing.k = 1
  /\ Announcing # Idle
BY DEF Announcing, Idle, At, Adds, FrameFields

(* While a thread injects nobody closes, and nothing is freed.             *)
LEMMA NobodyCloses ==
  ASSUME Running, NEW t \in Apps, InjectOK(frame[t], client)
  PROVE  client.up /\ freed = {} /\ \A u \in Apps : frame[u].job # "close"
<1>1. frame[t] # Idle /\ frame[t].job # "close"
  <2>1. frame[t].job = "inject"
    BY DEF InjectOK
  <2> QED BY <2>1, IdleIs
<1>2. client.up /\ \A u \in Apps : frame[u].job # "close"
  BY <1>1 DEF Running, AloneInv
<1> QED BY <1>2 DEF Running, FreedInv

(* A step of a thread that injects, or begins to.                          *)
LEMMA InjectSteps ==
  ASSUME Running, setup' = setup, SameLinks(client, client'), client'.up = client.up, SameActive,
         freed' = freed, client.up, \A u \in Apps : frame[u].job # "close",
         NEW t \in Apps, TakesNoMutex(t), NEW f, frame' = [frame EXCEPT ![t] = f],
         InjectOK(f, client') \/ f = Idle,
         Adds(f) => Adds(frame[t]) \/ (Unmade(client) /\ \A u \in Apps : ~Adds(frame[u]))
  PROVE  Running'
<1>1. LinksInv'
  BY LinksStay DEF Running, TakesNoMutex
<1>2. ThreadsOK'
  <2>1. t \in Threads /\ t \notin Range(FilterThreads) /\ StopsUnlocked
    BY ThreadsDiffer DEF StopsUnlocked, SameActive
  <2>2. AppOK(f, client')
    BY DEF AppOK
  <2> QED BY <2>1, <2>2, OthersStay DEF Running
<1>3. frame'[t] = f /\ \A u \in Apps \ {t} : frame'[u] = frame[u]
  BY ThreadsDiffer DEF Running, ThreadsOK
<1>4. f.job # "close"
  BY IdleIs DEF InjectOK
<1>5. \A u \in Apps : frame'[u].job # "close"
  BY <1>3, <1>4
<1>6. AloneInv'
  <2>1. Unmade(client') <=> Unmade(client)
    BY SameRoom DEF Running, LinksInv
  <2>2. Unmade(client)' <=> Unmade(client')
    BY DEF Unmade
  <2>3. ASSUME NEW u \in Apps, NEW v \in Apps, Adds(frame'[u])
        PROVE  Unmade(client) /\ (Adds(frame'[v]) => u = v)
    BY <1>3, <2>3 DEF Running, AloneInv
  <2> QED BY <1>5, <2>1, <2>2, <2>3 DEF AloneInv, Adds
<1>7. FreedInv'
  <2>1. freed' = {}
    BY DEF Running, FreedInv
  <2> QED BY <1>5, <2>1 DEF FreedInv
<1> QED BY <1>1, <1>2, <1>6, <1>7 DEF Running

(* A step of the thread that closes.                                       *)
LEMMA CloseSteps ==
  ASSUME Running, setup' = setup, SameLinks(client, client'), client'.up = client.up, client.up,
         NEW t \in Apps, \A u \in Apps : u # t => frame[u] = Idle,
         TakesNoMutex(t), StopsUnlocked, NEW f, frame' = [frame EXCEPT ![t] = f],
         CloseOK(f, client'), freed' \subseteq DOMAIN client.streams,
         \A id \in DOMAIN client.streams : id \in freed' <=> Destroyed(f, client, id),
         \A m \in DOMAIN client.mpoints : Past(f, m) => ~client'.mpoints[m].active
  PROVE  Running'
<1>1. LinksInv'
  BY LinksStay DEF Running, TakesNoMutex
<1>2. ThreadsOK'
  <2>1. t \in Threads /\ t \notin Range(FilterThreads) /\ AppOK(f, client')
    BY ThreadsDiffer DEF AppOK
  <2> QED BY <2>1, OthersStay DEF Running
<1>3. frame'[t] = f /\ \A u \in Apps \ {t} : frame'[u] = Idle
  BY ThreadsDiffer DEF Running, ThreadsOK
<1>4. f.job = "close" /\ Idle.job # "close" /\ ~Adds(Idle)
  BY DEF CloseOK, Idle, At, Adds
<1>5. AloneInv'
  BY <1>3, <1>4 DEF AloneInv, Adds
<1>6. FreedInv'
  <2>1. /\ DOMAIN client'.streams = DOMAIN client.streams /\ DOMAIN client'.mpoints = DOMAIN client.mpoints
        /\ \A id \in DOMAIN client.streams :
             client'.streams[id].mp = client.streams[id].mp /\ client.streams[id].mp \in DOMAIN client.mpoints
    BY DEF Running, LinksInv, Linked, SameLinks, SameStreams, SamePoints
  <2>2. \A id \in freed' : ~client'.mpoints[client'.streams[id].mp].active
    BY <2>1 DEF Destroyed
  <2>3. \A id \in DOMAIN client.streams : id \in freed' <=> Destroyed(f, client', id)
    BY SameThreads
  <2> QED BY <1>3, <1>4, <2>1, <2>2, <2>3 DEF FreedInv, Destroyed, Past
<1> QED BY <1>1, <1>2, <1>5, <1>6 DEF Running

----------------------------------------------------------------------------
(* The actions of a filtering thread.                                      *)

(* What a thread does to a stream it uses: the fields that link it stay.   *)
LEMMA StreamFields ==
  ASSUME NEW c, Linked(c), NEW id \in DOMAIN c.streams, NEW x, NEW y
  PROVE  LET ms == c.streams[id]
         IN  /\ \A n \in Nat : \A r \in {[ms EXCEPT !.size = n], [ms EXCEPT !.size = n, !.filters = x]} :
                  DOMAIN r = DOMAIN ms /\ r.size = n /\ r.table = ms.table /\ r.mp = ms.mp
                  /\ r.thres = ms.thres /\ r.writers = ms.writers
             /\ \A r \in {[ms EXCEPT !.filters = x], [ms EXCEPT !.seq_no = x, !.written = y]} :
                  DOMAIN r = DOMAIN ms /\ r.size = ms.size /\ r.table = ms.table /\ r.mp = ms.mp
                  /\ r.thres = ms.thres /\ r.writers = ms.writers
             /\ ms.size \in Nat
<1> DEFINE ms == c.streams[id]
<1>1. /\ DOMAIN ms = {"table", "mp", "thres", "interval", "size", "seq_no", "index", "writers",
                       "filters", "written"}
      /\ ms.size \in Nat
  BY DEF Linked, NewStream
<1> HIDE DEF ms
<1>2. \A n \in Nat : \A r \in {[ms EXCEPT !.size = n], [ms EXCEPT !.size = n, !.filters = x]} :
        DOMAIN r = DOMAIN ms /\ r.size = n /\ r.table = ms.table /\ r.mp = ms.mp
        /\ r.thres = ms.thres /\ r.writers = ms.writers
  BY <1>1
<1>3. \A r \in {[ms EXCEPT !.filters = x], [ms EXCEPT !.seq_no = x, !.written = y]} :
        DOMAIN r = DOMAIN ms /\ r.size = ms.size /\ r.table = ms.table /\ r.mp = ms.mp
        /\ r.thres = ms.thres /\ r.writers = ms.writers
  BY <1>1
<1> QED BY <1>1, <1>2, <1>3 DEF ms

(* Two fields of a stream's record change as one record does.              *)
LEMMA RowChanges ==
  ASSUME NEW c, "streams" \in DOMAIN c, NEW id \in DOMAIN c.streams, NEW x,
         "written" \in DOMAIN c.streams[id],
         NEW r, r = [c EXCEPT !.streams[id].seq_no = x, !.streams[id].written = @ + 1],
         NEW q, q = [c.streams[id] EXCEPT !.seq_no = x, !.written = c.streams[id].written + 1]
  PROVE  r = [c EXCEPT !.streams[id] = q]
<1>1. PICK s : s = c.streams
  OBVIOUS
<1>2. PICK ms : ms = s[id]
  OBVIOUS
<1>3. PICK d : d = [c EXCEPT !.streams = [s EXCEPT ![id] = [ms EXCEPT !.seq_no = x]]]
  OBVIOUS
<1>4. d.streams = [s EXCEPT ![id] = [ms EXCEPT !.seq_no = x]]
  BY <1>1, <1>3
<1>5. d.streams[id].written = ms.written
  BY <1>1, <1>2, <1>4
<1>6. [d EXCEPT !.streams[id].written = @ + 1] =
        [c EXCEPT !.streams = [s EXCEPT ![id] = [ms EXCEPT !.seq_no = x, !.written = ms.written + 1]]]
  BY <1>1, <1>2, <1>3, <1>4, <1>5, ZenonT(60)
<1> QED BY <1>1, <1>2, <1>3, <1>6

(* A row changes the counts of its stream,                                 *)
LEMMA RowClient ==
  ASSUME Linked(client), NEW t, Stream(t) \in DOMAIN client.streams, Row(t)
  PROVE  /\ SameLinks(client, client') /\ client'.up = client.up /\ client'.mpoints = client.mpoints
         /\ \A i \in DOMAIN client.streams : client'.streams[i].size = client.streams[i].size
<1>1. /\ "streams" \in DOMAIN client /\ "written" \in DOMAIN client.streams[Stream(t)]
      /\ Stream(t) \in DOMAIN client.streams
  BY DEF Linked, ClientFields, NewStream
<1>2. PICK x, d : /\ d = client'
                  /\ d = [client EXCEPT !.streams[Stream(t)].seq_no = x,
                                        !.streams[Stream(t)].written = @ + 1]
  BY DEF Row
<1>3. PICK ms : ms = [client.streams[Stream(t)] EXCEPT !.seq_no = x,
                                                       !.written = client.streams[Stream(t)].written + 1]
  OBVIOUS
<1>4. d = [client EXCEPT !.streams[Stream(t)] = ms]
  BY <1>1, <1>2, <1>3, RowChanges
<1>5. PICK c, id : c = client /\ id = Stream(t)
  OBVIOUS
<1>6. /\ DOMAIN ms = DOMAIN c.streams[id] /\ ms.size = c.streams[id].size /\ ms.size \in Nat
      /\ ms.table = c.streams[id].table /\ ms.mp = c.streams[id].mp
      /\ ms.thres = c.streams[id].thres /\ ms.writers = c.streams[id].writers
  BY <1>3, <1>5, StreamFields
<1>7. d = [c EXCEPT !.streams[id] = ms] /\ Linked(c) /\ id \in DOMAIN c.streams
  BY <1>4, <1>5
<1>8. /\ SameLinks(c, d) /\ d.up = c.up /\ d.mpoints = c.mpoints /\ d.streams[id] = ms
      /\ \A i \in DOMAIN c.streams \ {id} : d.streams[i] = c.streams[i]
  BY <1>6, <1>7, StreamChanges
<1>9. \A i \in DOMAIN c.streams : d.streams[i].size = c.streams[i].size
  BY <1>6, <1>8
<1> QED BY <1>2, <1>5, <1>8, <1>9

(* the end of a window its filters, and starts counting anew,              *)
LEMMA WindowClient ==
  ASSUME Linked(client), NEW t, Stream(t) \in DOMAIN client.streams, Window(t)
  PROVE  /\ SameLinks(client, client') /\ client'.up = client.up /\ client'.mpoints = client.mpoints
         /\ client'.streams[Stream(t)].size = 0
         /\ \A i \in DOMAIN client.streams \ {Stream(t)} :
              client'.streams[i].size = client.streams[i].size
<1> PICK id : id = Stream(t)
  OBVIOUS
<1>1. PICK x : client' = [client EXCEPT !.streams[id].size = 0, !.streams[id].filters = x]
  <2>1. client' = [client EXCEPT !.streams[id].size = 0,
                       !.streams[id].filters = [k \in DOMAIN @ |-> NewWindow(@[k])]]
    BY DEF Window
  <2> QED BY <2>1
<1>2. "streams" \in DOMAIN client
  BY DEF Linked, ClientFields
<1>3. PICK ms : ms = [client.streams[id] EXCEPT !.size = 0, !.filters = x]
  OBVIOUS
<1>4. client' = [client EXCEPT !.streams[id] = ms]
  BY <1>1, <1>2, <1>3
<1>5. /\ DOMAIN ms = DOMAIN client.streams[id] /\ ms.size = 0 /\ ms.size \in Nat
      /\ ms.table = client.streams[id].table /\ ms.mp = client.streams[id].mp
      /\ ms.thres = client.streams[id].thres /\ ms.writers = client.streams[id].writers
  BY <1>3, StreamFields
<1>6. /\ SameLinks(client, client') /\ client'.up = client.up /\ client'.mpoints = client.mpoints
      /\ client'.streams[id] = ms
      /\ \A i \in DOMAIN client.streams \ {id} : client'.streams[i] = client.streams[i]
  BY <1>4, <1>5, StreamChanges
<1> QED BY <1>5, <1>6

(* a filter that is given a value itself only,                             *)
LEMMA FeedClient ==
  ASSUME Linked(client), NEW t, Stream(t) \in DOMAIN client.streams, Feed(t)
  PROVE  /\ SameLinks(client, client') /\ client'.up = client.up /\ client'.mpoints = client.mpoints
         /\ \A i \in DOMAIN client.streams : client'.streams[i].size = client.streams[i].size
<1> PICK id : id = Stream(t)
  OBVIOUS
<1>1. PICK x : client' = [client EXCEPT !.streams[id].filters = x]
  <2>1. PICK k : k = frame[t].k
    OBVIOUS
  <2>2. PICK y : client' = [client EXCEPT !.streams[id].filters[k] = y]
    BY <2>1 DEF Feed
  <2>3. PICK x : x = [client.streams[id].filters EXCEPT ![k] = y]
    OBVIOUS
  <2>4. client' = [client EXCEPT !.streams[id].filters = x]
    BY <2>2, <2>3
  <2> QED BY <2>4
<1>2. "streams" \in DOMAIN client
  BY DEF Linked, ClientFields
<1>3. PICK ms : ms = [client.streams[id] EXCEPT !.filters = x]
  OBVIOUS
<1>4. client' = [client EXCEPT !.streams[id] = ms]
  BY <1>1, <1>2, <1>3
<1>5. /\ DOMAIN ms = DOMAIN client.streams[id] /\ ms.size = client.streams[id].size /\ ms.size \in Nat
      /\ ms.table = client.streams[id].table /\ ms.mp = client.streams[id].mp
      /\ ms.thres = client.streams[id].thres /\ ms.writers = client.streams[id].writers
  BY <1>3, StreamFields
<1>6. /\ SameLinks(client, client') /\ client'.up = client.up /\ client'.mpoints = client.mpoints
      /\ client'.streams[id] = ms
      /\ \A i \in DOMAIN client.streams \ {id} : client'.streams[i] = client.streams[i]
  BY <1>4, <1>5, StreamChanges
<1> QED BY <1>5, <1>6

(* and a sample the count of it, where the stream reports by samples.      *)
LEMMA CountClient ==
  ASSUME Linked(client), NEW t, Stream(t) \in DOMAIN client.streams, CountSample(t)
  PROVE  /\ SameLinks(client, client') /\ client'.up = client.up /\ client'.mpoints = client.mpoints
         /\ client'.streams[Stream(t)].size =
              IF client.streams[Stream(t)].thres > 0 THEN client.streams[Stream(t)].size + 1
                                                     ELSE client.streams[Stream(t)].size
         /\ \A i \in DOMAIN client.streams \ {Stream(t)} :
              client'.streams[i].size = client.streams[i].size
<1> PICK id : id = Stream(t)
  OBVIOUS
<1>1. PICK n : n = IF client.streams[id].thres > 0 THEN client.streams[id].size + 1
                                                   ELSE client.streams[id].size
  OBVIOUS
<1>2. client' = [client EXCEPT !.streams[id].size = n]
  BY <1>1 DEF CountSample
<1>3. "streams" \in DOMAIN client /\ n \in Nat
  <2>1. client.streams[id].size \in Nat /\ "streams" \in DOMAIN client
    BY StreamFields DEF Linked, ClientFields
  <2> QED BY <1>1, <2>1
<1>4. PICK ms : ms = [client.streams[id] EXCEPT !.size = n]
  OBVIOUS
<1>5. client' = [client EXCEPT !.streams[id] = ms]
  BY <1>2, <1>3, <1>4
<1>6. /\ DOMAIN ms = DOMAIN client.streams[id] /\ ms.size = n /\ ms.size \in Nat
      /\ ms.table = client.streams[id].table /\ ms.mp = client.streams[id].mp
      /\ ms.thres = client.streams[id].thres /\ ms.writers = client.streams[id].writers
  BY <1>3, <1>4, StreamFields
<1>7. /\ SameLinks(client, client') /\ client'.up = client.up /\ client'.mpoints = client.mpoints
      /\ client'.streams[id] = ms
      /\ \A i \in DOMAIN client.streams \ {id} : client'.streams[i] = client.streams[i]
  BY <1>5, <1>6, StreamChanges
<1> QED BY <1>1, <1>6, <1>7

(* Where a filtering thread is, and what it has.                           *)
LEMMA ReportFrame ==
  ASSUME Running, NEW t \in Range(FilterThreads), frame[t].pc # "none"
  PROVE  /\ t \in Threads /\ DOMAIN frame = Threads /\ DOMAIN frame[t] = FrameFields
         /\ frame[t].job = "report" /\ frame[t].todo # <<>> /\ Stream(t) \in DOMAIN client.streams
         /\ frame[t].mp \in DOMAIN client.mpoints /\ frame[t].mp \in DOMAIN holder
         /\ Guarded(frame[t].mp) /\ ReportOK(t, frame[t], client, holder)
         /\ Linked(client) /\ t # Nobody
<1>1. /\ t \in Threads /\ DOMAIN frame = Threads /\ ReportOK(t, frame[t], client, holder)
      /\ Linked(client) /\ LinksInv /\ t # Nobody
  BY ThreadsDiffer DEF Running, ThreadsOK, LinksInv
<1>2. PICK id \in DOMAIN client.streams : frame[t].todo = <<id>>
  BY <1>1 DEF ReportOK
<1>3. frame[t].todo # <<>> /\ Stream(t) \in DOMAIN client.streams
  BY <1>2, ListOne DEF Stream
<1>4. DOMAIN frame[t] = FrameFields /\ frame[t].job = "report"
  BY <1>1 DEF ReportOK
<1>5. PICK f : f = frame[t]
  OBVIOUS
<1>6. f.mp \in DOMAIN client.mpoints /\ f.mp \in DOMAIN holder /\ client.mpoints[f.mp].guarded
  BY <1>1, <1>5, ReportsOf
<1> QED BY <1>1, <1>3, <1>4, <1>5, <1>6 DEF Guarded

(* A filtering thread that goes on with its stream.                        *)
LEMMA ReportGoesOn ==
  ASSUME Running, NEW t \in Range(FilterThreads), NEW f, f = frame[t], f.pc # "none",
         setup' = setup, SameLinks(client, client'), client'.up = client.up, SameActive,
         freed' = freed, TakesNoMutex(t),
         NEW g, frame' = [frame EXCEPT ![t] = g],
         DOMAIN g = FrameFields, g.job = "report", g.todo = f.todo, g.mp = f.mp,
         g.pc \in {"sleep", "lock", "row", "window", "unlock", "end", "done"},
         g.pc \in {"row", "window", "unlock", "end"} => holder'[f.mp] = t,
         g.pc \in {"row", "window"} => client.mpoints[f.mp].active
  PROVE  Running'
<1>1. ReportOK(t, f, client, holder) /\ f.mp \in DOMAIN client.mpoints
  BY ReportFrame
<1>2. \E id \in DOMAIN client.streams :
        g.todo = <<id>> /\ g.mp = client.streams[id].mp /\ client.mpoints[g.mp].guarded
  BY <1>1 DEF ReportOK
<1>3. ReportOK(t, g, client, holder')
  BY <1>2 DEF ReportOK
<1>4. g.pc \in {"row", "window"} => client'.mpoints[g.mp].active
  BY <1>1 DEF SameActive
<1>5. Linked(client)
  BY DEF Running, LinksInv
<1>6. g.pc \in {"row", "window", "unlock", "end"} => holder'[g.mp] = t
  OBVIOUS
<1>7. ReportOK(t, g, client', holder')
  <2>1. PICK h : h = holder'
    OBVIOUS
  <2> QED BY <1>3, <1>4, <1>5, <1>6, <2>1, SameReports
<1> QED BY <1>7, ReportSteps

(* It finds the mutex free, and looks whether the point is still active.   *)
LEMMA ReportLocks ==
  ASSUME Running, NEW t \in Range(FilterThreads), Lock(t)
  PROVE  Running'
<1> PICK f : f = frame[t]
  OBVIOUS
<1>1. f.pc = "lock" /\ f.job = "report" /\ t \in Threads /\ DOMAIN f = FrameFields
      /\ f.mp \in DOMAIN holder /\ Guarded(f.mp) /\ Linked(client)
  BY ReportFrame DEF Lock, Runs
<1>2. holder[f.mp] = Nobody /\ holder' = [holder EXCEPT ![f.mp] = t] /\ client' = client
      /\ setup' = setup /\ freed' = freed
  BY <1>1 DEF Lock, CanLock, memory
<1>3. TakesNoMutex(t) /\ holder'[f.mp] = t
  BY <1>1, <1>2 DEF TakesNoMutex
<1>4. SameLinks(client, client') /\ SameActive /\ client'.up = client.up
  BY <1>1, <1>2, SameItself DEF SameActive
<1>5. PICK g : g = Locked(t)
  OBVIOUS
<1>6. g = [f EXCEPT !.pc = IF client.mpoints[f.mp].active THEN "row" ELSE "end", !.k = 1]
  BY <1>1, <1>5 DEF Locked
<1>7. /\ DOMAIN g = FrameFields /\ g.job = "report" /\ g.todo = f.todo /\ g.mp = f.mp
      /\ g.pc \in {"row", "end"} /\ (g.pc = "row" => client.mpoints[f.mp].active)
  BY <1>1, <1>6, IdleIs DEF FrameFields
<1>8. frame' = [frame EXCEPT ![t] = g]
  BY <1>5 DEF Lock, Moves
<1> QED BY <1>1, <1>2, <1>3, <1>4, <1>7, <1>8, ReportGoesOn

(* It gives a row to a writer, if there is one.                            *)
LEMMA ReportWrites ==
  ASSUME Running, NEW t \in Range(FilterThreads), NoWriter(t) \/ Row(t)
  PROVE  Running'
<1> PICK f : f = frame[t]
  OBVIOUS
<1>1. f.pc = "row" /\ f.job = "report" /\ t \in Threads /\ DOMAIN f = FrameFields
      /\ Stream(t) \in DOMAIN client.streams /\ Linked(client) /\ ReportOK(t, f, client, holder)
  BY ReportFrame DEF NoWriter, Row, Uses, Runs
<1>2. holder' = holder /\ setup' = setup /\ freed' = freed
  BY DEF NoWriter, Row, memory
<1>3. TakesNoMutex(t) /\ holder'[f.mp] = t /\ client.mpoints[f.mp].active
  BY <1>1, <1>2 DEF TakesNoMutex, ReportOK
<1>4. SameLinks(client, client') /\ SameActive /\ client'.up = client.up
  <2>1. CASE NoWriter(t)
    BY <1>1, <2>1, SameItself DEF SameActive, NoWriter
  <2>2. CASE Row(t)
    BY <1>1, <2>2, RowClient DEF SameActive
  <2> QED BY <2>1, <2>2
<1>5. PICK g : /\ frame' = [frame EXCEPT ![t] = g] /\ DOMAIN g = FrameFields /\ g.job = "report"
               /\ g.todo = f.todo /\ g.mp = f.mp /\ g.pc \in {"end", "row", "window"}
  <2>1. CASE NoWriter(t)
    <3>1. PICK g : g = [f EXCEPT !.pc = "end"]
      OBVIOUS
    <3>2. frame' = [frame EXCEPT ![t] = g]
      BY <1>1, <2>1, <3>1 DEF NoWriter, Moves
    <3>3. DOMAIN g = FrameFields /\ g.job = "report" /\ g.todo = f.todo /\ g.mp = f.mp /\ g.pc = "end"
      BY <1>1, <3>1, IdleIs DEF FrameFields
    <3> QED BY <3>2, <3>3
  <2>2. CASE Row(t)
    <3>1. PICK g : g = [f EXCEPT !.k = @ + 1,
                           !.pc = IF f.k = Len(client.streams[Stream(t)].writers) THEN "window" ELSE @]
      OBVIOUS
    <3>2. frame' = [frame EXCEPT ![t] = g]
      BY <1>1, <2>2, <3>1 DEF Row, Moves
    <3>3. /\ DOMAIN g = FrameFields /\ g.job = "report" /\ g.todo = f.todo /\ g.mp = f.mp
          /\ g.pc \in {"row", "window"}
      BY <1>1, <3>1, IdleIs DEF FrameFields
    <3> QED BY <3>2, <3>3
  <2> QED BY <2>1, <2>2
<1> QED BY <1>1, <1>2, <1>3, <1>4, <1>5, ReportGoesOn

(* It ends its window,                                                     *)
LEMMA ReportWindow ==
  ASSUME Running, NEW t \in Range(FilterThreads), Window(t)
  PROVE  Running'
<1> PICK f : f = frame[t]
  OBVIOUS
<1>1. f.pc = "window" /\ f.job = "report" /\ t \in Threads /\ DOMAIN f = FrameFields
      /\ Stream(t) \in DOMAIN client.streams /\ Linked(client) /\ ReportOK(t, f, client, holder)
  BY ReportFrame DEF Window, Uses, Runs
<1>2. holder' = holder /\ setup' = setup /\ freed' = freed
  BY DEF Window, memory
<1>3. TakesNoMutex(t) /\ holder'[f.mp] = t
  BY <1>1, <1>2 DEF TakesNoMutex, ReportOK
<1>4. SameLinks(client, client') /\ SameActive /\ client'.up = client.up
  BY <1>1, WindowClient DEF SameActive
<1>5. PICK g : g = [f EXCEPT !.pc = "unlock"]
  OBVIOUS
<1>6. frame' = [frame EXCEPT ![t] = g]
  BY <1>1, <1>5 DEF Window, Moves, Reported
<1>7. DOMAIN g = FrameFields /\ g.job = "report" /\ g.todo = f.todo /\ g.mp = f.mp /\ g.pc = "unlock"
  BY <1>1, <1>5, IdleIs DEF FrameFields
<1> QED BY <1>1, <1>2, <1>3, <1>4, <1>6, <1>7, ReportGoesOn

(* releases the mutex,                                                     *)
LEMMA ReportUnlocks ==
  ASSUME Running, NEW t \in Range(FilterThreads), Unlock(t)
  PROVE  Running'
<1> PICK f : f = frame[t]
  OBVIOUS
<1>1. f.pc \in {"unlock", "end", "feed"}
  BY DEF Unlock, Finished
<1>2. f.job = "report" /\ t \in Threads /\ DOMAIN f = FrameFields
      /\ Linked(client) /\ f.mp \in DOMAIN holder
  BY <1>1, ReportFrame
<1>3. PICK g : g = [f EXCEPT !.pc = IF @ = "end" THEN "done" ELSE "sleep"]
  OBVIOUS
<1>4. DOMAIN g = FrameFields /\ g.job = "report" /\ g.todo = f.todo /\ g.mp = f.mp
      /\ g.pc \in {"done", "sleep"}
  BY <1>2, <1>3, IdleIs DEF FrameFields
<1>5. After(f) = {g}
  BY <1>2, <1>3 DEF After
<1>6. holder' = [holder EXCEPT ![f.mp] = IF @ = t THEN Nobody ELSE @] /\ frame' = [frame EXCEPT ![t] = g]
      /\ client' = client /\ setup' = setup /\ freed' = freed
  BY <1>4, <1>5 DEF Unlock, Moves, memory
<1>7. TakesNoMutex(t)
  BY <1>2, <1>6 DEF TakesNoMutex
<1>8. SameLinks(client, client') /\ SameActive /\ client'.up = client.up
  BY <1>2, <1>6, SameItself DEF SameActive
<1> QED BY <1>1, <1>2, <1>4, <1>6, <1>7, <1>8, ReportGoesOn

(* and sleeps, until it wants the mutex again.                             *)
LEMMA ReportWakes ==
  ASSUME Running, NEW t \in Range(FilterThreads), Wake(t)
  PROVE  Running'
<1> PICK f : f = frame[t]
  OBVIOUS
<1>1. f.pc = "sleep"
  BY DEF Wake, Runs
<1>2. f.job = "report" /\ t \in Threads /\ DOMAIN f = FrameFields /\ Linked(client)
  BY <1>1, ReportFrame
<1>3. holder' = holder /\ client' = client /\ setup' = setup /\ freed' = freed
  BY DEF Wake, memory
<1>4. TakesNoMutex(t)
  BY <1>3 DEF TakesNoMutex
<1>5. SameLinks(client, client') /\ SameActive /\ client'.up = client.up
  BY <1>2, <1>3, SameItself DEF SameActive
<1>6. PICK g : g = [f EXCEPT !.pc = "lock"]
  OBVIOUS
<1>7. frame' = [frame EXCEPT ![t] = g]
  BY <1>6 DEF Wake, Moves
<1>8. DOMAIN g = FrameFields /\ g.job = "report" /\ g.todo = f.todo /\ g.mp = f.mp /\ g.pc = "lock"
  BY <1>2, <1>6, IdleIs DEF FrameFields
<1> QED BY <1>1, <1>2, <1>3, <1>4, <1>5, <1>7, <1>8, ReportGoesOn

(* It does nothing else.                                                   *)
LEMMA ReportNext ==
  ASSUME Running, NobodyInjectsWhileClosing, NEW t \in Range(FilterThreads),
         Start(t) \/ Call(t) \/ Close(t) \/ Signal(t) \/ Step(t)
  PROVE  Running'
<1>1. ReportOK(t, frame[t], client, holder) /\ t \notin Apps
  BY ThreadsDiffer DEF Running, ThreadsOK
<1>2. frame[t].pc \in {"none", "sleep", "lock", "row", "window", "unlock", "end", "done"}
  BY <1>1 DEF ReportOK
<1>3. ~Start(t) /\ ~Call(t) /\ ~Close(t)
  BY <1>1 DEF Start, Call, Close
<1>4. ~Signal(t)
  BY <1>2 DEF Signal, NobodyInjectsWhileClosing
<1>5. /\ ~WriteMeta(t) /\ ~Feed(t) /\ ~CountSample(t) /\ ~Create(t) /\ ~Destroy(t) /\ ~Free(t)
      /\ ~DestroyedMP(t) /\ ~Shut(t)
  BY <1>2 DEF WriteMeta, Feed, CountSample, Create, Destroy, Free, DestroyedMP, Shut, Uses, Runs
<1>6. Lock(t) \/ NoWriter(t) \/ Row(t) \/ Window(t) \/ Unlock(t) \/ Wake(t)
  BY <1>3, <1>4, <1>5 DEF Step
<1> QED BY <1>6, ReportLocks, ReportWrites, ReportWindow, ReportUnlocks, ReportWakes

----------------------------------------------------------------------------
(* The actions of a thread that injects.                                   *)

(* The streams it has left, without the first.                             *)
LEMMA TodoTail ==
  ASSUME NEW c, NEW f, TodoOK(f, c), f.todo # <<>>
  PROVE  /\ Head(f.todo) \in DOMAIN c.streams /\ c.streams[Head(f.todo)].mp = f.mp
         /\ \A g : g.mp = f.mp /\ g.todo = Tail(f.todo) => TodoOK(g, c)
         /\ \A i \in DOMAIN f.todo : f.todo[i] # Head(f.todo) => \E j \in DOMAIN Tail(f.todo) : Tail(f.todo)[j] = f.todo[i]
         /\ \A j \in DOMAIN Tail(f.todo) : Tail(f.todo)[j] # Head(f.todo)
                                           /\ \E i \in DOMAIN f.todo : f.todo[i] = Tail(f.todo)[j]
<1>1. IsList(f.todo) /\ IsInjective(f.todo)
      /\ \A i \in DOMAIN f.todo : f.todo[i] \in DOMAIN c.streams /\ c.streams[f.todo[i]].mp = f.mp
  BY DEF TodoOK
<1>2. PICK l, r : l = f.todo /\ r = Tail(f.todo)
  OBVIOUS
<1>3. DOMAIN l = 1..Len(l) /\ Len(l) \in Nat
  BY <1>1, <1>2, ListIsSeq
<1>4. /\ IsList(r) /\ DOMAIN r = 1..Len(l) - 1 /\ \A i \in 1..Len(l) - 1 : r[i] = l[i + 1]
      /\ Len(l) >= 1 /\ Head(l) = l[1]
  BY <1>1, <1>2, ListTail
<1>5. \A i, j \in DOMAIN l : l[i] = l[j] => i = j
  BY <1>1, <1>2 DEF IsInjective
<1>6. IsInjective(r)
  <2>1. ASSUME NEW i \in DOMAIN r, NEW j \in DOMAIN r, r[i] = r[j]
        PROVE  i = j
    <3>1. l[i + 1] = l[j + 1] /\ i + 1 \in DOMAIN l /\ j + 1 \in DOMAIN l
      BY <1>3, <1>4, <2>1
    <3>2. i + 1 = j + 1
      BY <1>5, <3>1
    <3> QED BY <1>4, <3>2
  <2> QED BY <2>1 DEF IsInjective
<1>7. Head(l) \in DOMAIN c.streams /\ c.streams[Head(l)].mp = f.mp
  BY <1>1, <1>2, <1>3, <1>4
<1>8. \A j \in DOMAIN r : /\ r[j] \in DOMAIN c.streams /\ c.streams[r[j]].mp = f.mp
                          /\ r[j] # Head(l) /\ \E i \in DOMAIN l : l[i] = r[j]
  BY <1>1, <1>2, <1>3, <1>4, <1>5
<1>9. ASSUME NEW i \in DOMAIN l, l[i] # Head(l) PROVE \E j \in DOMAIN r : r[j] = l[i]
  <2>1. i - 1 \in DOMAIN r /\ r[i - 1] = l[i]
    BY <1>3, <1>4, <1>9
  <2> QED BY <2>1
<1>10. \A g : g.mp = f.mp /\ g.todo = Tail(f.todo) => TodoOK(g, c)
  BY <1>2, <1>4, <1>6, <1>8 DEF TodoOK
<1> QED BY <1>2, <1>7, <1>8, <1>9, <1>10

(* g has left the streams that f has, without the first, head.             *)
Popped(f, g, c, head, tail) ==
  /\ head \in DOMAIN c.streams /\ c.streams[head].mp = f.mp /\ TodoOK(g, c)
  /\ \A i \in DOMAIN f.todo : f.todo[i] # head => \E j \in DOMAIN tail : tail[j] = f.todo[i]
  /\ \A j \in DOMAIN tail : tail[j] # head /\ \E i \in DOMAIN f.todo : f.todo[i] = tail[j]

(* To leave the first stream is that.                                      *)
LEMMA Popping ==
  ASSUME NEW c, NEW f, TodoOK(f, c), f.todo # <<>>, NEW g, g.mp = f.mp,
         NEW head, head = Head(f.todo), NEW tail, tail = Tail(f.todo), g.todo = tail
  PROVE  Popped(f, g, c, head, tail)
BY TodoTail DEF Popped

(* Where a thread that injects is.                                         *)
LEMMA InjectFrame ==
  ASSUME Running, NEW t \in Apps, NEW f, f = frame[t], InjectOK(f, client)
  PROVE  /\ t \in Threads /\ t # Nobody /\ DOMAIN frame = Threads /\ Linked(client)
         /\ client.up /\ freed = {} /\ \A u \in Apps : frame[u].job # "close"
         /\ f.mp \in DOMAIN holder /\ f.job = "inject"
         /\ f.todo # <<>> => Stream(t) \in DOMAIN client.streams /\ client.streams[Stream(t)].mp = f.mp
<1>1. t \in Threads /\ t # Nobody /\ DOMAIN frame = Threads /\ Linked(client)
  BY ThreadsDiffer DEF Running, ThreadsOK, LinksInv
<1>2. client.up /\ freed = {} /\ \A u \in Apps : frame[u].job # "close"
  BY NobodyCloses
<1>3. f.mp \in DOMAIN holder
  <2>1. f.mp \in DOMAIN client.mpoints
    BY DEF InjectOK
  <2>2. IsList(client.mpoints) /\ DOMAIN holder = 1..PointCount /\ Len(client.mpoints) <= PointCount
    BY DEF Running, LinksInv, Linked
  <2>3. f.mp \in 1..Len(client.mpoints) /\ Len(client.mpoints) \in Nat
    BY <2>1, <2>2, ListIsSeq
  <2>4. PointCount \in Int
    BY MeasurementPointAssumption DEF PointCount
  <2> QED BY <2>2, <2>3, <2>4
<1>4. f.job = "inject"
  BY DEF InjectOK
<1>5. f.todo # <<>> => Stream(t) \in DOMAIN client.streams /\ client.streams[Stream(t)].mp = f.mp
  BY TodoTail DEF InjectOK, Stream
<1> QED BY <1>1, <1>2, <1>3, <1>4, <1>5

(* A thread that goes on injecting.                                        *)
LEMMA InjectGoesOn ==
  ASSUME Running, NEW t \in Apps, NEW f, f = frame[t], InjectOK(f, client),
         setup' = setup, SameLinks(client, client'), client'.up = client.up, SameActive,
         freed' = freed, TakesNoMutex(t),
         NEW g, frame' = [frame EXCEPT ![t] = g],
         InjectOK(g, client) \/ g = Idle, Adds(g) => Adds(f)
  PROVE  Running'
<1>1. client.up /\ \A u \in Apps : frame[u].job # "close"
  BY InjectFrame
<1>2. InjectOK(g, client') \/ g = Idle
  BY SameThreads
<1> QED BY <1>1, <1>2, InjectSteps

(* The streams of a measurement point are those left to do there.          *)
LEMMA TodoAll ==
  ASSUME NEW c, Linked(c), NEW m \in DOMAIN c.mpoints, NEW g, g.mp = m, g.todo = c.mpoints[m].streams
  PROVE  TodoOK(g, c) /\ \A id \in DOMAIN c.streams : c.streams[id].mp = m => \E i \in DOMAIN g.todo : g.todo[i] = id
<1>1. /\ IsList(g.todo) /\ IsInjective(g.todo)
      /\ Range(g.todo) = {id \in DOMAIN c.streams : c.streams[id].mp = m}
  BY DEF Linked
<1> QED BY <1>1 DEF TodoOK, Range

(* It finds the mutex free.                                                *)
LEMMA InjectLocks ==
  ASSUME Running, NEW t \in Apps, InjectOK(frame[t], client), Lock(t)
  PROVE  Running'
<1> PICK f : f = frame[t]
  OBVIOUS
<1>1. /\ f.pc = "lock" /\ f.job = "inject" /\ t \in Threads /\ t # Nobody /\ DOMAIN f = FrameFields
      /\ f.mp \in DOMAIN holder /\ f.mp \in DOMAIN client.mpoints /\ Linked(client)
  BY InjectFrame DEF Lock, Runs, InjectOK
<1>2. /\ CanLock(f.mp) /\ holder' = [holder EXCEPT ![f.mp] = IF Guarded(f.mp) THEN t ELSE @]
      /\ client' = client /\ setup' = setup /\ freed' = freed
  BY <1>1 DEF Lock, memory
<1>3. TakesNoMutex(t)
  BY <1>1, <1>2 DEF TakesNoMutex, CanLock
<1>4. SameLinks(client, client') /\ SameActive /\ client'.up = client.up
  BY <1>1, <1>2, SameItself DEF SameActive
<1>5. PICK g : g = Locked(t)
  OBVIOUS
<1>6. g = [f EXCEPT !.pc = "feed", !.todo = client.mpoints[f.mp].streams]
  BY <1>1, <1>5 DEF Locked
<1>7. /\ DOMAIN g = FrameFields /\ g.job = "inject" /\ g.todo = client.mpoints[f.mp].streams
      /\ g.mp = f.mp /\ g.pc = "feed" /\ g.add = f.add
  BY <1>1, <1>6, IdleIs DEF FrameFields
<1>8. TodoOK(g, client)
  BY <1>1, <1>7, TodoAll
<1>9. InjectOK(g, client) /\ (Adds(g) => Adds(f))
  BY <1>1, <1>7, <1>8 DEF InjectOK, Adds
<1>10. frame' = [frame EXCEPT ![t] = g]
  BY <1>5 DEF Lock, Moves
<1> QED BY <1>1, <1>2, <1>3, <1>4, <1>9, <1>10, InjectGoesOn

(* It goes on with the same stream.                                        *)
LEMMA InjectStays ==
  ASSUME NEW f, NEW c, InjectOK(f, c), NEW g, DOMAIN g = FrameFields, g.job = f.job,
         g.todo = f.todo, g.mp = f.mp, g.add = f.add,
         g.pc \in {"feed", "row", "window"}, g.pc \in {"row", "window"} => f.todo # <<>>
  PROVE  InjectOK(g, c) /\ (Adds(g) => Adds(f))
<1>1. TodoOK(g, c)
  BY DEF InjectOK, TodoOK
<1> QED BY <1>1 DEF InjectOK, Adds

(* It is done with a stream.                                               *)
LEMMA InjectDone ==
  ASSUME NEW f, NEW c, InjectOK(f, c), f.todo # <<>>, NEW g, DOMAIN g = FrameFields, g.job = f.job,
         g.todo = Tail(f.todo), g.mp = f.mp, g.add = f.add, g.pc = "feed"
  PROVE  InjectOK(g, c) /\ (Adds(g) => Adds(f))
<1>1. TodoOK(g, c)
  BY TodoTail DEF InjectOK
<1> QED BY <1>1 DEF InjectOK, Adds

(* What it does with the sample, and the rows.                             *)
LEMMA InjectFeeds ==
  ASSUME Running, NEW t \in Apps, InjectOK(frame[t], client), Feed(t)
  PROVE  Running'
<1> PICK f : f = frame[t]
  OBVIOUS
<1>1. /\ f.pc = "feed" /\ f.job = "inject" /\ f.todo # <<>> /\ DOMAIN f = FrameFields
      /\ Stream(t) \in DOMAIN client.streams /\ Linked(client)
  BY InjectFrame DEF Feed, Uses, Runs, InjectOK
<1>2. holder' = holder /\ setup' = setup /\ freed' = freed
  BY DEF Feed
<1>3. TakesNoMutex(t)
  BY <1>2 DEF TakesNoMutex
<1>4. SameLinks(client, client') /\ SameActive /\ client'.up = client.up
  BY <1>1, FeedClient DEF SameActive
<1>5. PICK g : g = [f EXCEPT !.k = @ + 1]
  OBVIOUS
<1>6. frame' = [frame EXCEPT ![t] = g]
  BY <1>5 DEF Feed, Moves
<1>7. /\ DOMAIN g = FrameFields /\ g.job = f.job /\ g.todo = f.todo /\ g.mp = f.mp /\ g.pc = "feed"
      /\ g.add = f.add
  BY <1>1, <1>5, IdleIs DEF FrameFields
<1>8. InjectOK(g, client) /\ (Adds(g) => Adds(f))
  BY <1>7, InjectStays
<1> QED BY <1>2, <1>3, <1>4, <1>6, <1>8, InjectGoesOn

(* It counts the sample, once every filter was fed;                        *)
LEMMA InjectCounts ==
  ASSUME Running, NEW t \in Apps, InjectOK(frame[t], client), CountSample(t)
  PROVE  Running'
<1> PICK f : f = frame[t]
  OBVIOUS
<1>1. /\ f.pc = "feed" /\ f.job = "inject" /\ f.todo # <<>> /\ DOMAIN f = FrameFields
      /\ Stream(t) \in DOMAIN client.streams /\ Linked(client)
  BY InjectFrame DEF CountSample, Uses, Runs, InjectOK
<1>2. holder' = holder /\ setup' = setup /\ freed' = freed
  BY DEF CountSample, memory
<1>3. TakesNoMutex(t)
  BY <1>2 DEF TakesNoMutex
<1>4. SameLinks(client, client') /\ SameActive /\ client'.up = client.up
  BY <1>1, CountClient DEF SameActive
<1>5. PICK g : g = IF Reports(client.streams[Stream(t)]) THEN [f EXCEPT !.pc = "row", !.k = 1]
                                                        ELSE [f EXCEPT !.todo = Tail(@), !.k = 1]
  OBVIOUS
<1>6. frame' = [frame EXCEPT ![t] = g]
  BY <1>5 DEF CountSample, Moves
<1>7. InjectOK(g, client) /\ (Adds(g) => Adds(f))
  <2>1. CASE g = [f EXCEPT !.pc = "row", !.k = 1]
    <3>1. /\ DOMAIN g = FrameFields /\ g.job = f.job /\ g.todo = f.todo /\ g.mp = f.mp /\ g.pc = "row"
          /\ g.add = f.add
      BY <1>1, <2>1, IdleIs DEF FrameFields
    <3> QED BY <1>1, <3>1, InjectStays
  <2>2. CASE g = [f EXCEPT !.todo = Tail(@), !.k = 1]
    <3>1. /\ DOMAIN g = FrameFields /\ g.job = f.job /\ g.todo = Tail(f.todo) /\ g.mp = f.mp
          /\ g.pc = "feed" /\ g.add = f.add
      BY <1>1, <2>2, IdleIs DEF FrameFields
    <3> QED BY <1>1, <3>1, InjectDone
  <2> QED BY <1>5, <2>1, <2>2
<1> QED BY <1>2, <1>3, <1>4, <1>6, <1>7, InjectGoesOn

(* writes a row of what was counted;                                       *)
LEMMA InjectWrites ==
  ASSUME Running, NEW t \in Apps, InjectOK(frame[t], client), Row(t)
  PROVE  Running'
<1> PICK f : f = frame[t]
  OBVIOUS
<1>1. /\ f.pc = "row" /\ f.job = "inject" /\ f.todo # <<>> /\ DOMAIN f = FrameFields
      /\ Stream(t) \in DOMAIN client.streams /\ Linked(client)
  BY InjectFrame DEF Row, Uses, Runs, InjectOK
<1>2. holder' = holder /\ setup' = setup /\ freed' = freed
  BY DEF Row, memory
<1>3. TakesNoMutex(t)
  BY <1>2 DEF TakesNoMutex
<1>4. SameLinks(client, client') /\ SameActive /\ client'.up = client.up
  BY <1>1, RowClient DEF SameActive
<1>5. PICK g : g = [f EXCEPT !.k = @ + 1,
                       !.pc = IF f.k = Len(client.streams[Stream(t)].writers) THEN "window" ELSE @]
  OBVIOUS
<1>6. frame' = [frame EXCEPT ![t] = g]
  BY <1>5 DEF Row, Moves
<1>7. /\ DOMAIN g = FrameFields /\ g.job = f.job /\ g.todo = f.todo /\ g.mp = f.mp
      /\ g.pc \in {"row", "window"} /\ g.add = f.add
  BY <1>1, <1>5, IdleIs DEF FrameFields
<1>8. InjectOK(g, client) /\ (Adds(g) => Adds(f))
  BY <1>1, <1>7, InjectStays
<1> QED BY <1>2, <1>3, <1>4, <1>6, <1>8, InjectGoesOn

(* and begins a new window, or has no writer to write to.                  *)
LEMMA InjectReported ==
  ASSUME Running, NEW t \in Apps, InjectOK(frame[t], client), NoWriter(t) \/ Window(t)
  PROVE  Running'
<1> PICK f : f = frame[t]
  OBVIOUS
<1>1. /\ f.pc \in {"row", "window"} /\ f.job = "inject" /\ f.todo # <<>> /\ DOMAIN f = FrameFields
      /\ Stream(t) \in DOMAIN client.streams /\ Linked(client)
  BY InjectFrame DEF NoWriter, Window, Uses, Runs, InjectOK
<1>2. holder' = holder /\ setup' = setup /\ freed' = freed
  BY DEF NoWriter, Window, memory
<1>3. TakesNoMutex(t)
  BY <1>2 DEF TakesNoMutex
<1>4. SameLinks(client, client') /\ SameActive /\ client'.up = client.up
  <2>1. CASE NoWriter(t)
    BY <1>1, <2>1, SameItself DEF NoWriter, SameActive
  <2>2. CASE Window(t)
    BY <1>1, <2>2, WindowClient DEF SameActive
  <2> QED BY <2>1, <2>2
<1>5. PICK g : g = [f EXCEPT !.pc = "feed", !.todo = Tail(@), !.k = 1]
  OBVIOUS
<1>6. frame' = [frame EXCEPT ![t] = g]
  BY <1>1, <1>5 DEF NoWriter, Window, Moves, Reported
<1>7. /\ DOMAIN g = FrameFields /\ g.job = f.job /\ g.todo = Tail(f.todo) /\ g.mp = f.mp
      /\ g.pc = "feed" /\ g.add = f.add
  BY <1>1, <1>5, IdleIs DEF FrameFields
<1>8. InjectOK(g, client) /\ (Adds(g) => Adds(f))
  BY <1>1, <1>7, InjectDone
<1> QED BY <1>2, <1>3, <1>4, <1>6, <1>8, InjectGoesOn

(* The time of the last report on the client changes.                      *)
LEMMA TimeChanges ==
  ASSUME NEW c, Linked(c), NEW d, d = [c EXCEPT !.instr_time = 1]
  PROVE  SameLinks(c, d) /\ d.up = c.up /\ d.mpoints = c.mpoints /\ d.streams = c.streams
<1>1. /\ DOMAIN d = DOMAIN c /\ d.started = c.started /\ d.threads = c.threads
      /\ d.up = c.up /\ d.mpoints = c.mpoints /\ d.streams = c.streams
  BY DEF Linked, ClientFields
<1>2. SamePoints(c, d) /\ SameStreams(c, d)
  BY <1>1 DEF Linked, SamePoints, SameStreams
<1> QED BY <1>1, <1>2 DEF SameLinks

(* What follows an injection.                                              *)
LEMMA AfterInjectIs ==
  ASSUME Running, NEW f, InjectOK(f, client), NEW g \in AfterInject(f)
  PROVE  (InjectOK(g, client) \/ g = Idle) /\ (Adds(g) => Adds(f))
         /\ g.pc \in {"lock", "create", "idle"}
<1> DEFINE r == [At("lock", "inject", ClientInstr) EXCEPT !.v = <<0>>, !.add = f.add]
           q == [f EXCEPT !.pc = "create"]
<1>1. g = r \/ (f.add /\ g = q) \/ g = Idle
  BY DEF AfterInject
<1>2. /\ DOMAIN r = FrameFields /\ r.job = "inject" /\ r.pc = "lock" /\ r.mp = ClientInstr
      /\ r.todo = <<>> /\ r.add = f.add
  BY DEF FrameFields, Idle, At
<1>3. /\ DOMAIN q = FrameFields /\ q.job = "inject" /\ q.pc = "create" /\ q.mp = f.mp
      /\ q.todo = f.todo /\ q.add = f.add
  BY IdleIs DEF FrameFields, InjectOK
<1>4. ClientInstr \in DOMAIN client.mpoints
  <2>1. IsList(client.mpoints) /\ Len(client.mpoints) >= ClientInstr
    BY DEF Running, LinksInv, Linked
  <2> QED BY <2>1, ListIsSeq DEF ClientInstr
<1>5. InjectOK(f, client) => f.job = "inject" /\ f.mp \in DOMAIN client.mpoints /\ TodoOK(f, client)
  BY DEF InjectOK
<1> HIDE DEF r, q
<1>6. TodoOK(r, client) /\ TodoOK(q, client)
  BY <1>2, <1>3, <1>5, ListOne DEF TodoOK
<1>7. InjectOK(r, client) /\ (f.add => InjectOK(q, client))
  BY <1>2, <1>3, <1>4, <1>5, <1>6 DEF InjectOK
<1> QED BY <1>1, <1>2, <1>3, <1>5, <1>7, IdleIs DEF Adds

(* It is done with the point.                                              *)
LEMMA InjectUnlocks ==
  ASSUME Running, NEW t \in Apps, InjectOK(frame[t], client), Unlock(t)
  PROVE  Running'
<1> PICK f : f = frame[t]
  OBVIOUS
<1>1. f.job = "inject" /\ t \in Threads /\ Linked(client) /\ f.mp \in DOMAIN holder
  BY InjectFrame
<1>2. setup' = setup /\ freed' = freed /\ holder' = [holder EXCEPT ![f.mp] = IF @ = t THEN Nobody ELSE @]
  BY DEF Unlock, memory
<1>3. TakesNoMutex(t)
  BY <1>1, <1>2 DEF TakesNoMutex
<1>4. PICK g \in After(f) :
        /\ Moves(t, g)
        /\ client' = IF g.job = "inject" /\ g.mp = ClientInstr THEN [client EXCEPT !.instr_time = 1]
                                                               ELSE client
  BY DEF Unlock
<1>5. SameLinks(client, client') /\ SameActive /\ client'.up = client.up
  <2>1. SameLinks(client, client') /\ client'.mpoints = client.mpoints /\ client'.up = client.up
    BY <1>1, <1>4, SameItself, TimeChanges
  <2> QED BY <2>1 DEF SameActive
<1>6. g \in AfterInject(f)
  BY <1>1 DEF After
<1>7. (InjectOK(g, client) \/ g = Idle) /\ (Adds(g) => Adds(f))
  BY <1>6, AfterInjectIs
<1>8. frame' = [frame EXCEPT ![t] = g]
  BY <1>4 DEF Moves
<1> QED BY <1>2, <1>3, <1>5, <1>7, <1>8, InjectGoesOn

(* A thread at rest.                                                       *)
LEMMA AtRest ==
  ASSUME Running, NEW t \in Apps, frame[t].pc = "idle"
  PROVE  frame[t] = Idle /\ t \in Threads /\ t # Nobody /\ DOMAIN frame = Threads /\ Linked(client)
<1>1. AppOK(frame[t], client) /\ t \in Threads /\ t # Nobody /\ DOMAIN frame = Threads /\ Linked(client)
  BY ThreadsDiffer DEF Running, ThreadsOK, LinksInv
<1> QED BY <1>1, AnnouncingIs DEF AppOK, InjectOK, CloseOK

(* It may only inject while nobody closes.                                 *)
LEMMA CallsAlone ==
  ASSUME Running, NobodyInjectsWhileClosing, NEW t \in Apps, Call(t), NEW u \in Apps
  PROVE  frame[u].job # "close"
<1>1. frame[t] = Idle /\ t \in Threads
  BY AtRest DEF Call, Runs
<1>2. SUFFICES ASSUME frame[u].job = "close" PROVE FALSE
  OBVIOUS
<1>3. frame[u].add
  BY <1>2 DEF Call, Closing, NobodyInjectsWhileClosing
<1>4. CloseOK(frame[u], client)
  <2>1. AppOK(frame[u], client)
    BY DEF Running, ThreadsOK
  <2> QED BY <1>2, <2>1, IdleIs, AnnouncingIs DEF AppOK, InjectOK
<1>5. u = t
  <2>1. SignalAt # {}
    BY <1>3, <1>4 DEF CloseOK
  <2>2. PICK x : Apps = {x}
    BY <2>1 DEF NobodyInjectsWhileClosing
  <2> QED BY <2>2
<1> QED BY <1>1, <1>2, <1>5, IdleIs

(* It begins to inject.                                                    *)
LEMMA InjectBegins ==
  ASSUME Running, NobodyInjectsWhileClosing, NEW t \in Apps, Call(t)
  PROVE  Running'
<1>1. frame[t] = Idle /\ t \in Threads /\ Linked(client) /\ client.up
  BY AtRest DEF Call, Runs, Accepts
<1>2. client' = client /\ setup' = setup /\ freed' = freed /\ holder' = holder
  BY DEF Call, memory
<1>3. TakesNoMutex(t) /\ SameLinks(client, client') /\ SameActive
  BY <1>1, <1>2, SameItself DEF TakesNoMutex, SameActive
<1>4. IsList(client.mpoints) /\ Len(client.mpoints) >= ClientInstr
  BY <1>1 DEF Linked
<1>5. DOMAIN client.mpoints = 1..Len(client.mpoints) /\ Len(client.mpoints) \in Nat
  BY <1>4, ListIsSeq
<1>6. PICK g : /\ frame' = [frame EXCEPT ![t] = g]
               /\ DOMAIN g = FrameFields /\ g.job = "inject" /\ g.pc = "lock"
               /\ g.mp \in DOMAIN client.mpoints /\ g.todo = <<>>
               /\ g.add => Unmade(client) /\ \A u \in Apps : ~Adds(frame[u])
  <2>1. ASSUME NEW m \in DOMAIN client.mpoints, NEW v, NEW g, Moves(t, g),
               g = [At("lock", "inject", m) EXCEPT !.v = v]
               \/ (/\ g = [At("lock", "inject", m) EXCEPT !.v = v, !.add = TRUE]
                   /\ Unmade(client) /\ \A u \in Apps : ~Adds(frame[u]))
        PROVE  /\ frame' = [frame EXCEPT ![t] = g]
               /\ DOMAIN g = FrameFields /\ g.job = "inject" /\ g.pc = "lock"
               /\ g.mp \in DOMAIN client.mpoints /\ g.todo = <<>>
               /\ g.add => Unmade(client) /\ \A u \in Apps : ~Adds(frame[u])
    <3>1. /\ DOMAIN g = FrameFields /\ g.job = "inject" /\ g.pc = "lock" /\ g.mp = m /\ g.todo = <<>>
          /\ g.add => Unmade(client) /\ \A u \in Apps : ~Adds(frame[u])
      BY <2>1 DEF FrameFields, Idle, At
    <3> QED BY <2>1, <3>1 DEF Moves
  <2>2. Schema0 \in DOMAIN client.mpoints
    BY <1>4, <1>5 DEF Schema0, ClientInstr
  <2>3. CASE Inject(t)
    <3>1. PICK m, g : m \in 3..Len(client.mpoints) /\ Moves(t, g) /\ g = [At("lock", "inject", m) EXCEPT !.v = SampleOf(m, samples + 1)]
      BY <2>3 DEF Inject
    <3>2. m \in DOMAIN client.mpoints
      BY <1>5, <3>1
    <3> QED BY <2>1, <3>1, <3>2
  <2>4. CASE InjectMetadata(t)
    <3>1. PICK g : Moves(t, g) /\ g = [At("lock", "inject", Schema0) EXCEPT !.v = Note("note", samples, <<>>)]
      BY <2>4 DEF InjectMetadata
    <3> QED BY <2>1, <2>2, <3>1
  <2>5. CASE AddLate(t)
    <3>1. Unmade(client) /\ \A u \in Apps : ~Adds(frame[u])
      BY <2>5 DEF AddLate, Unmade, Adds
    <3>2. PICK v, g : Moves(t, g) /\ g = [At("lock", "inject", Schema0) EXCEPT !.v = v, !.add = TRUE]
      BY <2>5 DEF AddLate
    <3> QED BY <2>1, <2>2, <3>1, <3>2
  <2> QED BY <2>3, <2>4, <2>5 DEF Call
<1>7. InjectOK(g, client)
  BY <1>6, ListOne DEF InjectOK, TodoOK
<1>8. InjectOK(g, client')
  BY <1>2, <1>7
<1>9. Adds(g) => Unmade(client) /\ \A u \in Apps : ~Adds(frame[u])
  BY <1>6 DEF Adds
<1>10. \A u \in Apps : frame[u].job # "close"
  BY CallsAlone
<1> QED BY <1>1, <1>2, <1>3, <1>6, <1>8, <1>9, <1>10, InjectSteps

----------------------------------------------------------------------------
(* A measurement point that is added once the client was started.          *)

(* find_mstream finds nothing where no stream has the name.                *)
LEMMA FindMStreamIs ==
  ASSUME NEW c, NEW name, IsList(c.streams), \A i \in DOMAIN c.streams : c.streams[i].table # name
  PROVE  FindMStream(c, name) = 0
<1>1. DOMAIN c.streams = 1..Len(c.streams)
  BY ListIsSeq
<1>2. {i \in 1..Len(c.streams) : c.streams[i].table = name} = {}
  BY <1>1
<1> QED BY <1>2 DEF FindMStream, IndexWhere, SelectInSeq

(* What create_mstream then makes.                                         *)
NewMStream(c, m, interval, count) ==
  [c EXCEPT !.streams = Append(@, NewStream(c.mpoints[m].name, m, interval, count)),
            !.mpoints[m].guarded = @ \/ interval > 0,
            !.mpoints[m].streams = <<Len(c.streams) + 1>> \o @]

(* create_mstream, for a name that no stream has.                          *)
LEMMA CreateMStreamIs ==
  ASSUME NEW c, NEW m, NEW w, NEW interval, NEW count, IsList(c.streams),
         \A i \in DOMAIN c.streams : c.streams[i].table # c.mpoints[m].name
  PROVE  LET id == Len(c.streams) + 1
             new == NewMStream(c, m, interval, count)
         IN  CreateMStream(c, <<>>, m, w, interval, count) =
               [c |-> IF w = 0 THEN new ELSE AddWriter(new, id, w), id |-> id]
<1> DEFINE id == Len(c.streams) + 1
           new == NewMStream(c, m, interval, count)
           made == [c |-> new, id |-> id]
<1>1. FindMStream(c, c.mpoints[m].name) = 0
  BY FindMStreamIs
<1>2. CreateMStream(c, <<>>, m, w, interval, count) =
        IF w = 0 THEN made ELSE [made EXCEPT !.c = AddWriter(@, made.id, w)]
  <2> DEFINE Made(found) == IF found = 0 THEN made ELSE [c |-> c, id |-> found]
             Given(r) == IF w = 0 THEN r ELSE [r EXCEPT !.c = AddWriter(@, r.id, w)]
             Taken == CHOOSE r \in {Made(v) : v \in {0}} : TRUE
  <2>1. OrElse(<<>>, <<c.mpoints[m].name>>)[1] = c.mpoints[m].name
    BY DEF OrElse
  <2>2. CreateMStream(c, <<>>, m, w, interval, count) =
          CHOOSE r \in {Given(v) : v \in {Taken}} : TRUE
    BY <1>1, <2>1, ZenonT(60) DEF CreateMStream, Once, NewMStream
  <2>3. Taken = made
    OBVIOUS
  <2>4. CreateMStream(c, <<>>, m, w, interval, count) = Given(made)
    <3> HIDE DEF made, Made
    <3> QED BY <2>2, <2>3
  <2> QED BY <2>4
<1>3. [made EXCEPT !.c = AddWriter(@, made.id, w)] = [c |-> AddWriter(new, id, w), id |-> id]
  OBVIOUS
<1> QED BY <1>2, <1>3

(* Its default stream gets filters, and a thread if it reports by time.    *)
Defaulted(d, m) == [d EXCEPT !.mpoints[m].default = d.mpoints[m].streams[1]]

(* A point's default stream is the first it was given.                     *)
LEMMA DefaultMsIs ==
  ASSUME NEW c, NEW m, c.mpoints[m].default = 0, c.mpoints[m].streams = <<>>,
         NEW r, r = CreateMStream(c, <<>>, m, c.default_writer, c.sample_interval, c.sample_count),
         NEW first, first = r.c.mpoints[m].streams[1],
         NEW filled, filled = CreateDefaultFilters(r.c, m, first),
         NEW d, d = IF c.sample_interval > 0 THEN StartThread(filled, first) ELSE filled
  PROVE  DefaultMs(c, m) = Defaulted(d, m)
<1>1. DefaultMs(c, m) = [d EXCEPT !.mpoints[m].default = d.mpoints[m].streams[1]]
  BY ZenonT(60) DEF DefaultMs, Once
<1> QED BY <1>1 DEF Defaulted

(* d is c with one more point, m, that has one stream, id.                 *)
GrownPoints(c, d, m, id) ==
  /\ IsList(d.mpoints) /\ m = Len(c.mpoints) + 1 /\ Len(d.mpoints) = m
  /\ \A i \in DOMAIN c.mpoints : d.mpoints[i] = c.mpoints[i]
  /\ DOMAIN d.mpoints[m] = DOMAIN NewMP("", <<>>)
  /\ d.mpoints[m].streams = <<id>> /\ d.mpoints[m].active = TRUE

(* And with one more stream, which is that point's.                        *)
GrownStreams(c, d, m, id) ==
  /\ IsList(d.streams) /\ id = Len(c.streams) + 1 /\ Len(d.streams) = id
  /\ \A i \in DOMAIN c.streams : d.streams[i] = c.streams[i]
  /\ DOMAIN d.streams[id] = DOMAIN NewStream("", 1, 0, 0)
  /\ d.streams[id].mp = m /\ d.streams[id].size = 0

(* A client with both.                                                     *)
Grown(c, d, m, id) ==
  /\ DOMAIN d = ClientFields /\ d.up = c.up /\ d.started = c.started
  /\ GrownPoints(c, d, m, id) /\ GrownStreams(c, d, m, id)

(* What is there already is not touched.                                   *)
LEMMA GrownIs ==
  ASSUME NEW c, Linked(c), NEW d, NEW m, NEW id, Grown(c, d, m, id)
  PROVE  /\ DOMAIN d.mpoints = DOMAIN c.mpoints \cup {m} /\ m \notin DOMAIN c.mpoints
         /\ DOMAIN d.streams = DOMAIN c.streams \cup {id} /\ id \notin DOMAIN c.streams
         /\ Len(c.mpoints) \in Nat /\ Len(d.mpoints) = Len(c.mpoints) + 1
         /\ m \in Nat /\ DOMAIN d.mpoints = 1..m /\ id \in Nat /\ DOMAIN d.streams = 1..id
<1>1. IsList(c.mpoints) /\ IsList(c.streams)
  BY DEF Linked
<1>2. PICK l, q, k, r : l = c.mpoints /\ q = d.mpoints /\ k = c.streams /\ r = d.streams
  OBVIOUS
<1>3. IsList(l) /\ IsList(q) /\ m = Len(l) + 1 /\ Len(q) = m
  BY <1>1, <1>2 DEF Grown, GrownPoints
<1>4. IsList(k) /\ IsList(r) /\ id = Len(k) + 1 /\ Len(r) = id
  BY <1>1, <1>2 DEF Grown, GrownStreams
<1>5. DOMAIN q = DOMAIN l \cup {m} /\ m \notin DOMAIN l /\ m \in Nat /\ DOMAIN q = 1..m
  BY <1>3, LongerList
<1>6. DOMAIN r = DOMAIN k \cup {id} /\ id \notin DOMAIN k /\ id \in Nat /\ DOMAIN r = 1..id
  BY <1>4, LongerList
<1>7. Len(l) \in Nat
  BY <1>3, ListIsSeq
<1> QED BY <1>2, <1>3, <1>5, <1>6, <1>7

(* Its stream may change, but for its point and what it has counted.       *)
LEMMA GrownStreamChanges ==
  ASSUME NEW c, Linked(c), NEW d, NEW m, NEW id, Grown(c, d, m, id),
         NEW ms, DOMAIN ms = DOMAIN d.streams[id], ms.mp = m, ms.size = 0,
         NEW e, e = [d EXCEPT !.streams[id] = ms]
  PROVE  Grown(c, e, m, id) /\ e.threads = d.threads /\ e.mpoints = d.mpoints
<1>1. PICK s : s = [d.streams EXCEPT ![id] = ms]
  OBVIOUS
<1>2. e = [d EXCEPT !.streams = s]
  BY <1>1
<1>3. /\ DOMAIN e = ClientFields /\ e.up = c.up /\ e.started = c.started
      /\ e.mpoints = d.mpoints /\ e.threads = d.threads /\ e.streams = s
  BY <1>2 DEF Grown, ClientFields
<1>4. /\ IsList(d.streams) /\ id = Len(c.streams) + 1 /\ Len(d.streams) = id
      /\ \A i \in DOMAIN c.streams : d.streams[i] = c.streams[i]
      /\ DOMAIN d.streams[id] = DOMAIN NewStream("", 1, 0, 0)
  BY DEF Grown, GrownStreams
<1>5. /\ id \in Nat /\ DOMAIN d.streams = 1..id /\ id \in DOMAIN d.streams
      /\ \A i \in DOMAIN c.streams : i \in DOMAIN d.streams /\ i # id
  BY GrownIs
<1>6. s = [i \in 1..id |-> s[i]]
  BY <1>1, <1>5
<1>7. IsList(s) /\ Len(s) = id
  BY <1>5, <1>6, ListIntro
<1>8. s[id] = ms /\ \A i \in DOMAIN c.streams : s[i] = c.streams[i]
  <2>1. s[id] = ms /\ \A i \in DOMAIN c.streams : s[i] = d.streams[i]
    BY <1>1, <1>5
  <2> QED BY <1>4, <2>1
<1>9. GrownStreams(c, e, m, id)
  BY <1>3, <1>4, <1>7, <1>8 DEF GrownStreams
<1>10. GrownPoints(c, e, m, id)
  BY <1>3 DEF Grown, GrownPoints
<1> QED BY <1>3, <1>9, <1>10 DEF Grown

(* Its default stream is set.                                              *)
WithDefault(d, m, x) == [d EXCEPT !.mpoints[m].default = x]

(* That leaves the rest of it as it was.                                   *)
LEMMA GrownDefault ==
  ASSUME NEW c, Linked(c), NEW d, NEW m, NEW id, Grown(c, d, m, id),
         NEW x, NEW e, e = WithDefault(d, m, x)
  PROVE  /\ Grown(c, e, m, id) /\ e.threads = d.threads /\ e.streams = d.streams
         /\ e.mpoints[m].name = d.mpoints[m].name /\ e.mpoints[m].guarded = d.mpoints[m].guarded
<1>1. PICK mp : mp = [d.mpoints[m] EXCEPT !.default = x]
  OBVIOUS
<1>2. PICK s : s = [d.mpoints EXCEPT ![m] = mp]
  OBVIOUS
<1>3. e = [d EXCEPT !.mpoints = s]
  BY <1>1, <1>2 DEF WithDefault
<1>4. /\ DOMAIN e = ClientFields /\ e.up = c.up /\ e.started = c.started
      /\ e.streams = d.streams /\ e.threads = d.threads /\ e.mpoints = s
  BY <1>3 DEF Grown, ClientFields
<1>5. /\ IsList(d.mpoints) /\ m = Len(c.mpoints) + 1 /\ Len(d.mpoints) = m
      /\ \A i \in DOMAIN c.mpoints : d.mpoints[i] = c.mpoints[i]
      /\ DOMAIN d.mpoints[m] = DOMAIN NewMP("", <<>>)
      /\ d.mpoints[m].streams = <<id>> /\ d.mpoints[m].active = TRUE
  BY DEF Grown, GrownPoints
<1>6. /\ m \in Nat /\ DOMAIN d.mpoints = 1..m /\ m \in DOMAIN d.mpoints
      /\ \A i \in DOMAIN c.mpoints : i \in DOMAIN d.mpoints /\ i # m
  BY GrownIs
<1>7. s = [i \in 1..m |-> s[i]]
  BY <1>2, <1>6
<1>8. IsList(s) /\ Len(s) = m
  BY <1>6, <1>7, ListIntro
<1>9. s[m] = mp /\ \A i \in DOMAIN c.mpoints : s[i] = c.mpoints[i]
  <2>1. s[m] = mp /\ \A i \in DOMAIN c.mpoints : s[i] = d.mpoints[i]
    BY <1>2, <1>6
  <2> QED BY <1>5, <2>1
<1>10. /\ DOMAIN mp = DOMAIN NewMP("", <<>>) /\ mp.streams = <<id>> /\ mp.guarded = d.mpoints[m].guarded
       /\ mp.active = TRUE /\ mp.name = d.mpoints[m].name
  BY <1>1, <1>5 DEF NewMP
<1>11. GrownPoints(c, e, m, id)
  BY <1>4, <1>5, <1>8, <1>9, <1>10 DEF GrownPoints
<1>12. GrownStreams(c, e, m, id)
  BY <1>4 DEF Grown, GrownStreams
<1> QED BY <1>4, <1>9, <1>10, <1>11, <1>12 DEF Grown

(* A thread is started for it.                                             *)
LEMMA GrownThread ==
  ASSUME NEW c, NEW d, NEW m, NEW id, Grown(c, d, m, id),
         NEW x, NEW e, e = [d EXCEPT !.threads = x]
  PROVE  Grown(c, e, m, id) /\ e.threads = x /\ e.mpoints = d.mpoints
<1>1. /\ DOMAIN e = ClientFields /\ e.up = c.up /\ e.started = c.started
      /\ e.streams = d.streams /\ e.mpoints = d.mpoints /\ e.threads = x
  BY DEF Grown, ClientFields
<1>2. GrownPoints(c, e, m, id) /\ GrownStreams(c, e, m, id)
  BY <1>1 DEF Grown, GrownPoints, GrownStreams
<1> QED BY <1>1, <1>2 DEF Grown

(* The number of streams that were made is kept.                           *)
LEMMA GrownIndex ==
  ASSUME NEW c, NEW d, NEW m, NEW id, Grown(c, d, m, id),
         NEW x, NEW e, e = [d EXCEPT !.next_ms_idx = x]
  PROVE  Grown(c, e, m, id) /\ e.threads = d.threads /\ e.mpoints = d.mpoints
<1>1. /\ DOMAIN e = ClientFields /\ e.up = c.up /\ e.started = c.started
      /\ e.streams = d.streams /\ e.mpoints = d.mpoints /\ e.threads = d.threads
  BY DEF Grown, ClientFields
<1>2. GrownPoints(c, e, m, id) /\ GrownStreams(c, e, m, id)
  BY <1>1 DEF Grown, GrownPoints, GrownStreams
<1> QED BY <1>1, <1>2 DEF Grown

(* A field of its stream is set.                                           *)
LEMMA GrownStreamField ==
  ASSUME NEW c, Linked(c), NEW d, NEW m, NEW id, Grown(c, d, m, id),
         NEW x, NEW e,
         \/ e = [d EXCEPT !.streams[id].writers = x]
         \/ e = [d EXCEPT !.streams[id].filters = x]
         \/ e = [d EXCEPT !.streams[id].index = x]
  PROVE  Grown(c, e, m, id) /\ e.threads = d.threads /\ e.mpoints = d.mpoints
<1>1. PICK ms : /\ e = [d EXCEPT !.streams[id] = ms]
                /\ \/ ms = [d.streams[id] EXCEPT !.writers = x]
                   \/ ms = [d.streams[id] EXCEPT !.filters = x]
                   \/ ms = [d.streams[id] EXCEPT !.index = x]
  OBVIOUS
<1>2. /\ DOMAIN d.streams[id] = DOMAIN NewStream("", 1, 0, 0)
      /\ d.streams[id].mp = m /\ d.streams[id].size = 0
  BY DEF Grown, GrownStreams
<1>3. PICK r : r = d.streams[id]
  OBVIOUS
<1>4. DOMAIN r = DOMAIN NewStream("", 1, 0, 0) /\ r.mp = m /\ r.size = 0
  BY <1>2, <1>3
<1>5. \A q : q = [r EXCEPT !.writers = x] \/ q = [r EXCEPT !.filters = x] \/ q = [r EXCEPT !.index = x]
        => DOMAIN q = DOMAIN r /\ q.mp = m /\ q.size = 0
  BY <1>4 DEF NewStream
<1>6. DOMAIN ms = DOMAIN d.streams[id] /\ ms.mp = m /\ ms.size = 0
  BY <1>1, <1>3, <1>5
<1>7. e = [d EXCEPT !.streams[id] = ms]
  BY <1>1
<1> QED BY <1>6, <1>7, GrownStreamChanges

(* The point, and the stream, are made.                                    *)
LEMMA AddMPIs ==
  ASSUME NEW c, Linked(c), NEW name, NEW fields, NEW a, a = AddMP(c, name, fields),
         NEW m, m = Len(c.mpoints) + 1
  PROVE  /\ DOMAIN a = ClientFields /\ a.streams = c.streams /\ a.threads = c.threads
         /\ a.up = c.up /\ a.started = c.started
         /\ IsList(a.mpoints) /\ Len(a.mpoints) = m /\ a.mpoints[m] = NewMP(name, fields)
         /\ \A i \in DOMAIN c.mpoints : a.mpoints[i] = c.mpoints[i]
<1>1. PICK l : l = Append(c.mpoints, NewMP(name, fields))
  OBVIOUS
<1>2. a = [c EXCEPT !.mpoints = l]
  BY <1>1 DEF AddMP
<1>3. /\ DOMAIN a = ClientFields /\ a.streams = c.streams /\ a.threads = c.threads
      /\ a.up = c.up /\ a.started = c.started /\ a.mpoints = l
  BY <1>2 DEF Linked, ClientFields
<1>4. IsList(c.mpoints)
  BY DEF Linked
<1>5. PICK k : k = c.mpoints
  OBVIOUS
<1>6. /\ IsList(l) /\ Len(l) = Len(k) + 1 /\ l[Len(k) + 1] = NewMP(name, fields)
      /\ DOMAIN k = 1..Len(k) /\ \A i \in DOMAIN k : l[i] = k[i]
  BY <1>1, <1>4, <1>5, ListAppend, ListIsSeq
<1> QED BY <1>3, <1>5, <1>6

(* A stream that reports by time.                                          *)
ByTime(interval) == interval > 0

(* What create_mstream makes of a and the new stream.                      *)
MadeMStream(a, new, m, interval, count) ==
  /\ DOMAIN new = ClientFields /\ new.up = a.up /\ new.started = a.started
  /\ new.threads = a.threads
  /\ new.streams = Append(a.streams, NewStream(a.mpoints[m].name, m, interval, count))
  /\ \E mp : /\ new.mpoints = [a.mpoints EXCEPT ![m] = mp]
             /\ DOMAIN mp = DOMAIN NewMP("", <<>>)
             /\ mp.guarded = (a.mpoints[m].guarded \/ interval > 0)
             /\ mp.streams = <<Len(a.streams) + 1>> \o a.mpoints[m].streams
             /\ mp.active = a.mpoints[m].active /\ mp.name = a.mpoints[m].name

(* create_mstream makes one record, and appends it.                        *)
LEMMA NewMStreamIs ==
  ASSUME NEW a, DOMAIN a = ClientFields, NEW m \in DOMAIN a.mpoints,
         DOMAIN a.mpoints[m] = DOMAIN NewMP("", <<>>), NEW interval, NEW count
  PROVE  MadeMStream(a, NewMStream(a, m, interval, count), m, interval, count)
<1> PICK new : new = NewMStream(a, m, interval, count)
  OBVIOUS
<1> DEFINE l == Append(a.streams, NewStream(a.mpoints[m].name, m, interval, count))
           g == a.mpoints[m].guarded \/ interval > 0
           y == <<Len(a.streams) + 1>> \o a.mpoints[m].streams
           b == [a EXCEPT !.streams = l]
           d == [b EXCEPT !.mpoints[m].guarded = g]
           e == [d EXCEPT !.mpoints[m].streams = y]
<1>1. new = e
  BY DEF NewMStream
<1> HIDE DEF l, g, y, d, e
<1>2. /\ DOMAIN b = ClientFields /\ b.streams = l /\ b.mpoints = a.mpoints
      /\ b.up = a.up /\ b.started = a.started /\ b.threads = a.threads
  BY DEF ClientFields
<1> HIDE DEF b
<1>3. PICK p : p = [a.mpoints[m] EXCEPT !.guarded = g]
  OBVIOUS
<1>4. PICK q : q = [a.mpoints EXCEPT ![m] = p]
  OBVIOUS
<1>5. d = [b EXCEPT !.mpoints = q]
  BY <1>2, <1>3, <1>4 DEF d
<1>6. /\ DOMAIN d = ClientFields /\ d.streams = l /\ d.mpoints = q
      /\ d.up = a.up /\ d.started = a.started /\ d.threads = a.threads
  BY <1>2, <1>5 DEF ClientFields
<1>7. q[m] = p /\ DOMAIN q = DOMAIN a.mpoints
  BY <1>4
<1>8. PICK mp : mp = [p EXCEPT !.streams = y]
  OBVIOUS
<1>9. PICK s : s = [q EXCEPT ![m] = mp]
  OBVIOUS
<1>10. e = [d EXCEPT !.mpoints = s]
  BY <1>6, <1>7, <1>8, <1>9 DEF e
<1>11. /\ DOMAIN e = ClientFields /\ e.streams = l /\ e.mpoints = s
       /\ e.up = a.up /\ e.started = a.started /\ e.threads = a.threads
  BY <1>6, <1>10 DEF ClientFields
<1>12. s = [a.mpoints EXCEPT ![m] = mp]
  BY <1>4, <1>9
<1>13. /\ DOMAIN mp = DOMAIN NewMP("", <<>>) /\ mp.guarded = g /\ mp.streams = y
       /\ mp.active = a.mpoints[m].active /\ mp.name = a.mpoints[m].name
  BY <1>3, <1>8 DEF NewMP
<1>14. MadeMStream(a, e, m, interval, count)
  BY <1>11, <1>12, <1>13 DEF MadeMStream, l, g, y
<1> QED BY <1>1, <1>14

(* A point with its first stream is one more point and one more stream.    *)
LEMMA GrownFirst ==
  ASSUME NEW c, Linked(c), NEW name, NEW fields, NEW a, a = AddMP(c, name, fields),
         NEW m, m = Len(c.mpoints) + 1, NEW id, id = Len(c.streams) + 1,
         NEW interval, NEW count, NEW new, new = NewMStream(a, m, interval, count)
  PROVE  /\ Grown(c, new, m, id) /\ (ByTime(interval) => new.mpoints[m].guarded)
         /\ new.threads = c.threads /\ new.mpoints[m].name = name
<1>1. /\ DOMAIN a = ClientFields /\ a.streams = c.streams /\ a.threads = c.threads
      /\ a.up = c.up /\ a.started = c.started
      /\ IsList(a.mpoints) /\ Len(a.mpoints) = m /\ a.mpoints[m] = NewMP(name, fields)
      /\ \A i \in DOMAIN c.mpoints : a.mpoints[i] = c.mpoints[i]
  BY AddMPIs
<1>2. m \in DOMAIN a.mpoints
  <2>1. IsList(c.mpoints)
    BY DEF Linked
  <2>2. PICK l, q : l = c.mpoints /\ q = a.mpoints
    OBVIOUS
  <2>3. IsList(l) /\ IsList(q) /\ m = Len(l) + 1 /\ Len(q) = m
    BY <1>1, <2>1, <2>2
  <2>4. m \in DOMAIN q
    BY <2>3, LongerList
  <2> QED BY <2>2, <2>4
<1>3. PICK ms : ms = NewStream(a.mpoints[m].name, m, interval, count)
  OBVIOUS
<1>4. PICK l, g, y : /\ l = Append(a.streams, ms) /\ g = (a.mpoints[m].guarded \/ interval > 0)
                     /\ y = <<Len(a.streams) + 1>> \o a.mpoints[m].streams
  OBVIOUS
<1>5. DOMAIN a = ClientFields /\ DOMAIN a.mpoints[m] = DOMAIN NewMP("", <<>>)
  BY <1>1 DEF NewMP
<1>6. MadeMStream(a, new, m, interval, count)
  BY <1>2, <1>5, NewMStreamIs
<1>7. PICK mp, s : s = [a.mpoints EXCEPT ![m] = mp] /\ new.mpoints = s
                   /\ DOMAIN mp = DOMAIN NewMP("", <<>>) /\ mp.guarded = g
                   /\ mp.streams = y /\ mp.active = a.mpoints[m].active /\ mp.name = a.mpoints[m].name
  BY <1>4, <1>6 DEF MadeMStream
<1>8. /\ DOMAIN new = ClientFields /\ new.up = c.up /\ new.started = c.started
      /\ new.streams = l /\ new.threads = c.threads
  BY <1>1, <1>3, <1>4, <1>6 DEF MadeMStream
<1>9. (ByTime(interval) => g) /\ y = <<id>>
  <2>1. a.mpoints[m].streams = <<>> /\ Len(a.streams) + 1 = id
    BY <1>1 DEF NewMP
  <2> QED BY <1>4, <2>1, ListOne DEF ByTime
<1>10. mp.active = TRUE /\ mp.name = name
  BY <1>1, <1>7 DEF NewMP
<1>11. GrownStreams(c, new, m, id)
  <2>1. IsList(c.streams)
    BY DEF Linked
  <2>2. PICK k : k = c.streams
    OBVIOUS
  <2>3. /\ IsList(l) /\ Len(l) = id /\ l[id] = ms /\ \A i \in DOMAIN k : l[i] = k[i]
    BY <1>1, <1>4, <2>1, <2>2, ListAppend, ListIsSeq
  <2>4. DOMAIN ms = DOMAIN NewStream("", 1, 0, 0) /\ ms.mp = m /\ ms.size = 0
    BY <1>3 DEF NewStream
  <2> QED BY <1>8, <2>2, <2>3, <2>4 DEF GrownStreams
<1>12. GrownPoints(c, new, m, id)
  <2>1. PICK k, q : k = c.mpoints /\ q = a.mpoints
    OBVIOUS
  <2>2. IsList(k)
    BY <2>1 DEF Linked
  <2>3. IsList(q) /\ m = Len(k) + 1 /\ Len(q) = m /\ \A i \in DOMAIN k : q[i] = k[i]
    BY <1>1, <2>1
  <2>4. /\ m \in Nat /\ DOMAIN q = 1..m /\ m \in DOMAIN q
        /\ \A i \in DOMAIN k : i \in DOMAIN q /\ i # m
    BY <2>2, <2>3, LongerList
  <2>5. s = [q EXCEPT ![m] = mp]
    BY <1>7, <2>1
  <2>6. s = [i \in 1..m |-> s[i]] /\ s[m] = mp /\ \A i \in DOMAIN k : s[i] = k[i]
    BY <2>3, <2>4, <2>5
  <2>7. IsList(s) /\ Len(s) = m
    BY <2>4, <2>6, ListIntro
  <2>8. /\ IsList(new.mpoints) /\ Len(new.mpoints) = m /\ new.mpoints[m] = mp
        /\ m = Len(c.mpoints) + 1 /\ \A i \in DOMAIN c.mpoints : new.mpoints[i] = c.mpoints[i]
    BY <1>7, <2>1, <2>3, <2>6, <2>7
  <2>9. /\ DOMAIN new.mpoints[m] = DOMAIN NewMP("", <<>>) /\ new.mpoints[m].streams = <<id>>
        /\ new.mpoints[m].active = TRUE
    BY <1>7, <1>9, <1>10, <2>8
  <2> QED BY <2>8, <2>9 DEF GrownPoints
<1>13. new.mpoints[m].name = name /\ (ByTime(interval) => new.mpoints[m].guarded)
  <2>1. s[m] = mp
    BY <1>2, <1>7
  <2> QED BY <1>7, <1>9, <1>10, <2>1
<1> QED BY <1>8, <1>11, <1>12, <1>13 DEF Grown

(* It is given a writer, filters, a thread, and a number.                  *)
LEMMA GrownWriter ==
  ASSUME NEW c, Linked(c), NEW d, NEW m, NEW id, Grown(c, d, m, id), NEW w
  PROVE  LET e == AddWriter(d, id, w)
         IN  Grown(c, e, m, id) /\ e.threads = d.threads /\ e.mpoints = d.mpoints
<1>1. PICK x : x = Append(d.streams[id].writers, w)
  OBVIOUS
<1>2. AddWriter(d, id, w) = [d EXCEPT !.streams[id].writers = x]
  BY <1>1 DEF AddWriter
<1> QED BY <1>2, GrownStreamField

(* So do the filters of the new stream;                                    *)
LEMMA GrownFilters ==
  ASSUME NEW c, Linked(c), NEW d, NEW m, NEW id, Grown(c, d, m, id)
  PROVE  LET e == CreateDefaultFilters(d, m, id)
         IN  Grown(c, e, m, id) /\ e.threads = d.threads /\ e.mpoints = d.mpoints
<1> PICK x : x = [k \in DOMAIN d.mpoints[m].fields |->
                    CreateDefaultFilter(d.streams[id], d.mpoints[m].fields[k], k)]
  OBVIOUS
<1>1. CreateDefaultFilters(d, m, id) = [d EXCEPT !.streams[id].filters = x]
  BY DEF CreateDefaultFilters
<1> QED BY <1>1, GrownStreamField

(* A list with an element more.                                            *)
Longer(l, e) == Append(l, e)

(* its thread;                                                             *)
LEMMA GrownStart ==
  ASSUME NEW c, NEW d, NEW m, NEW id, Grown(c, d, m, id)
  PROVE  LET e == StartThread(d, id)
         IN  /\ Grown(c, e, m, id) /\ e.threads = Longer(d.threads, id)
             /\ e.mpoints = d.mpoints
<1>1. PICK x : x = Longer(d.threads, id)
  OBVIOUS
<1>2. StartThread(d, id) = [d EXCEPT !.threads = x]
  BY <1>1 DEF StartThread, Longer
<1>3. PICK e : e = StartThread(d, id)
  OBVIOUS
<1>4. Grown(c, e, m, id) /\ e.threads = x /\ e.mpoints = d.mpoints
  BY <1>2, <1>3, GrownThread
<1> QED BY <1>1, <1>3, <1>4

(* There may be one more thread.                                           *)
ThreadsGrown(c, d, m, id) ==
  d.threads = c.threads \/ (d.threads = Longer(c.threads, id) /\ d.mpoints[m].guarded)

(* which starts only if the stream reports by time;                        *)
LEMMA GrownStarts ==
  ASSUME NEW c, NEW d, NEW m, NEW id, NEW interval, ByTime(interval) => d.mpoints[m].guarded,
         Grown(c, d, m, id), d.threads = c.threads,
         NEW e, e = IF ByTime(interval) THEN StartThread(d, id) ELSE d
  PROVE  Grown(c, e, m, id) /\ e.mpoints = d.mpoints /\ ThreadsGrown(c, e, m, id)
<1>1. CASE ByTime(interval)
  <2>1. e = StartThread(d, id)
    BY <1>1
  <2>2. Grown(c, e, m, id) /\ e.threads = Longer(d.threads, id) /\ e.mpoints = d.mpoints
    BY <2>1, GrownStart
  <2> QED BY <1>1, <2>2 DEF ThreadsGrown
<1>2. CASE ~ByTime(interval)
  BY <1>2 DEF ThreadsGrown
<1> QED BY <1>1, <1>2

(* The stream's index, and the next one.                                   *)
Numbered(d, id, index, next) == [d EXCEPT !.streams[id].index = index, !.next_ms_idx = next]

(* and its index.                                                          *)
LEMMA GrownNumbered ==
  ASSUME NEW c, Linked(c), NEW d, NEW m, NEW id, Grown(c, d, m, id),
         NEW index, NEW next
  PROVE  LET e == Numbered(d, id, index, next)
         IN  Grown(c, e, m, id) /\ e.threads = d.threads /\ e.mpoints = d.mpoints
<1>1. PICK f : f = [d EXCEPT !.streams[id].index = index]
  OBVIOUS
<1>2. Grown(c, f, m, id) /\ f.threads = d.threads /\ f.mpoints = d.mpoints
  BY <1>1, GrownStreamField
<1>3. Numbered(d, id, index, next) = [f EXCEPT !.next_ms_idx = next]
  BY <1>1 DEF Numbered
<1> QED BY <1>2, <1>3, GrownIndex

(* The stream of the new point.                                            *)
LEMMA GrownStream ==
  ASSUME NEW c, NEW d, NEW m, NEW id, Grown(c, d, m, id)
  PROVE  d.mpoints[m].streams[1] = id
<1>1. d.mpoints[m].streams = <<id>>
  BY DEF Grown, GrownPoints
<1>2. <<id>>[1] = id
  BY ListOne
<1> QED BY <1>1, <1>2

(* What it starts from: the stream, and its writer.                        *)
FirstMade(a, m, new, id) ==
  CreateMStream(a, <<>>, m, a.default_writer, a.sample_interval, a.sample_count) =
    [c |-> IF a.default_writer = 0 THEN new ELSE AddWriter(new, id, a.default_writer), id |-> id]

(* It then gets filters, and a thread if it reports by time.               *)
LEMMA DefaultMsFills ==
  ASSUME NEW c, Linked(c), NEW a, NEW m, NEW id, NEW name, NEW new,
         Grown(c, new, m, id), new.threads = c.threads, new.mpoints[m].name = name,
         ByTime(a.sample_interval) => new.mpoints[m].guarded,
         a.mpoints[m].default = 0, a.mpoints[m].streams = <<>>,
         FirstMade(a, m, new, id)
  PROVE  /\ Grown(c, DefaultMs(a, m), m, id) /\ ThreadsGrown(c, DefaultMs(a, m), m, id)
         /\ DefaultMs(a, m).mpoints[m].name = name
<1>1. PICK w, interval : w = a.default_writer /\ interval = a.sample_interval
  OBVIOUS
<1>2. PICK d : d = IF w = 0 THEN new ELSE AddWriter(new, id, w)
  OBVIOUS
<1>3. Grown(c, d, m, id) /\ d.threads = c.threads /\ d.mpoints = new.mpoints
  <2>1. CASE w = 0
    BY <1>2, <2>1
  <2>2. CASE w # 0
    BY <1>2, <2>2, GrownWriter
  <2> QED BY <2>1, <2>2
<1>4. d.mpoints[m].streams[1] = id
  BY <1>3, GrownStream
<1>5. PICK filled : filled = CreateDefaultFilters(d, m, id)
  OBVIOUS
<1>6. Grown(c, filled, m, id) /\ filled.threads = c.threads /\ filled.mpoints = new.mpoints
  BY <1>3, <1>5, GrownFilters
<1>7. PICK e : e = IF ByTime(interval) THEN StartThread(filled, id) ELSE filled
  OBVIOUS
<1>8. Grown(c, e, m, id) /\ e.mpoints = new.mpoints /\ ThreadsGrown(c, e, m, id)
  <2>1. ByTime(interval) => filled.mpoints[m].guarded
    BY <1>1, <1>6
  <2>2. Grown(c, e, m, id) /\ e.mpoints = filled.mpoints /\ ThreadsGrown(c, e, m, id)
    BY <1>6, <1>7, <2>1, GrownStarts
  <2> QED BY <1>6, <2>2
<1>9. DefaultMs(a, m) = Defaulted(e, m)
  <2>1. PICK r : r = CreateMStream(a, <<>>, m, a.default_writer, a.sample_interval, a.sample_count)
    OBVIOUS
  <2>2. r.c = d /\ id = r.c.mpoints[m].streams[1]
    BY <1>1, <1>2, <1>4, <2>1 DEF FirstMade
  <2>3. /\ filled = CreateDefaultFilters(r.c, m, id)
        /\ e = IF a.sample_interval > 0 THEN StartThread(filled, id) ELSE filled
    BY <1>1, <1>5, <1>7, <2>2 DEF ByTime
  <2> QED BY <2>1, <2>2, <2>3, DefaultMsIs
<1>10. PICK q, x : q = DefaultMs(a, m) /\ x = e.mpoints[m].streams[1]
  OBVIOUS
<1>11. q = WithDefault(e, m, x)
  BY <1>9, <1>10 DEF Defaulted, WithDefault
<1>12. /\ Grown(c, q, m, id) /\ q.threads = e.threads /\ q.mpoints[m].name = e.mpoints[m].name
       /\ q.mpoints[m].guarded = e.mpoints[m].guarded
  BY <1>8, <1>11, GrownDefault
<1>13. q.mpoints[m].name = name /\ ThreadsGrown(c, q, m, id)
  BY <1>8, <1>12 DEF ThreadsGrown
<1> QED BY <1>10, <1>12, <1>13

(* The point that is added has one stream, and maybe a thread.             *)
LEMMA DefaultMsGrows ==
  ASSUME NEW c, Linked(c), NEW name, NEW fields, \A i \in DOMAIN c.streams : c.streams[i].table # name,
         NEW a, a = AddMP(c, name, fields), NEW m, m = Len(c.mpoints) + 1,
         NEW id, id = Len(c.streams) + 1
  PROVE  /\ Grown(c, DefaultMs(a, m), m, id) /\ ThreadsGrown(c, DefaultMs(a, m), m, id)
         /\ DefaultMs(a, m).mpoints[m].name = name
<1>1. /\ a.streams = c.streams /\ a.mpoints[m] = NewMP(name, fields)
  BY AddMPIs
<1>2. /\ a.mpoints[m].default = 0 /\ a.mpoints[m].streams = <<>> /\ a.mpoints[m].name = name
      /\ IsList(a.streams) /\ \A i \in DOMAIN a.streams : a.streams[i].table # a.mpoints[m].name
      /\ id = Len(a.streams) + 1
  <2>1. a.mpoints[m].default = 0 /\ a.mpoints[m].streams = <<>> /\ a.mpoints[m].name = name
    BY <1>1 DEF NewMP
  <2>2. IsList(c.streams)
    BY DEF Linked
  <2> QED BY <1>1, <2>1, <2>2
<1>3. PICK w, interval, n :
        w = a.default_writer /\ interval = a.sample_interval /\ n = a.sample_count
  OBVIOUS
<1>4. PICK new : new = NewMStream(a, m, interval, n)
  OBVIOUS
<1>5. /\ Grown(c, new, m, id) /\ new.threads = c.threads /\ new.mpoints[m].name = name
      /\ (ByTime(interval) => new.mpoints[m].guarded)
  BY <1>4, GrownFirst
<1>6. FirstMade(a, m, new, id)
  <2>1. CreateMStream(a, <<>>, m, w, interval, n) =
          [c |-> IF w = 0 THEN new ELSE AddWriter(new, id, w), id |-> id]
    BY <1>2, <1>4, CreateMStreamIs
  <2> QED BY <1>3, <2>1 DEF FirstMade
<1>7. ByTime(a.sample_interval) => new.mpoints[m].guarded
  BY <1>3, <1>5
<1> QED BY <1>2, <1>5, <1>6, <1>7, DefaultMsFills

(* A client that has one more point is linked as well.                     *)
LEMMA GrownLinked ==
  ASSUME NEW c, Linked(c), NEW d, NEW m, NEW id, Grown(c, d, m, id), ThreadsGrown(c, d, m, id)
  PROVE  Linked(d)
<1>1. /\ DOMAIN d.mpoints = DOMAIN c.mpoints \cup {m} /\ m \notin DOMAIN c.mpoints
      /\ DOMAIN d.streams = DOMAIN c.streams \cup {id} /\ id \notin DOMAIN c.streams
      /\ Len(c.mpoints) \in Nat /\ Len(d.mpoints) = Len(c.mpoints) + 1
  BY GrownIs
<1>2. /\ DOMAIN d = ClientFields /\ IsList(d.mpoints) /\ IsList(d.streams)
      /\ \A i \in DOMAIN c.mpoints : d.mpoints[i] = c.mpoints[i]
      /\ \A i \in DOMAIN c.streams : d.streams[i] = c.streams[i]
      /\ DOMAIN d.mpoints[m] = DOMAIN NewMP("", <<>>)
      /\ d.mpoints[m].streams = <<id>>
      /\ DOMAIN d.streams[id] = DOMAIN NewStream("", 1, 0, 0)
      /\ d.streams[id].mp = m /\ d.streams[id].size = 0
  BY DEF Grown, GrownPoints, GrownStreams
<1>3. IsList(c.threads) /\ Len(c.mpoints) >= ClientInstr
  BY DEF Linked
<1>4. /\ IsList(d.threads)
      /\ \A i \in Range(d.threads) : i \in Range(c.threads) \/ (i = id /\ d.mpoints[m].guarded)
  <2>1. CASE d.threads = Longer(c.threads, id) /\ d.mpoints[m].guarded
    <3>1. PICK l, q : l = c.threads /\ q = Longer(l, id)
      OBVIOUS
    <3>2. IsList(l) /\ d.threads = q
      BY <1>3, <2>1, <3>1
    <3>3. /\ IsList(q) /\ DOMAIN q = 1..Len(l) + 1 /\ \A i \in 1..Len(l) : q[i] = l[i]
          /\ q[Len(l) + 1] = id
      BY <3>1, <3>2, ListAppend DEF Longer
    <3>4. Len(l) \in Nat /\ DOMAIN l = 1..Len(l)
      BY <3>2, ListIsSeq
    <3>5. \A j \in DOMAIN q : q[j] = id \/ \E i \in DOMAIN l : q[j] = l[i]
      BY <3>3, <3>4
    <3> QED BY <2>1, <3>1, <3>2, <3>3, <3>5 DEF Range
  <2>2. CASE d.threads = c.threads
    BY <1>3, <2>2
  <2> QED BY <2>1, <2>2 DEF ThreadsGrown
<1>5. ASSUME NEW n \in DOMAIN d.mpoints
      PROVE  /\ DOMAIN d.mpoints[n] = DOMAIN NewMP("", <<>>)
             /\ IsList(d.mpoints[n].streams) /\ IsInjective(d.mpoints[n].streams)
             /\ Range(d.mpoints[n].streams) = {i \in DOMAIN d.streams : d.streams[i].mp = n}
  <2>1. CASE n = m
    <3>1. \A i \in DOMAIN c.streams : d.streams[i].mp # m
      BY <1>1, <1>2 DEF Linked
    <3>2. {i \in DOMAIN d.streams : d.streams[i].mp = m} = {id}
      BY <1>1, <1>2, <3>1
    <3>3. IsList(<<id>>) /\ IsInjective(<<id>>) /\ Range(<<id>>) = {id}
      BY ListOne
    <3> QED BY <1>2, <2>1, <3>2, <3>3
  <2>2. CASE n # m
    <3>1. n \in DOMAIN c.mpoints /\ d.mpoints[n] = c.mpoints[n]
      BY <1>1, <1>2, <2>2
    <3>2. {i \in DOMAIN d.streams : d.streams[i].mp = n} = {i \in DOMAIN c.streams : c.streams[i].mp = n}
      BY <1>1, <1>2, <2>2
    <3> QED BY <3>1, <3>2 DEF Linked
  <2> QED BY <2>1, <2>2
<1>6. ASSUME NEW i \in DOMAIN d.streams
      PROVE  /\ DOMAIN d.streams[i] = DOMAIN NewStream("", 1, 0, 0)
             /\ d.streams[i].mp \in DOMAIN d.mpoints /\ d.streams[i].size \in Nat
  <2>1. CASE i = id
    <3>1. d.streams[id].mp \in DOMAIN d.mpoints
      BY <1>1, <1>2
    <3>2. d.streams[id].size \in Nat
      <4>1. d.streams[id].size = 0
        BY <1>2
      <4> QED BY <4>1
    <3>3. DOMAIN d.streams[id] = DOMAIN NewStream("", 1, 0, 0)
      BY <1>2
    <3> QED BY <2>1, <3>1, <3>2, <3>3
  <2>2. CASE i # id
    <3>1. i \in DOMAIN c.streams /\ d.streams[i] = c.streams[i]
      BY <1>1, <1>2, <2>2
    <3> QED BY <1>1, <3>1 DEF Linked
  <2> QED BY <2>1, <2>2
<1>7. ASSUME NEW i \in Range(d.threads)
      PROVE  i \in DOMAIN d.streams /\ d.mpoints[d.streams[i].mp].guarded
  <2>1. CASE i = id /\ d.mpoints[m].guarded
    BY <1>1, <1>2, <2>1
  <2>2. CASE i \in Range(c.threads)
    <3>1. i \in DOMAIN c.streams /\ c.streams[i].mp \in DOMAIN c.mpoints
          /\ c.mpoints[c.streams[i].mp].guarded
      BY <2>2 DEF Linked
    <3> QED BY <1>1, <1>2, <3>1
  <2> QED BY <1>4, <2>1, <2>2
<1>8. Len(d.mpoints) >= ClientInstr
  BY <1>1, <1>3 DEF ClientInstr
<1> QED BY <1>2, <1>4, <1>5, <1>6, <1>7, <1>8 DEF Linked

(* A thread that was where it should be still is.                          *)
LEMMA GrownThreads ==
  ASSUME NEW c, Linked(c), NEW d, NEW m, NEW id, Grown(c, d, m, id), NEW f
  PROVE  /\ InjectOK(f, c) => InjectOK(f, d)
         /\ \A t, h : ReportOK(t, f, c, h) => ReportOK(t, f, d, h)
<1>1. /\ DOMAIN d.mpoints = DOMAIN c.mpoints \cup {m} /\ DOMAIN d.streams = DOMAIN c.streams \cup {id}
      /\ \A i \in DOMAIN c.mpoints : d.mpoints[i] = c.mpoints[i]
      /\ \A i \in DOMAIN c.streams : d.streams[i] = c.streams[i]
  <2>1. DOMAIN d.mpoints = DOMAIN c.mpoints \cup {m} /\ DOMAIN d.streams = DOMAIN c.streams \cup {id}
    BY GrownIs
  <2>2. /\ \A i \in DOMAIN c.mpoints : d.mpoints[i] = c.mpoints[i]
        /\ \A i \in DOMAIN c.streams : d.streams[i] = c.streams[i]
    BY DEF Grown, GrownPoints, GrownStreams
  <2> QED BY <2>1, <2>2
<1>2. TodoOK(f, c) => TodoOK(f, d)
  BY <1>1 DEF TodoOK
<1>3. InjectOK(f, c) => InjectOK(f, d)
  BY <1>1, <1>2 DEF InjectOK
<1>4. ASSUME NEW t, NEW h, ReportOK(t, f, c, h) PROVE ReportOK(t, f, d, h)
  <2>1. CASE f.pc = "none"
    BY <1>4, <2>1 DEF ReportOK
  <2>2. CASE f.pc # "none"
    <3>1. PICK i \in DOMAIN c.streams :
            f.todo = <<i>> /\ f.mp = c.streams[i].mp /\ c.mpoints[f.mp].guarded
      BY <1>4, <2>2 DEF ReportOK
    <3>2. f.mp \in DOMAIN c.mpoints
      BY <3>1 DEF Linked
    <3>3. /\ i \in DOMAIN d.streams /\ f.mp = d.streams[i].mp /\ d.mpoints[f.mp] = c.mpoints[f.mp]
      BY <1>1, <3>1, <3>2
    <3> QED BY <1>4, <3>1, <3>3 DEF ReportOK
  <2> QED BY <2>1, <2>2
<1> QED BY <1>3, <1>4

(* A thread that is started sleeps first, and has its stream.              *)
Begun(d, id) == [At("sleep", "report", d.streams[id].mp) EXCEPT !.todo = <<id>>]

(* A thread sleeps from its start, or is what it was.                      *)
LEMMA StartedIs ==
  ASSUME NEW n \in Nat, NEW q, IsList(q), Len(q) <= Len(FilterThreads), NEW d, d.threads = q
  PROVE  /\ DOMAIN Started(d, n) = Threads
         /\ \A t \in Threads :
              \/ Started(d, n)[t] = frame[t]
              \/ /\ t \in Range(FilterThreads)
                 /\ \E k \in n + 1..Len(q) : Started(d, n)[t] = Begun(d, q[k])
<1>1. DOMAIN Started(d, n) = Threads
  BY DEF Started
<1>2. ASSUME NEW t \in Threads
      PROVE  \/ Started(d, n)[t] = frame[t]
             \/ /\ t \in Range(FilterThreads)
                /\ \E k \in n + 1..Len(q) : Started(d, n)[t] = Begun(d, q[k])
  <2> DEFINE Of(k) == k \in n + 1..Len(q) /\ FilterThreads[k] = t
  <2>1. /\ (\E k : Of(k)) => Started(d, n)[t] = Begun(d, q[CHOOSE k : Of(k)])
        /\ ~(\E k : Of(k)) => Started(d, n)[t] = frame[t]
    <3>1. \A k : Begun(d, q[k]) = [At("sleep", "report", d.streams[d.threads[k]].mp)
                                     EXCEPT !.todo = <<d.threads[k]>>]
      BY DEF Begun
    <3>2. (CHOOSE k : Of(k)) = CHOOSE k \in n + 1..Len(d.threads) : FilterThreads[k] = t
      OBVIOUS
    <3> QED BY <3>1, <3>2 DEF Started
  <2>2. ASSUME NEW k, Of(k) PROVE t \in Range(FilterThreads)
    <3>1. DOMAIN FilterThreads = 1..Len(FilterThreads) /\ Len(FilterThreads) \in Nat
      BY MeasurementPointAssumption, LenProperties
    <3>2. Len(q) \in Nat /\ Len(q) <= Len(FilterThreads)
      BY ListIsSeq
    <3>3. k \in DOMAIN FilterThreads /\ FilterThreads[k] = t
      BY <2>2, <3>1, <3>2
    <3> QED BY <3>3 DEF Range
  <2>3. \A k : Of(k) => k \in n + 1..Len(q)
    OBVIOUS
  <2> HIDE DEF Of
  <2>4. CASE \E k : Of(k)
    <3>1. Of(CHOOSE k : Of(k))
      BY <2>4
    <3> QED BY <2>1, <2>2, <2>3, <2>4, <3>1
  <2>5. CASE ~\E k : Of(k)
    BY <2>1, <2>5
  <2> QED BY <2>4, <2>5
<1> QED BY <1>1, <1>2

(* The thread of the new stream.                                           *)
LEMMA LastThread ==
  ASSUME NEW c, IsList(c.threads), NEW d, NEW m, NEW id, ThreadsGrown(c, d, m, id)
  PROVE  /\ IsList(d.threads) /\ Len(c.threads) \in Nat
         /\ Len(d.threads) = Len(c.threads) \/ Len(d.threads) = Len(c.threads) + 1
         /\ \A k \in Len(c.threads) + 1..Len(d.threads) : d.threads[k] = id /\ d.mpoints[m].guarded
<1>1. PICK l, q : l = c.threads /\ q = Longer(l, id)
  OBVIOUS
<1>2. /\ IsList(l) /\ Len(l) \in Nat /\ IsList(q) /\ Len(q) = Len(l) + 1 /\ q[Len(l) + 1] = id
  BY <1>1, ListAppend, ListIsSeq DEF Longer
<1>3. CASE d.threads = Longer(c.threads, id) /\ d.mpoints[m].guarded
  <2>1. d.threads = q
    BY <1>1, <1>3
  <2>2. \A k \in Len(l) + 1..Len(q) : k = Len(l) + 1
    BY <1>2
  <2> QED BY <1>1, <1>2, <1>3, <2>1, <2>2
<1>4. CASE d.threads = c.threads
  <2>1. \A k \in Len(l) + 1..Len(l) : FALSE
    BY <1>2
  <2> QED BY <1>1, <1>2, <1>4, <2>1
<1> QED BY <1>3, <1>4 DEF ThreadsGrown

(* What the action does.                                                   *)
Created(t, d, id) ==
  /\ \E x, n : client' = Numbered(d, id, x, n)
  /\ frame' = [Started(d, Len(client.threads)) EXCEPT ![t] = Idle]
  /\ setup' = setup /\ holder' = holder /\ freed' = freed

(* What omlc_add_mp leaves, in these terms.                                *)
LEMMA CreateIs ==
  ASSUME NEW t, Create(t), NEW a, a = AddMP(client, setup.late[1].name, setup.late[1].fields),
         NEW m, Len(a.mpoints) = m, NEW d, d = DefaultMs(a, m), NEW id, d.mpoints[m].streams[1] = id
  PROVE  Created(t, d, id)
<1>1. /\ client' = [d EXCEPT !.streams[id].index = client.next_ms_idx, !.next_ms_idx = @ + 1]
      /\ frame' = [Started(d, Len(client.threads)) EXCEPT ![t] = Idle]
      /\ setup' = setup /\ holder' = holder /\ freed' = freed
  BY DEF Create, memory
<1>2. PICK n : client' = Numbered(d, id, client.next_ms_idx, n)
  BY <1>1 DEF Numbered
<1>3. \E x, y : client' = Numbered(d, id, x, y)
  BY <1>2
<1>4. /\ frame' = [Started(d, Len(client.threads)) EXCEPT ![t] = Idle]
      /\ setup' = setup /\ holder' = holder /\ freed' = freed
  BY <1>1
<1> QED BY <1>3, <1>4 DEF Created

(* The state after it, from the one before.                                *)
LEMMA CreatedLinks ==
  ASSUME Running, setup' = setup, holder' = holder, setup.late # <<>>,
         NEW name, name = setup.late[1].name, RoomFor(client, name),
         NEW m, NEW id, Grown(client, client', m, id), client'.mpoints[m].name = name,
         ThreadsGrown(client, client', m, id)
  PROVE  LinksInv' /\ ~Unmade(client')
<1>1. Linked(client')
  BY GrownLinked DEF Running, LinksInv
<1>2. /\ m \in DOMAIN client'.mpoints /\ Len(client.mpoints) \in Nat
      /\ Len(client'.mpoints) = Len(client.mpoints) + 1
  BY GrownIs DEF Running, LinksInv
<1>3. ~Unmade(client')
  <2>1. IsList(client'.mpoints)
    BY <1>1 DEF Linked
  <2>2. FindMP(client', name) # 0
    BY <1>2, <2>1, FindMPIs
  <2> QED BY <2>2 DEF Unmade
<1>4. Len(client'.mpoints) <= PointCount
  <2>1. PointCount \in Int
    BY MeasurementPointAssumption DEF PointCount
  <2> QED BY <1>2, <2>1 DEF RoomFor
<1>5. Len(client'.threads) <= Len(FilterThreads)
  <2>1. Len(FilterThreads) \in Nat
    BY MeasurementPointAssumption, LenProperties
  <2>2. IsList(client.threads) /\ Len(client.threads) < Len(FilterThreads)
    BY DEF Running, LinksInv, Linked, RoomFor
  <2>3. /\ Len(client.threads) \in Nat
        /\ Len(client'.threads) = Len(client.threads) \/ Len(client'.threads) = Len(client.threads) + 1
    BY <2>2, LastThread
  <2> QED BY <2>1, <2>2, <2>3
<1>6. client'.started
  BY DEF Running, LinksInv, Grown
<1> QED BY <1>1, <1>3, <1>4, <1>5, <1>6 DEF LinksInv, Running, Unmade

(* The threads after it: one may have started, and it is the new stream's. *)
LEMMA CreatedThreads ==
  ASSUME Running, holder' = holder, NEW t \in Apps, \A u \in Apps : frame[u].job # "close",
         NEW m, NEW id, Grown(client, client', m, id),
         NEW r, frame' = [r EXCEPT ![t] = Idle], DOMAIN r = Threads,
         \A u \in Threads : \/ r[u] = frame[u]
                            \/ /\ u \in Range(FilterThreads) /\ r[u] = Begun(client', id)
                               /\ client'.mpoints[m].guarded
  PROVE  /\ ThreadsOK' /\ frame'[t] = Idle /\ \A u \in Apps \ {t} : frame'[u] = frame[u]
<1>1. /\ DOMAIN frame' = Threads /\ frame'[t] = Idle /\ t \in Threads
      /\ \A u \in Threads \ {t} : frame'[u] = r[u]
  BY ThreadsDiffer
<1>2. \A u \in Apps \ {t} : frame'[u] = frame[u]
  BY <1>1, ThreadsDiffer
<1>3. ASSUME NEW u \in Apps PROVE AppOK(frame'[u], client')
  <2>1. CASE u = t
    BY <1>1, <2>1 DEF AppOK
  <2>2. CASE u # t
    <3>1. frame'[u] = frame[u] /\ (frame[u] = Idle \/ frame[u] = Announcing \/ InjectOK(frame[u], client))
      BY <1>2, <2>2 DEF Running, ThreadsOK, AppOK, CloseOK
    <3>2. InjectOK(frame[u], client) => InjectOK(frame[u], client')
      BY GrownThreads DEF Running, LinksInv
    <3> QED BY <3>1, <3>2 DEF AppOK
  <2> QED BY <2>1, <2>2
<1>4. ASSUME NEW u \in Range(FilterThreads) PROVE ReportOK(u, frame'[u], client', holder')
  <2>1. frame'[u] = r[u] /\ u \in Threads
    BY <1>1, ThreadsDiffer
  <2>2. CASE r[u] = frame[u]
    <3>1. ReportOK(u, frame[u], client, holder)
      BY DEF Running, ThreadsOK
    <3>2. ReportOK(u, frame[u], client', holder)
      BY <3>1, GrownThreads DEF Running, LinksInv
    <3> QED BY <2>1, <2>2, <3>2
  <2>3. CASE client'.mpoints[m].guarded /\ r[u] = Begun(client', id)
    <3>1. PICK f : f = Begun(client', id)
      OBVIOUS
    <3>2. id \in DOMAIN client'.streams /\ client'.streams[id].mp = m
      <4>1. Linked(client)
        BY DEF Running, LinksInv
      <4>2. id \in DOMAIN client'.streams
        BY <4>1, GrownIs
      <4>3. client'.streams[id].mp = m
        BY DEF Grown, GrownStreams
      <4> QED BY <4>2, <4>3
    <3>3. /\ DOMAIN f = FrameFields /\ f.job = "report" /\ f.pc = "sleep"
          /\ f.todo = <<id>> /\ f.mp = m
      BY <3>1, <3>2 DEF Begun, At, FrameFields, Idle
    <3>4. f.mp = client'.streams[id].mp /\ client'.mpoints[f.mp].guarded
      BY <2>3, <3>2, <3>3
    <3>5. ReportOK(u, f, client', holder')
      BY <3>2, <3>3, <3>4 DEF ReportOK
    <3> QED BY <2>1, <2>3, <3>1, <3>5
  <2> QED BY <2>1, <2>2, <2>3
<1>5. ThreadsOK'
  BY <1>1, <1>3, <1>4 DEF ThreadsOK, AppOK, InjectOK, CloseOK, TodoOK, ReportOK
<1> QED BY <1>1, <1>2, <1>5

(* A point is added.                                                       *)
LEMMA CreateGrows ==
  ASSUME Running, NEW t \in Apps, InjectOK(frame[t], client), Create(t)
  PROVE  /\ client'.up /\ freed = {} /\ freed' = {} /\ LinksInv' /\ ~Unmade(client') /\ ThreadsOK'
         /\ \E m, id : Grown(client, client', m, id)
         /\ frame'[t] = Idle /\ \A u \in Apps \ {t} : frame'[u] = frame[u]
         /\ \A u \in Apps : frame[u].job # "close"
<1>1. client.up /\ freed = {} /\ \A u \in Apps : frame[u].job # "close"
  BY NobodyCloses
<1>2. Adds(frame[t])
  <2>1. frame[t].pc = "create"
    BY DEF Create, Runs
  <2> QED BY <2>1 DEF InjectOK, Adds
<1>3. setup.late # <<>> /\ RoomFor(client, setup.late[1].name) /\ Linked(client)
  BY <1>2 DEF Running, AloneInv, LinksInv, Unmade
<1>4. PICK name, fields : name = setup.late[1].name /\ fields = setup.late[1].fields
  OBVIOUS
<1>5. PICK a, m, id : /\ a = AddMP(client, name, fields)
                      /\ m = Len(client.mpoints) + 1 /\ id = Len(client.streams) + 1
  OBVIOUS
<1>6. PICK d : d = DefaultMs(a, m)
  OBVIOUS
<1>7. Grown(client, d, m, id) /\ ThreadsGrown(client, d, m, id) /\ d.mpoints[m].name = name
  <2>1. \A i \in DOMAIN client.streams : client.streams[i].table # name
    BY <1>3, <1>4 DEF RoomFor
  <2> QED BY <1>3, <1>5, <1>6, <2>1, DefaultMsGrows
<1>8. d.mpoints[m].streams[1] = id
  BY <1>7, GrownStream
<1>9. Len(a.mpoints) = m
  BY <1>3, <1>5, AddMPIs
<1>10. /\ \E x, n : client' = Numbered(d, id, x, n)
       /\ frame' = [Started(d, Len(client.threads)) EXCEPT ![t] = Idle]
       /\ setup' = setup /\ holder' = holder /\ freed' = freed
  <2>1. a = AddMP(client, setup.late[1].name, setup.late[1].fields)
    BY <1>4, <1>5
  <2>2. Created(t, d, id)
    BY <2>1, <1>6, <1>8, <1>9, CreateIs
  <2> QED BY <2>2 DEF Created
<1>11. /\ Grown(client, client', m, id) /\ client'.threads = d.threads
       /\ client'.mpoints = d.mpoints
  <2>1. PICK x, n : client' = Numbered(d, id, x, n)
    BY <1>10
  <2> QED BY <1>3, <1>7, <2>1, GrownNumbered
<1>12. Begun(d, id) = Begun(client', id)
  BY <1>7, <1>11 DEF Grown, GrownStreams, Begun
<1>13. PICK r : r = Started(d, Len(client.threads))
  OBVIOUS
<1>14. /\ DOMAIN r = Threads
       /\ \A u \in Threads : \/ r[u] = frame[u]
                             \/ /\ u \in Range(FilterThreads) /\ r[u] = Begun(client', id)
                                /\ client'.mpoints[m].guarded
  <2>1. IsList(client.threads) /\ Len(client.threads) < Len(FilterThreads) /\ Len(FilterThreads) \in Nat
    BY <1>3, MeasurementPointAssumption, LenProperties DEF Linked, RoomFor
  <2>2. PICK n, q : n = Len(client.threads) /\ q = d.threads
    OBVIOUS
  <2>3. /\ IsList(q) /\ n \in Nat /\ (Len(q) = n \/ Len(q) = n + 1)
        /\ \A k \in n + 1..Len(q) : q[k] = id /\ d.mpoints[m].guarded
    BY <1>7, <2>1, <2>2, LastThread
  <2>4. Len(q) <= Len(FilterThreads)
    BY <2>1, <2>2, <2>3
  <2>5. /\ DOMAIN r = Threads
        /\ \A u \in Threads : \/ r[u] = frame[u]
                              \/ /\ u \in Range(FilterThreads)
                                 /\ \E k \in n + 1..Len(q) : r[u] = Begun(d, q[k])
    BY <1>13, <2>2, <2>3, <2>4, StartedIs
  <2> QED BY <1>11, <1>12, <2>3, <2>5
<1>15. LinksInv' /\ ~Unmade(client')
  <2>1. ThreadsGrown(client, client', m, id)
    BY <1>7, <1>11 DEF ThreadsGrown
  <2> QED BY <1>3, <1>4, <1>7, <1>10, <1>11, <2>1, CreatedLinks
<1>16. ThreadsOK' /\ frame'[t] = Idle /\ \A u \in Apps \ {t} : frame'[u] = frame[u]
  BY <1>1, <1>10, <1>11, <1>13, <1>14, CreatedThreads
<1>17. client'.up /\ freed' = {}
  BY <1>1, <1>10, <1>11 DEF Grown
<1> QED BY <1>1, <1>11, <1>15, <1>16, <1>17

(* The invariant, after it.                                                *)
LEMMA InjectCreates ==
  ASSUME Running, NEW t \in Apps, InjectOK(frame[t], client), Create(t)
  PROVE  Running'
<1>1. /\ client'.up /\ freed' = {} /\ LinksInv' /\ ~Unmade(client') /\ ThreadsOK'
      /\ frame'[t] = Idle /\ \A u \in Apps \ {t} : frame'[u] = frame[u]
      /\ \A u \in Apps : frame[u].job # "close"
  BY CreateGrows
<1>2. Adds(frame[t])
  <2>1. frame[t].pc = "create"
    BY DEF Create, Runs
  <2> QED BY <2>1 DEF InjectOK, Adds
<1>3. \A u \in Apps \ {t} : ~Adds(frame[u])
  BY <1>2 DEF Running, AloneInv
<1>4. \A u \in Apps : frame'[u].job # "close" /\ ~Adds(frame'[u])
  BY <1>1, <1>3, IdleIs DEF Adds
<1>5. AloneInv'
  BY <1>1, <1>4 DEF AloneInv, Adds
<1>6. FreedInv'
  BY <1>1, <1>4 DEF FreedInv
<1> QED BY <1>1, <1>5, <1>6 DEF Running

----------------------------------------------------------------------------
(* The actions of omlc_close.                                              *)

(* Where the thread that closes is.                                        *)
LEMMA CloseFrame ==
  ASSUME Running, NEW t \in Apps, NEW f, f = frame[t], CloseOK(f, client)
  PROVE  /\ t \in Threads /\ t # Nobody /\ DOMAIN frame = Threads /\ Linked(client) /\ client.up
         /\ \A u \in Apps : u # t => frame[u] = Idle
         /\ f.job = "close" /\ DOMAIN f = FrameFields
         /\ f.mp \in DOMAIN client.mpoints => f.mp \in DOMAIN holder
         /\ freed \subseteq DOMAIN client.streams
         /\ \A id \in DOMAIN client.streams : id \in freed <=> Destroyed(f, client, id)
         /\ \A m \in DOMAIN client.mpoints : Past(f, m) => ~client.mpoints[m].active
<1>1. t \in Threads /\ t # Nobody /\ DOMAIN frame = Threads /\ Linked(client)
  BY ThreadsDiffer DEF Running, ThreadsOK, LinksInv
<1>2. f.job = "close" /\ DOMAIN f = FrameFields
  BY DEF CloseOK
<1>3. client.up /\ \A u \in Apps : u # t => frame[u] = Idle
  BY <1>2, IdleIs DEF Running, AloneInv
<1>4. ASSUME f.mp \in DOMAIN client.mpoints PROVE f.mp \in DOMAIN holder
  <2>1. IsList(client.mpoints) /\ DOMAIN holder = 1..PointCount /\ Len(client.mpoints) <= PointCount
    BY DEF Running, LinksInv, Linked
  <2>2. f.mp \in 1..Len(client.mpoints) /\ Len(client.mpoints) \in Nat
    BY <1>4, <2>1, ListIsSeq
  <2>3. PointCount \in Int
    BY MeasurementPointAssumption DEF PointCount
  <2> QED BY <2>1, <2>2, <2>3
<1> QED BY <1>1, <1>2, <1>3, <1>4 DEF Running, FreedInv

(* It goes on with what is left of the same point.                         *)
LEMMA CloseGoesOn ==
  ASSUME Running, NEW t \in Apps, NEW f, f = frame[t], CloseOK(f, client), f.pc # "lock",
         setup' = setup, SameLinks(client, client'), client'.up = client.up, SameActive,
         freed' = freed, holder' = holder,
         NEW g, frame' = [frame EXCEPT ![t] = g], DOMAIN g = FrameFields,
         g.job = f.job, g.todo = f.todo, g.mp = f.mp, g.add = f.add,
         f.pc # "shut", g.pc \in {"destroy", "row", "window", "free", "unlock"},
         IF g.pc = "destroy" THEN TRUE ELSE IF g.pc = "unlock" THEN f.todo = <<>> ELSE f.todo # <<>>
  PROVE  Running'
<1>1. /\ Linked(client) /\ client.up /\ t \in Threads
      /\ \A u \in Apps : u # t => frame[u] = Idle
      /\ freed \subseteq DOMAIN client.streams
      /\ \A id \in DOMAIN client.streams : id \in freed <=> Destroyed(f, client, id)
      /\ \A m \in DOMAIN client.mpoints : Past(f, m) => ~client.mpoints[m].active
  BY CloseFrame
<1>2. TodoOK(g, client)
  BY DEF CloseOK, TodoOK
<1>3. CloseOK(g, client)
  BY <1>2 DEF CloseOK
<1>4. CloseOK(g, client')
  BY <1>3, SameThreads
<1>5. \A m : Past(g, m) <=> Past(f, m)
  BY DEF Past
<1>6. \A id \in DOMAIN client.streams : Destroyed(g, client, id) <=> Destroyed(f, client, id)
  BY <1>5 DEF Destroyed
<1>7. TakesNoMutex(t) /\ StopsUnlocked
  BY DEF TakesNoMutex, StopsUnlocked, SameActive
<1>8. /\ freed' \subseteq DOMAIN client.streams
      /\ \A id \in DOMAIN client.streams : id \in freed' <=> Destroyed(g, client, id)
      /\ \A m \in DOMAIN client.mpoints : Past(g, m) => ~client'.mpoints[m].active
  BY <1>1, <1>5, <1>6 DEF SameActive
<1> QED BY <1>1, <1>4, <1>7, <1>8, CloseSteps

(* The call, or the signal.                                                *)
LEMMA CloseBegins ==
  ASSUME Running, NobodyInjectsWhileClosing, NEW t \in Apps, frame[t].pc = "idle",
         Close(t) \/ Signal(t)
  PROVE  Running'
<1>1. frame[t] = Idle /\ Linked(client) /\ t \in Threads
  BY AtRest
<1>2. /\ client.up /\ freed = {} /\ \A u \in Apps : u # t => frame[u] = Idle
  <2>1. client.up
    BY DEF Close, Signal, Accepts
  <2>2. CASE Close(t)
    <3>1. \A u \in Apps : frame[u] = Idle
      BY <2>2 DEF Close, NobodyInjectsWhileClosing
    <3> QED BY <2>1, <3>1, IdleIs DEF Running, FreedInv
  <2>3. CASE Signal(t)
    <3>1. \A u \in Apps : frame[u].job # "close"
      BY <2>3, ThreadsDiffer DEF Signal
    <3>2. \A u \in Apps : u = t
      BY <2>3 DEF Signal, NobodyInjectsWhileClosing
    <3> QED BY <2>1, <3>1, <3>2 DEF Running, FreedInv
  <2> QED BY <2>2, <2>3
<1>3. PICK g : /\ frame' = [frame EXCEPT ![t] = g] /\ DOMAIN g = FrameFields
               /\ g.pc = "lock" /\ g.job = "close" /\ g.mp = 1 /\ g.todo = <<>>
               /\ g.add => SignalAt # {}
  <2>1. CASE Close(t)
    <3>1. PICK g : Moves(t, g) /\ g = At("lock", "close", 1)
      BY <2>1 DEF Close
    <3>2. /\ DOMAIN g = FrameFields /\ g.pc = "lock" /\ g.job = "close" /\ g.mp = 1
          /\ g.todo = <<>> /\ ~g.add
      BY <3>1 DEF At, FrameFields, Idle
    <3> QED BY <3>1, <3>2 DEF Moves
  <2>2. CASE Signal(t)
    <3>1. PICK g : Moves(t, g) /\ g = [At("lock", "close", 1) EXCEPT !.add = TRUE]
      BY <2>2 DEF Signal
    <3>2. /\ DOMAIN g = FrameFields /\ g.pc = "lock" /\ g.job = "close" /\ g.mp = 1
          /\ g.todo = <<>>
      BY <3>1 DEF At, FrameFields, Idle
    <3>3. SignalAt # {}
      BY <2>2 DEF Signal
    <3> QED BY <3>1, <3>2, <3>3 DEF Moves
  <2> QED BY <2>1, <2>2
<1>4. client' = client /\ setup' = setup /\ holder' = holder /\ freed' = freed
  BY DEF Close, Signal, memory
<1>5. IsList(client.mpoints) /\ Len(client.mpoints) >= 2 /\ DOMAIN client.mpoints = 1..Len(client.mpoints)
      /\ Len(client.mpoints) \in Nat
  BY <1>1, ListIsSeq DEF Linked, ClientInstr
<1>6. CloseOK(g, client)
  <2>1. IsList(g.todo) /\ IsInjective(g.todo) /\ DOMAIN g.todo = {}
    BY <1>3, ListOne
  <2>2. TodoOK(g, client)
    BY <2>1 DEF TodoOK
  <2>3. g.mp \in DOMAIN client.mpoints
    BY <1>3, <1>5
  <2> QED BY <1>3, <2>2, <2>3 DEF CloseOK
<1>7. \A m \in DOMAIN client.mpoints : ~Past(g, m)
  BY <1>3, <1>5 DEF Past
<1>8. \A id \in DOMAIN client.streams : ~Destroyed(g, client, id)
  BY <1>1, <1>7 DEF Destroyed, Linked
<1>9. SameLinks(client, client') /\ client'.up = client.up /\ CloseOK(g, client')
  BY <1>1, <1>4, <1>6, SameItself
<1>10. TakesNoMutex(t) /\ StopsUnlocked
  BY <1>4 DEF TakesNoMutex, StopsUnlocked
<1>11. /\ freed' \subseteq DOMAIN client.streams
       /\ \A id \in DOMAIN client.streams : id \in freed' <=> Destroyed(g, client, id)
       /\ \A m \in DOMAIN client.mpoints : Past(g, m) => ~client'.mpoints[m].active
  BY <1>2, <1>4, <1>7, <1>8
<1> QED BY <1>2, <1>3, <1>4, <1>9, <1>10, <1>11, CloseSteps

(* It finds the mutex of the next point free.                              *)
LEMMA CloseLocks ==
  ASSUME Running, NEW t \in Apps, CloseOK(frame[t], client), Lock(t)
  PROVE  Running'
<1> PICK f : f = frame[t]
  OBVIOUS
<1>1. /\ f.pc = "lock" /\ f.job = "close" /\ t \in Threads /\ t # Nobody /\ DOMAIN f = FrameFields
      /\ f.mp \in DOMAIN client.mpoints /\ f.mp \in DOMAIN holder /\ Linked(client) /\ client.up
      /\ \A u \in Apps : u # t => frame[u] = Idle
      /\ freed \subseteq DOMAIN client.streams
      /\ \A id \in DOMAIN client.streams : id \in freed <=> Destroyed(f, client, id)
      /\ \A m \in DOMAIN client.mpoints : Past(f, m) => ~client.mpoints[m].active
  <2>1. f.pc = "lock"
    BY DEF Lock, Runs
  <2>2. f.mp \in DOMAIN client.mpoints
    BY <2>1 DEF CloseOK
  <2> QED BY <2>1, <2>2, CloseFrame
<1>2. /\ CanLock(f.mp) /\ holder' = [holder EXCEPT ![f.mp] = IF Guarded(f.mp) THEN t ELSE @]
      /\ client' = [client EXCEPT !.mpoints[f.mp].active = FALSE]
      /\ setup' = setup /\ freed' = freed
  BY <1>1 DEF Lock, memory
<1>3. TakesNoMutex(t)
  BY <1>1, <1>2 DEF TakesNoMutex, CanLock
<1>4. /\ SameLinks(client, client') /\ client'.up = client.up
      /\ client'.mpoints[f.mp].active = FALSE
      /\ \A m \in DOMAIN client.mpoints \ {f.mp} : client'.mpoints[m] = client.mpoints[m]
  <2>1. PICK m, c, d : m = f.mp /\ c = client /\ d = client'
    OBVIOUS
  <2>2. Linked(c) /\ m \in DOMAIN c.mpoints /\ d = Stopped(c, m)
    BY <1>1, <1>2, <2>1 DEF Stopped
  <2>3. /\ SameLinks(c, d) /\ d.up = c.up /\ d.mpoints[m].active = FALSE
        /\ \A n \in DOMAIN c.mpoints \ {m} : d.mpoints[n] = c.mpoints[n]
    BY <2>2, PointStops, ZenonT(60)
  <2> QED BY <2>1, <2>3
<1>5. StopsUnlocked
  <2>1. ~client.mpoints[f.mp].guarded \/ holder[f.mp] = Nobody
    BY <1>2 DEF CanLock, Guarded
  <2> QED BY <1>4, <2>1 DEF StopsUnlocked
<1>6. PICK g : g = Locked(t)
  OBVIOUS
<1>7. g = [f EXCEPT !.pc = "destroy", !.todo = client.mpoints[f.mp].streams]
  BY <1>1, <1>6 DEF Locked
<1>8. /\ DOMAIN g = FrameFields /\ g.job = "close" /\ g.todo = client.mpoints[f.mp].streams
      /\ g.mp = f.mp /\ g.pc = "destroy" /\ g.add = f.add
  BY <1>1, <1>7, IdleIs DEF FrameFields
<1>9. /\ TodoOK(g, client)
      /\ \A id \in DOMAIN client.streams :
           client.streams[id].mp = f.mp => \E i \in DOMAIN g.todo : g.todo[i] = id
  BY <1>1, <1>8, TodoAll
<1>10. CloseOK(g, client')
  <2>1. CloseOK(g, client)
    BY <1>1, <1>8, <1>9 DEF CloseOK
  <2> QED BY <1>4, <2>1, SameThreads
<1>11. frame' = [frame EXCEPT ![t] = g]
  BY <1>6 DEF Lock, Moves
<1>12. f.mp \in Nat /\ DOMAIN client.mpoints \subseteq Nat
  <2>1. DOMAIN client.mpoints = 1..Len(client.mpoints)
    BY <1>1, ListIsSeq DEF Linked
  <2> QED BY <1>1, <2>1
<1>13. ASSUME NEW id \in DOMAIN client.streams PROVE id \in freed' <=> Destroyed(g, client, id)
  <2>1. client.streams[id].mp \in DOMAIN client.mpoints
    BY <1>1 DEF Linked
  <2>2. PICK m : m = client.streams[id].mp
    OBVIOUS
  <2>3. CASE m = f.mp
    <3>1. ~Destroyed(g, client, id)
      BY <1>9, <2>2, <2>3 DEF Destroyed
    <3>2. ~Past(f, m)
      BY <1>1, <1>12, <2>3 DEF Past
    <3> QED BY <1>1, <1>2, <2>2, <3>1, <3>2 DEF Destroyed
  <2>4. CASE m # f.mp
    <3>1. \A i \in DOMAIN g.todo : g.todo[i] # id
      BY <1>8, <1>9, <2>2, <2>4 DEF TodoOK
    <3>2. \A i \in DOMAIN f.todo : f.todo[i] # id
      BY <2>2, <2>4 DEF CloseOK, TodoOK
    <3>3. Past(g, m) <=> Past(f, m)
      BY <1>8, <2>4 DEF Past
    <3> QED BY <1>1, <1>2, <2>2, <3>1, <3>2, <3>3 DEF Destroyed
  <2> QED BY <2>3, <2>4
<1>14. ASSUME NEW m \in DOMAIN client.mpoints, Past(g, m) PROVE ~client'.mpoints[m].active
  <2>1. CASE m = f.mp
    BY <1>4, <2>1
  <2>2. CASE m # f.mp
    <3>1. Past(f, m)
      BY <1>8, <1>14, <2>2 DEF Past
    <3> QED BY <1>1, <1>4, <2>2, <3>1
  <2> QED BY <2>1, <2>2
<1>15. freed' \subseteq DOMAIN client.streams
  BY <1>1, <1>2
<1> QED BY <1>1, <1>2, <1>3, <1>4, <1>5, <1>10, <1>11, <1>13, <1>14, <1>15, CloseSteps

(* What is done to a stream before it is freed.                            *)
LEMMA CloseDestroys ==
  ASSUME Running, NEW t \in Apps, CloseOK(frame[t], client), Destroy(t) \/ DestroyedMP(t)
  PROVE  Running'
<1> PICK f : f = frame[t]
  OBVIOUS
<1>1. f.pc = "destroy" /\ f.job = "close" /\ DOMAIN f = FrameFields /\ Linked(client)
  BY CloseFrame DEF Destroy, DestroyedMP, Uses, Runs
<1>2. holder' = holder /\ setup' = setup /\ freed' = freed /\ client' = client
  BY DEF Destroy, DestroyedMP, memory
<1>3. SameLinks(client, client') /\ SameActive /\ client'.up = client.up
  BY <1>1, <1>2, SameItself DEF SameActive
<1>4. CASE Destroy(t)
  <2>1. PICK pc : pc = IF LeftOver(client.streams[Stream(t)]) THEN "row" ELSE "free"
    OBVIOUS
  <2>2. PICK g : g = [f EXCEPT !.k = 1, !.pc = pc]
    OBVIOUS
  <2>3. frame' = [frame EXCEPT ![t] = g]
    BY <1>4, <2>1, <2>2 DEF Destroy, Moves
  <2>4. /\ DOMAIN g = FrameFields /\ g.job = f.job /\ g.todo = f.todo /\ g.mp = f.mp
        /\ g.pc \in {"row", "free"} /\ g.add = f.add
    BY <1>1, <2>1, <2>2, IdleIs DEF FrameFields
  <2>5. f.todo # <<>>
    BY <1>4 DEF Destroy, Uses
  <2> QED BY <1>1, <1>2, <1>3, <2>3, <2>4, <2>5, CloseGoesOn
<1>5. CASE DestroyedMP(t)
  <2>1. PICK g : g = [f EXCEPT !.pc = "unlock"]
    OBVIOUS
  <2>2. frame' = [frame EXCEPT ![t] = g] /\ f.todo = <<>>
    BY <1>5, <2>1 DEF DestroyedMP, Moves
  <2>3. /\ DOMAIN g = FrameFields /\ g.job = f.job /\ g.todo = f.todo /\ g.mp = f.mp
        /\ g.pc = "unlock" /\ g.add = f.add
    BY <1>1, <2>1, IdleIs DEF FrameFields
  <2> QED BY <1>1, <1>2, <1>3, <2>2, <2>3, CloseGoesOn
<1> QED BY <1>4, <1>5

(* What is left of the stream goes to its writers;                         *)
LEMMA CloseWrites ==
  ASSUME Running, NEW t \in Apps, CloseOK(frame[t], client), Row(t)
  PROVE  Running'
<1> PICK f : f = frame[t]
  OBVIOUS
<1>1. /\ f.pc = "row" /\ f.job = "close" /\ f.todo # <<>> /\ DOMAIN f = FrameFields
      /\ Stream(t) \in DOMAIN client.streams /\ Linked(client)
  BY CloseFrame, TodoTail DEF Row, Uses, Runs, CloseOK, Stream
<1>2. holder' = holder /\ setup' = setup /\ freed' = freed
  BY DEF Row, memory
<1>3. SameLinks(client, client') /\ SameActive /\ client'.up = client.up
  BY <1>1, RowClient DEF SameActive
<1>4. PICK g : g = [f EXCEPT !.k = @ + 1,
                       !.pc = IF f.k = Len(client.streams[Stream(t)].writers) THEN "window" ELSE @]
  OBVIOUS
<1>5. frame' = [frame EXCEPT ![t] = g]
  BY <1>4 DEF Row, Moves
<1>6. /\ DOMAIN g = FrameFields /\ g.job = f.job /\ g.todo = f.todo /\ g.mp = f.mp
      /\ g.pc \in {"row", "window"} /\ g.add = f.add
  BY <1>1, <1>4, IdleIs DEF FrameFields
<1> QED BY <1>1, <1>2, <1>3, <1>5, <1>6, CloseGoesOn

(* and once it is there, or there is no writer, the stream can be freed.   *)
LEMMA CloseReported ==
  ASSUME Running, NEW t \in Apps, CloseOK(frame[t], client), NoWriter(t) \/ Window(t)
  PROVE  Running'
<1> PICK f : f = frame[t]
  OBVIOUS
<1>1. /\ f.pc \in {"row", "window"} /\ f.job = "close" /\ f.todo # <<>> /\ DOMAIN f = FrameFields
      /\ Stream(t) \in DOMAIN client.streams /\ Linked(client)
  BY CloseFrame, TodoTail DEF NoWriter, Window, Uses, Runs, CloseOK, Stream
<1>2. holder' = holder /\ setup' = setup /\ freed' = freed
  BY DEF NoWriter, Window, memory
<1>3. SameLinks(client, client') /\ SameActive /\ client'.up = client.up
  <2>1. CASE NoWriter(t)
    BY <1>1, <2>1, SameItself DEF NoWriter, SameActive
  <2>2. CASE Window(t)
    BY <1>1, <2>2, WindowClient DEF SameActive
  <2> QED BY <2>1, <2>2
<1>4. PICK g : g = [f EXCEPT !.pc = "free"]
  OBVIOUS
<1>5. frame' = [frame EXCEPT ![t] = g]
  BY <1>1, <1>4 DEF NoWriter, Window, Moves, Reported
<1>6. /\ DOMAIN g = FrameFields /\ g.job = f.job /\ g.todo = f.todo /\ g.mp = f.mp
      /\ g.pc = "free" /\ g.add = f.add
  BY <1>1, <1>4, IdleIs DEF FrameFields
<1> QED BY <1>1, <1>2, <1>3, <1>5, <1>6, CloseGoesOn

(* It is freed.                                                            *)
LEMMA CloseFrees ==
  ASSUME Running, NEW t \in Apps, CloseOK(frame[t], client), Free(t)
  PROVE  Running'
<1> PICK f : f = frame[t]
  OBVIOUS
<1>1. /\ f.pc = "free" /\ f.job = "close" /\ f.todo # <<>> /\ DOMAIN f = FrameFields
      /\ t \in Threads /\ Linked(client) /\ client.up
      /\ \A u \in Apps : u # t => frame[u] = Idle
      /\ freed \subseteq DOMAIN client.streams
      /\ \A id \in DOMAIN client.streams : id \in freed <=> Destroyed(f, client, id)
      /\ \A m \in DOMAIN client.mpoints : Past(f, m) => ~client.mpoints[m].active
      /\ TodoOK(f, client) /\ f.mp \in DOMAIN client.mpoints
  <2>1. f.pc = "free"
    BY DEF Free, Runs
  <2>2. f.todo # <<>> /\ TodoOK(f, client) /\ f.mp \in DOMAIN client.mpoints
    BY <2>1 DEF CloseOK
  <2> QED BY <2>1, <2>2, CloseFrame
<1>2. PICK head, tail : head = Head(f.todo) /\ tail = Tail(f.todo)
  OBVIOUS
<1>3. /\ holder' = holder /\ setup' = setup /\ client' = client
      /\ freed' = freed \cup {head}
  BY <1>2 DEF Free, Stream
<1>4. SameLinks(client, client') /\ client'.up = client.up
  BY <1>1, <1>3, SameItself
<1>5. TakesNoMutex(t) /\ StopsUnlocked
  BY <1>3 DEF TakesNoMutex, StopsUnlocked
<1>6. PICK g : g = [f EXCEPT !.todo = tail, !.pc = "destroy"]
  OBVIOUS
<1>7. frame' = [frame EXCEPT ![t] = g]
  BY <1>2, <1>6 DEF Free, Moves
<1>8. /\ DOMAIN g = FrameFields /\ g.job = f.job /\ g.todo = tail /\ g.mp = f.mp
      /\ g.pc = "destroy" /\ g.add = f.add
  BY <1>1, <1>6, IdleIs DEF FrameFields
<1>9. /\ head \in DOMAIN client.streams /\ client.streams[head].mp = f.mp
      /\ TodoOK(g, client)
      /\ \A i \in DOMAIN f.todo : f.todo[i] # head => \E j \in DOMAIN tail : tail[j] = f.todo[i]
      /\ \A j \in DOMAIN tail : tail[j] # head /\ \E i \in DOMAIN f.todo : f.todo[i] = tail[j]
  <2>1. TodoOK(f, client) /\ f.todo # <<>>
    BY <1>1
  <2>2. Popped(f, g, client, head, tail)
    BY <2>1, <1>2, <1>8, Popping
  <2> QED BY <2>2 DEF Popped
<1>10. CloseOK(g, client) /\ CloseOK(g, client')
  <2>1. CloseOK(g, client)
    BY <1>1, <1>8, <1>9 DEF CloseOK
  <2> QED BY <1>3, <2>1
<1>11. \A m : Past(g, m) <=> Past(f, m)
  BY <1>1, <1>8 DEF Past
<1>12. ASSUME NEW id \in DOMAIN client.streams PROVE id \in freed' <=> Destroyed(g, client, id)
  <2>1. CASE id = head
    <3>1. Past(f, client.streams[id].mp)
      BY <1>1, <1>9, <2>1 DEF Past
    <3> QED BY <1>3, <1>8, <1>9, <1>11, <2>1, <3>1 DEF Destroyed
  <2>2. CASE id # head
    <3>1. (\A i \in DOMAIN f.todo : f.todo[i] # id) <=> (\A i \in DOMAIN tail : tail[i] # id)
      BY <1>9, <2>2
    <3> QED BY <1>1, <1>3, <1>8, <1>11, <2>2, <3>1 DEF Destroyed
  <2> QED BY <2>1, <2>2
<1>13. freed' \subseteq DOMAIN client.streams
  BY <1>1, <1>3, <1>9
<1>14. \A m \in DOMAIN client.mpoints : Past(g, m) => ~client'.mpoints[m].active
  BY <1>1, <1>3, <1>11
<1> QED BY <1>1, <1>3, <1>4, <1>5, <1>7, <1>10, <1>12, <1>13, <1>14, CloseSteps

(* The point is destroyed: the next, or the end.                           *)
LEMMA CloseUnlocks ==
  ASSUME Running, NEW t \in Apps, CloseOK(frame[t], client), Unlock(t)
  PROVE  Running'
<1> PICK f : f = frame[t]
  OBVIOUS
<1>1. f.pc \in {"unlock", "lock", "destroy", "row", "window", "free", "shut"}
  BY DEF CloseOK
<1>2. f.pc = "unlock"
  BY <1>1 DEF Unlock, Finished
<1>3. /\ f.job = "close" /\ f.todo = <<>> /\ DOMAIN f = FrameFields
      /\ t \in Threads /\ Linked(client) /\ client.up
      /\ \A u \in Apps : u # t => frame[u] = Idle
      /\ freed \subseteq DOMAIN client.streams
      /\ \A id \in DOMAIN client.streams : id \in freed <=> Destroyed(f, client, id)
      /\ \A m \in DOMAIN client.mpoints : Past(f, m) => ~client.mpoints[m].active
      /\ f.mp \in DOMAIN client.mpoints /\ f.mp \in DOMAIN holder /\ (f.add => SignalAt # {})
  <2>1. f.todo = <<>> /\ f.mp \in DOMAIN client.mpoints /\ (f.add => SignalAt # {})
    BY <1>2 DEF CloseOK
  <2> QED BY <2>1, CloseFrame
<1>4. setup' = setup /\ freed' = freed /\ holder' = [holder EXCEPT ![f.mp] = IF @ = t THEN Nobody ELSE @]
  BY DEF Unlock, memory
<1>5. TakesNoMutex(t)
  BY <1>3, <1>4 DEF TakesNoMutex
<1>6. PICK g \in After(f) :
        /\ Moves(t, g)
        /\ client' = IF g.job = "inject" /\ g.mp = ClientInstr THEN [client EXCEPT !.instr_time = 1]
                                                               ELSE client
  BY DEF Unlock
<1>7. g = [f EXCEPT !.pc = IF f.mp < Len(client.mpoints) THEN "lock" ELSE "shut", !.mp = @ + 1]
  BY <1>3, <1>6 DEF After
<1>8. /\ DOMAIN g = FrameFields /\ g.job = "close" /\ g.todo = <<>> /\ g.mp = f.mp + 1
      /\ g.pc = (IF f.mp < Len(client.mpoints) THEN "lock" ELSE "shut") /\ g.add = f.add
  BY <1>3, <1>7, IdleIs DEF FrameFields
<1>9. client' = client
  BY <1>6, <1>8
<1>10. SameLinks(client, client') /\ client'.up = client.up
  BY <1>3, <1>9, SameItself
<1>11. StopsUnlocked
  BY <1>9 DEF StopsUnlocked
<1>12. DOMAIN client.mpoints = 1..Len(client.mpoints) /\ Len(client.mpoints) \in Nat
  BY <1>3, ListIsSeq DEF Linked
<1>13. CloseOK(g, client) /\ CloseOK(g, client')
  <2>1. TodoOK(g, client)
    BY <1>8, ListOne DEF TodoOK
  <2>2. IF g.pc = "shut" THEN g.mp = Len(client.mpoints) + 1 ELSE g.mp \in DOMAIN client.mpoints
    <3>1. CASE f.mp < Len(client.mpoints)
      <4>1. g.pc = "lock" /\ g.mp = f.mp + 1
        BY <1>8, <3>1
      <4>2. g.mp \in DOMAIN client.mpoints
        BY <1>3, <1>12, <3>1, <4>1
      <4> QED BY <4>1, <4>2
    <3>2. CASE ~(f.mp < Len(client.mpoints))
      <4>1. g.pc = "shut" /\ g.mp = f.mp + 1
        BY <1>8, <3>2
      <4>2. g.mp = Len(client.mpoints) + 1
        BY <1>3, <1>12, <3>2, <4>1
      <4> QED BY <4>1, <4>2
    <3> QED BY <3>1, <3>2
  <2>3. CloseOK(g, client)
    BY <1>3, <1>8, <2>1, <2>2 DEF CloseOK
  <2> QED BY <1>9, <2>3
<1>14. \A m \in DOMAIN client.mpoints : Past(g, m) <=> Past(f, m)
  BY <1>2, <1>3, <1>8, <1>12 DEF Past
<1>15. \A id \in DOMAIN client.streams : id \in freed' <=> Destroyed(g, client, id)
  <2>1. \A id \in DOMAIN client.streams : client.streams[id].mp \in DOMAIN client.mpoints
    BY <1>3 DEF Linked
  <2> QED BY <1>3, <1>4, <1>8, <1>14, <2>1 DEF Destroyed
<1>16. /\ freed' \subseteq DOMAIN client.streams
       /\ \A m \in DOMAIN client.mpoints : Past(g, m) => ~client'.mpoints[m].active
  BY <1>3, <1>4, <1>9, <1>14
<1>17. frame' = [frame EXCEPT ![t] = g]
  BY <1>6 DEF Moves
<1> QED BY <1>3, <1>4, <1>5, <1>10, <1>11, <1>13, <1>15, <1>16, <1>17, CloseSteps

(* The client is no more.                                                  *)
LEMMA ShutClient ==
  ASSUME NEW c, Linked(c), NEW d, d = [c EXCEPT !.up = FALSE]
  PROVE  SameLinks(c, d) /\ d.up = FALSE /\ d.mpoints = c.mpoints /\ d.streams = c.streams
<1>1. /\ DOMAIN d = DOMAIN c /\ d.started = c.started /\ d.threads = c.threads
      /\ d.mpoints = c.mpoints /\ d.streams = c.streams /\ d.up = FALSE
  BY DEF Linked, ClientFields
<1>2. SamePoints(c, d) /\ SameStreams(c, d)
  BY <1>1 DEF Linked, SamePoints, SameStreams
<1> QED BY <1>1, <1>2 DEF SameLinks

(* Every stream is freed by then.                                          *)
LEMMA CloseShuts ==
  ASSUME Running, NEW t \in Apps, CloseOK(frame[t], client), Shut(t)
  PROVE  Running'
<1> PICK f : f = frame[t]
  OBVIOUS
<1>1. /\ f.pc = "shut" /\ t \in Threads /\ DOMAIN frame = Threads /\ Linked(client)
      /\ f.mp = Len(client.mpoints) + 1 /\ TodoOK(f, client)
      /\ \A u \in Apps : u # t => frame[u] = Idle
      /\ freed \subseteq DOMAIN client.streams
      /\ \A id \in DOMAIN client.streams : id \in freed <=> Destroyed(f, client, id)
      /\ \A m \in DOMAIN client.mpoints : Past(f, m) => ~client.mpoints[m].active
  <2>1. f.pc = "shut"
    BY DEF Shut, Runs
  <2> QED BY <2>1, CloseFrame DEF CloseOK
<1>2. /\ holder' = holder /\ setup' = setup /\ freed' = freed
      /\ frame' = [frame EXCEPT ![t] = Idle] /\ client' = [client EXCEPT !.up = FALSE]
  BY DEF Shut, Moves
<1>3. /\ SameLinks(client, client') /\ client'.up = FALSE /\ client'.mpoints = client.mpoints
      /\ client'.streams = client.streams
  <2>1. PICK c, d : c = client /\ d = client'
    OBVIOUS
  <2>2. d = [c EXCEPT !.up = FALSE] /\ Linked(c)
    BY <1>1, <1>2, <2>1
  <2> QED BY <2>1, <2>2, ShutClient
<1>4. TakesNoMutex(t) /\ StopsUnlocked
  BY <1>2, <1>3 DEF TakesNoMutex, StopsUnlocked
<1>5. LinksInv'
  BY <1>2, <1>3, LinksStay DEF Running
<1>6. ThreadsOK'
  <2>1. t \notin Range(FilterThreads) /\ AppOK(Idle, client')
    BY ThreadsDiffer DEF AppOK
  <2> QED BY <1>1, <1>2, <1>3, <1>4, <2>1, OthersStay DEF Running
<1>7. \A u \in Apps : frame'[u] = Idle
  BY <1>1, <1>2, ThreadsDiffer
<1>8. AloneInv'
  BY <1>7, IdleIs DEF AloneInv, Adds
<1>9. DOMAIN client.mpoints = 1..Len(client.mpoints) /\ Len(client.mpoints) \in Nat
  BY <1>1, ListIsSeq DEF Linked
<1>10. \A m \in DOMAIN client.mpoints : Past(f, m) /\ m # f.mp
  BY <1>1, <1>9 DEF Past
<1>11. \A id \in DOMAIN client.streams : client.streams[id].mp \in DOMAIN client.mpoints
  BY <1>1 DEF Linked
<1>12. \A id \in DOMAIN client.streams : Destroyed(f, client, id)
  BY <1>1, <1>10, <1>11 DEF Destroyed, TodoOK
<1>13. FreedInv'
  <2>1. freed' = DOMAIN client'.streams
    BY <1>1, <1>2, <1>3, <1>12
  <2>2. \A id \in freed' : ~client'.mpoints[client'.streams[id].mp].active
    BY <1>1, <1>2, <1>3, <1>10, <1>11
  <2>3. \A u \in Apps : frame'[u].job # "close"
    BY <1>7, IdleIs
  <2> QED BY <1>3, <2>1, <2>2, <2>3 DEF FreedInv
<1> QED BY <1>5, <1>6, <1>8, <1>13 DEF Running

----------------------------------------------------------------------------
(* The end of omlc_start.                                                  *)

(* write_meta changes nothing of a stream but its number.                  *)
LEMMA NumberedStream ==
  ASSUME NEW x, NEW y, NEW z, z = [x EXCEPT !.index = y],
         {"table", "mp", "thres", "writers", "size"} \subseteq DOMAIN x
  PROVE  /\ DOMAIN z = DOMAIN x /\ z.table = x.table /\ z.mp = x.mp /\ z.thres = x.thres
         /\ z.writers = x.writers /\ z.size = x.size
OBVIOUS

(* So the client is linked as it was.                                      *)
LEMMA NumberedClient ==
  ASSUME NEW c, Linked(c), NEW d, d = NumberStreams(c)
  PROVE  /\ SameLinks(c, d) /\ d.up = c.up /\ d.mpoints = c.mpoints
         /\ \A id \in DOMAIN c.streams : d.streams[id].size = c.streams[id].size
<1> DEFINE order == StreamOrder(c)
           Place(id) == CHOOSE k \in DOMAIN order : order[k] = id
           Renumbered(id) == IF id \in Range(order) THEN [c.streams[id] EXCEPT !.index = Place(id) - 1]
                                                     ELSE c.streams[id]
<1>1. PICK s : s = [id \in DOMAIN c.streams |-> Renumbered(id)]
  OBVIOUS
<1>2. d = [c EXCEPT !.streams = s, !.next_ms_idx = Len(order)]
  BY <1>1 DEF NumberStreams
<1>3. /\ DOMAIN d = DOMAIN c /\ d.started = c.started /\ d.threads = c.threads
      /\ d.up = c.up /\ d.mpoints = c.mpoints /\ d.streams = s
  BY <1>2 DEF Linked, ClientFields
<1>4. ASSUME NEW id \in DOMAIN c.streams
      PROVE  /\ DOMAIN s[id] = DOMAIN c.streams[id] /\ s[id].table = c.streams[id].table
             /\ s[id].mp = c.streams[id].mp /\ s[id].thres = c.streams[id].thres
             /\ s[id].writers = c.streams[id].writers /\ s[id].size = c.streams[id].size
  <2>1. s[id] = Renumbered(id)
    BY <1>1
  <2>2. PICK x, y : x = c.streams[id] /\ y = Place(id) - 1
    OBVIOUS
  <2>3. PICK z : z = s[id]
    OBVIOUS
  <2>4. z = x \/ z = [x EXCEPT !.index = y]
    BY <2>1, <2>2, <2>3
  <2> HIDE DEF order, Place, Renumbered
  <2>5. {"table", "mp", "thres", "writers", "size"} \subseteq DOMAIN x
    BY <2>2 DEF Linked, NewStream
  <2>6. /\ DOMAIN z = DOMAIN x /\ z.table = x.table /\ z.mp = x.mp
        /\ z.thres = x.thres /\ z.writers = x.writers /\ z.size = x.size
    <3>1. CASE z = x
      BY <3>1
    <3>2. CASE z = [x EXCEPT !.index = y]
      BY <2>5, <3>2, NumberedStream
    <3> QED BY <2>4, <3>1, <3>2
  <2> QED BY <2>2, <2>3, <2>6
<1>5. IsList(c.streams) /\ Len(c.streams) \in Nat /\ DOMAIN c.streams = 1..Len(c.streams)
  BY ListIsSeq DEF Linked
<1> HIDE DEF order, Place, Renumbered
<1>6. s = [i \in 1..Len(c.streams) |-> s[i]] /\ DOMAIN s = DOMAIN c.streams
  BY <1>1, <1>5
<1>7. IsList(s)
  BY <1>5, <1>6, ListIntro
<1>8. SamePoints(c, d)
  BY <1>3 DEF Linked, SamePoints
<1>9. SameStreams(c, d)
  <2>1. \A i \in DOMAIN c.streams : c.streams[i].size \in Nat
    BY DEF Linked
  <2> QED BY <1>3, <1>4, <1>6, <1>7, <2>1 DEF SameStreams
<1> QED BY <1>3, <1>4, <1>8, <1>9 DEF SameLinks

(* The thread is in omlc_start, and nobody closes meanwhile.               *)
LEMMA StartEnds ==
  ASSUME Running, NEW t \in Apps, frame[t] = Announcing, WriteMeta(t)
  PROVE  Running'
<1>1. Linked(client) /\ client' = NumberStreams(client)
  BY DEF Running, LinksInv, WriteMeta
<1>2. setup' = setup /\ holder' = holder /\ freed' = freed /\ frame' = [frame EXCEPT ![t] = Idle]
  BY DEF WriteMeta, Moves
<1>3. SameLinks(client, client') /\ client'.up = client.up /\ client'.mpoints = client.mpoints
  BY <1>1, NumberedClient
<1>4. SameActive /\ TakesNoMutex(t)
  BY <1>2, <1>3 DEF SameActive, TakesNoMutex
<1>5. frame[t] # Idle /\ frame[t].job # "close"
  BY AnnouncingIs
<1>6. client.up /\ \A u \in Apps : frame[u].job # "close"
  BY <1>5 DEF Running, AloneInv
<1>7. ~Adds(Idle)
  BY IdleIs
<1> QED BY <1>2, <1>3, <1>4, <1>6, <1>7, InjectSteps

----------------------------------------------------------------------------
(* The steps of an application.                                            *)

(* A thread of the application does one thing of these at a time.          *)
LEMMA AppNext ==
  ASSUME Running, NobodyInjectsWhileClosing, NEW t \in Apps,
         Start(t) \/ Call(t) \/ Close(t) \/ Signal(t) \/ Step(t)
  PROVE  Running'
<1>1. AppOK(frame[t], client) /\ client.started
  BY DEF Running, ThreadsOK, LinksInv
<1>2. ~Start(t)
  BY <1>1 DEF Start
<1>3. CASE frame[t] = Idle
  <2>1. frame[t].pc = "idle"
    BY <1>3, IdleIs
  <2>2. ~Step(t)
    BY <2>1 DEF Step, WriteMeta, Lock, Feed, CountSample, NoWriter, Row, Window, Unlock, Finished, Create,
                Wake, Destroy, Free, DestroyedMP, Shut, Uses, Runs
  <2>3. CASE Call(t)
    BY <2>3, InjectBegins
  <2>4. CASE Close(t) \/ Signal(t)
    BY <2>1, <2>4, CloseBegins
  <2> QED BY <1>2, <2>2, <2>3, <2>4
<1>4. CASE InjectOK(frame[t], client)
  <2>1. frame[t].pc \in {"lock", "feed", "row", "window", "create"}
    BY <1>4 DEF InjectOK
  <2>2. ~Call(t) /\ ~Close(t) /\ ~WriteMeta(t) /\ ~Wake(t) /\ ~Destroy(t) /\ ~Free(t) /\ ~DestroyedMP(t) /\ ~Shut(t)
    BY <2>1 DEF Call, Close, WriteMeta, Wake, Destroy, Free, DestroyedMP, Shut, Uses, Runs
  <2>3. ~Signal(t)
    BY <2>1 DEF Signal, NobodyInjectsWhileClosing
  <2>4. \/ Lock(t) \/ Feed(t) \/ CountSample(t) \/ NoWriter(t) \/ Row(t) \/ Window(t)
        \/ Unlock(t) \/ Create(t)
    BY <1>2, <2>2, <2>3 DEF Step
  <2> QED BY <1>4, <2>4, InjectLocks, InjectFeeds, InjectCounts, InjectWrites, InjectReported,
             InjectUnlocks, InjectCreates
<1>5. CASE CloseOK(frame[t], client)
  <2>1. frame[t].pc \in {"lock", "destroy", "row", "window", "free", "unlock", "shut"}
    BY <1>5 DEF CloseOK
  <2>2. ~Call(t) /\ ~Close(t) /\ ~WriteMeta(t) /\ ~Wake(t) /\ ~Feed(t) /\ ~CountSample(t) /\ ~Create(t)
    BY <2>1 DEF Call, Close, WriteMeta, Wake, Feed, CountSample, Create, Uses, Runs
  <2>3. ~Signal(t)
    BY <2>1 DEF Signal, NobodyInjectsWhileClosing
  <2>4. \/ Lock(t) \/ NoWriter(t) \/ Row(t) \/ Window(t) \/ Unlock(t)
        \/ Destroy(t) \/ Free(t) \/ DestroyedMP(t) \/ Shut(t)
    BY <1>2, <2>2, <2>3 DEF Step
  <2> QED BY <1>5, <2>4, CloseLocks, CloseWrites, CloseReported, CloseUnlocks, CloseDestroys,
             CloseFrees, CloseShuts
<1>6. CASE frame[t] = Announcing
  <2>1. frame[t].pc = "meta"
    BY <1>6, AnnouncingIs
  <2>2. /\ ~Call(t) /\ ~Close(t) /\ ~Lock(t) /\ ~Feed(t) /\ ~CountSample(t) /\ ~NoWriter(t)
        /\ ~Row(t) /\ ~Window(t) /\ ~Unlock(t) /\ ~Create(t) /\ ~Wake(t) /\ ~Destroy(t)
        /\ ~Free(t) /\ ~DestroyedMP(t) /\ ~Shut(t)
    BY <2>1 DEF Call, Close, Lock, Feed, CountSample, NoWriter, Row, Window, Unlock, Finished, Create,
                Wake, Destroy, Free, DestroyedMP, Shut, Uses, Runs
  <2>3. ~Signal(t)
    BY <2>1 DEF Signal, NobodyInjectsWhileClosing
  <2>4. WriteMeta(t)
    BY <1>2, <2>2, <2>3 DEF Step
  <2> QED BY <1>6, <2>4, StartEnds
<1> QED BY <1>1, <1>3, <1>4, <1>5, <1>6 DEF AppOK

----------------------------------------------------------------------------
(* omlc_start.                                                             *)

(* Nothing but omlc_start happens before it.                               *)
LEMMA OnlyStarts ==
  ASSUME Unstarted, NEW t \in Threads, Start(t) \/ Call(t) \/ Close(t) \/ Signal(t) \/ Step(t)
  PROVE  Start(t) /\ client.up /\ DOMAIN client = ClientFields /\ ~client.started
<1>1. NoClient.up = FALSE
  BY DEF NoClient
<1>2. ~Accepts
  BY <1>1 DEF Accepts, Unstarted
<1>3. ~Call(t) /\ ~Close(t) /\ ~Signal(t)
  BY <1>2 DEF Call, Close, Signal
<1>4. frame[t].pc \in {"idle", "none"}
  BY IdleIs DEF Unstarted, At
<1>5. ~Step(t)
  BY <1>4 DEF Step, WriteMeta, Lock, Feed, CountSample, NoWriter, Row, Window, Unlock, Finished, Create,
              Wake, Destroy, Free, DestroyedMP, Shut, Uses, Runs
<1>6. Start(t) /\ client.up
  BY <1>3, <1>5 DEF Start
<1> QED BY <1>1, <1>6 DEF Unstarted

(* The threads that it starts.                                             *)
LEMMA StartedThreads ==
  ASSUME NEW c, IsList(c.threads), Len(c.threads) <= Len(FilterThreads)
  PROVE  /\ DOMAIN Started(c, 0) = Threads
         /\ \A t \in Threads :
              \/ Started(c, 0)[t] = frame[t]
              \/ t \in Range(FilterThreads) /\ \E id \in Range(c.threads) : Started(c, 0)[t] = Begun(c, id)
<1>1. PICK q : q = c.threads
  OBVIOUS
<1>2. /\ DOMAIN Started(c, 0) = Threads
      /\ \A t \in Threads :
           \/ Started(c, 0)[t] = frame[t]
           \/ /\ t \in Range(FilterThreads)
              /\ \E k \in 0 + 1..Len(q) : Started(c, 0)[t] = Begun(c, q[k])
  BY <1>1, StartedIs
<1>3. \A k \in 0 + 1..Len(q) : q[k] \in Range(q)
  <2>1. DOMAIN q = 1..Len(q)
    BY <1>1, ListIsSeq
  <2> QED BY <2>1 DEF Range
<1> QED BY <1>1, <1>2, <1>3

(* omlc_start leaves the invariant, or a client that is not up.            *)
LEMMA Starts ==
  ASSUME Unstarted, SoundlyConfigured, setup \in Setups, NEW t \in Threads, Start(t), client.up,
         DOMAIN client = ClientFields, ~client.started
  PROVE  setup' = setup /\ (Unstarted' \/ (client' # NoClient /\ Running'))
<1>1. client = Initialised(setup) /\ NoClient.up = FALSE
  BY DEF Unstarted, NoClient
<1>2. PICK c : c = OmlcStart(client, Files)
  OBVIOUS
<1>3. c.up =>
        /\ c.started /\ Linked(c)
        /\ \A m \in DOMAIN c.mpoints : c.mpoints[m].active
        /\ Len(c.mpoints) <= PointCount /\ Len(c.threads) <= Len(FilterThreads)
        /\ setup.late # <<>> => RoomFor(c, setup.late[1].name)
  BY <1>1, <1>2 DEF SoundlyConfigured
<1>4. /\ setup' = setup /\ t \in Apps /\ holder' = holder /\ freed' = freed
      /\ IF c.up THEN client' = c /\ frame' = [Started(c, 0) EXCEPT ![t] = Announcing]
                 ELSE client' = [client EXCEPT !.up = FALSE] /\ frame' = frame
  BY <1>2 DEF Start, memory
<1>5. CASE c.up
  <2>1. client' = c /\ frame' = [Started(c, 0) EXCEPT ![t] = Announcing] /\ c # NoClient
    BY <1>1, <1>4, <1>5
  <2>2. /\ DOMAIN frame' = Threads /\ frame'[t] = Announcing
        /\ \A u \in Threads \ {t} : \/ frame'[u] = frame[u]
                                    \/ /\ u \in Range(FilterThreads)
                                       /\ \E id \in Range(c.threads) : frame'[u] = Begun(c, id)
    <3>1. IsList(c.threads) /\ Len(c.threads) <= Len(FilterThreads)
      BY <1>3, <1>5 DEF Linked
    <3> QED BY <2>1, <3>1, StartedThreads
  <2>3. ASSUME NEW u \in Apps PROVE frame'[u] = IF u = t THEN Announcing ELSE Idle
    BY <2>2, ThreadsDiffer DEF Unstarted
  <2>4. ASSUME NEW u \in Range(FilterThreads) PROVE ReportOK(u, frame'[u], c, holder')
    <3>1. u \in Threads \ {t}
      BY <1>4, ThreadsDiffer
    <3>2. CASE frame'[u] = frame[u]
      <4>1. PICK f : f = At("none", "report", 0)
        OBVIOUS
      <4>2. frame'[u] = f
        BY <3>1, <3>2, <4>1, ThreadsDiffer DEF Unstarted
      <4>3. DOMAIN f = FrameFields /\ f.job = "report" /\ f.pc = "none"
        BY <4>1 DEF At, FrameFields, Idle
      <4>4. ReportOK(u, f, c, holder')
        BY <4>3 DEF ReportOK
      <4> QED BY <4>2, <4>4
    <3>3. CASE \E id \in Range(c.threads) : frame'[u] = Begun(c, id)
      <4>1. PICK id \in Range(c.threads) : frame'[u] = Begun(c, id)
        BY <3>3
      <4>2. id \in DOMAIN c.streams /\ c.mpoints[c.streams[id].mp].guarded
        BY <1>3, <1>5, <4>1 DEF Linked
      <4>3. PICK f : f = Begun(c, id)
        OBVIOUS
      <4>4. /\ DOMAIN f = FrameFields /\ f.job = "report" /\ f.pc = "sleep"
            /\ f.todo = <<id>> /\ f.mp = c.streams[id].mp
        BY <4>3 DEF Begun, At, FrameFields, Idle
      <4>5. c.mpoints[f.mp].guarded
        BY <4>2, <4>4
      <4>6. ReportOK(u, f, c, holder')
        BY <4>2, <4>4, <4>5 DEF ReportOK
      <4> QED BY <4>1, <4>3, <4>6
    <3> QED BY <2>2, <3>1, <3>2, <3>3
  <2>5. ThreadsOK'
    BY <2>1, <2>2, <2>3, <2>4 DEF ThreadsOK, AppOK, InjectOK, CloseOK, TodoOK, ReportOK
  <2>6. LinksInv'
    <3>1. DOMAIN holder' = 1..PointCount
      BY <1>4 DEF Unstarted
    <3> QED BY <1>3, <1>4, <1>5, <2>1, <3>1 DEF LinksInv, Unmade
  <2>7. AloneInv'
    <3>1. \A u \in Apps : frame'[u].job # "close" /\ ~Adds(frame'[u])
      BY <2>3, IdleIs, AnnouncingIs
    <3> QED BY <1>5, <2>1, <3>1 DEF AloneInv, Adds
  <2>8. FreedInv'
    <3>1. freed' = {}
      BY <1>4 DEF Unstarted
    <3>2. \A u \in Apps : frame'[u].job # "close"
      BY <2>3, IdleIs, AnnouncingIs
    <3> QED BY <1>5, <2>1, <3>1, <3>2 DEF FreedInv
  <2> QED BY <1>4, <2>1, <2>5, <2>6, <2>7, <2>8 DEF Running
<1>6. CASE ~c.up
  <2>1. client' = [client EXCEPT !.up = FALSE] /\ frame' = frame
    BY <1>4, <1>6
  <2>2. DOMAIN client' = ClientFields /\ ~client'.started /\ ~client'.up
    BY <2>1 DEF ClientFields
  <2>3. Unstarted'
    BY <1>4, <2>1, <2>2 DEF Unstarted
  <2> QED BY <1>4, <2>3
<1> QED BY <1>5, <1>6

----------------------------------------------------------------------------
(* The invariant.                                                          *)

(* The invariant holds at first.                                           *)
LEMMA InitHolds ==
  ASSUME SoundlyConfigured, Init
  PROVE  Inv
<1>1. setup \in Setups /\ client = Initialised(setup)
  BY DEF Init
<1>2. client = NoClient \/ (DOMAIN client = ClientFields /\ ~client.started)
  BY <1>1 DEF SoundlyConfigured
<1>3. Unstarted
  BY <1>1, <1>2 DEF Init, Unstarted
<1> QED BY <1>1, <1>3 DEF Inv

(* Every step keeps it.                                                    *)
LEMMA NextHolds ==
  ASSUME SoundlyConfigured, NobodyInjectsWhileClosing, Inv, [Next]_vars
  PROVE  Inv'
<1>1. CASE UNCHANGED vars
  <2>1. /\ setup' = setup /\ client' = client /\ frame' = frame /\ holder' = holder
        /\ freed' = freed
    BY <1>1 DEF vars, memory
  <2>2. Unstarted => Unstarted'
    BY <2>1 DEF Unstarted
  <2>3. LinksInv => LinksInv'
    BY <2>1 DEF LinksInv, Unmade
  <2>4. ThreadsOK => ThreadsOK'
    BY <2>1 DEF ThreadsOK
  <2>5. AloneInv => AloneInv'
    BY <2>1 DEF AloneInv, Unmade
  <2>6. FreedInv => FreedInv'
    BY <2>1 DEF FreedInv
  <2> QED BY <2>1, <2>2, <2>3, <2>4, <2>5, <2>6 DEF Inv, Running
<1>2. CASE Next
  <2>1. PICK t \in Threads : Start(t) \/ Call(t) \/ Close(t) \/ Signal(t) \/ Step(t)
    BY <1>2 DEF Next
  <2>2. CASE Unstarted
    <3>1. Start(t) /\ client.up /\ DOMAIN client = ClientFields /\ ~client.started
      BY <2>1, <2>2, OnlyStarts
    <3>2. setup' = setup /\ (Unstarted' \/ (client' # NoClient /\ Running'))
      BY <2>2, <3>1, Starts DEF Inv
    <3> QED BY <3>2 DEF Inv
  <2>3. CASE Running
    <3>1. t \in Apps \/ t \in Range(FilterThreads)
      BY ThreadsDiffer
    <3>2. Running'
      BY <2>1, <2>3, <3>1, AppNext, ReportNext
    <3>3. client' # NoClient
      <4>1. DOMAIN client' = ClientFields
        BY <3>2 DEF Running, LinksInv, Linked
      <4>2. "started" \in ClientFields /\ "started" \notin DOMAIN NoClient
        BY DEF ClientFields, NoClient
      <4> QED BY <4>1, <4>2
    <3>4. setup' = setup
      BY <2>1 DEF Start, Call, Close, Signal, Step, WriteMeta, Lock, Feed, CountSample, NoWriter, Row,
                  Window, Unlock, Create, Wake, Destroy, Free, DestroyedMP, Shut
    <3> QED BY <3>2, <3>3, <3>4 DEF Inv
  <2> QED BY <2>2, <2>3 DEF Inv
<1> QED BY <1>1, <1>2

(* The invariant holds of every state of the client's life, once a setup   *)
(* is configured soundly and nobody injects while another closes (api.c,   *)
(* init.c).                                                                *)
THEOREM InvHolds ==
  ASSUME SoundlyConfigured, NobodyInjectsWhileClosing
  PROVE  Spec => []Inv
<1>1. Init => Inv
  BY InitHolds
<1>2. Inv /\ [Next]_vars => Inv'
  BY NextHolds
<1> QED BY <1>1, <1>2, PTL DEF Spec

(* No thread uses a stream once omlc_close freed it.                       *)
LEMMA NoneFreedIsUsed ==
  ASSUME Inv
  PROVE  NoFreedStreamUsed
<1>1. CASE Unstarted
  BY <1>1 DEF Unstarted, NoFreedStreamUsed
<1>2. CASE Running
  <2>1. SUFFICES ASSUME NEW t \in Threads, frame[t].pc \in {"feed", "row", "window", "destroy"},
                        frame[t].todo # <<>>, Stream(t) \in freed
                 PROVE  FALSE
    BY DEF NoFreedStreamUsed
  <2>2. Linked(client)
    BY <1>2 DEF Running, LinksInv
  <2>3. CASE t \in Apps
    <3>1. AppOK(frame[t], client)
      BY <1>2, <2>3 DEF Running, ThreadsOK
    <3>2. frame[t] # Idle /\ frame[t] # Announcing
      BY <2>1, IdleIs, AnnouncingIs
    <3>3. CASE InjectOK(frame[t], client)
      BY <1>2, <2>1, <2>3, <3>3, NobodyCloses
    <3>4. CASE CloseOK(frame[t], client)
      <4>1. PICK f : f = frame[t]
        OBVIOUS
      <4>2. TodoOK(f, client) /\ f.todo # <<>>
        BY <2>1, <3>4, <4>1 DEF CloseOK
      <4>3. Stream(t) \in DOMAIN client.streams /\ Stream(t) = Head(f.todo)
        BY <4>1, <4>2, TodoTail DEF Stream
      <4>4. Destroyed(f, client, Stream(t))
        BY <1>2, <2>1, <2>3, <3>4, <4>1, <4>3, CloseFrame
      <4>5. \E i \in DOMAIN f.todo : f.todo[i] = Head(f.todo)
        <5>1. IsList(f.todo)
          BY <4>2 DEF TodoOK
        <5>2. PICK l : l = f.todo
          OBVIOUS
        <5>3. Len(l) >= 1 /\ Head(l) = l[1] /\ DOMAIN l = 1..Len(l) /\ Len(l) \in Nat
          BY <4>2, <5>1, <5>2, ListTail, ListIsSeq
        <5>4. 1 \in DOMAIN l
          BY <5>3
        <5> QED BY <5>2, <5>3, <5>4
      <4> QED BY <4>3, <4>4, <4>5 DEF Destroyed
    <3> QED BY <3>1, <3>2, <3>3, <3>4 DEF AppOK
  <2>4. CASE t \in Range(FilterThreads)
    <3>1. PICK f : f = frame[t]
      OBVIOUS
    <3>2. ReportOK(t, f, client, holder)
      BY <1>2, <2>4, <3>1 DEF Running, ThreadsOK
    <3>3. f.pc \in {"row", "window"}
      BY <2>1, <3>1, <3>2 DEF ReportOK
    <3>4. PICK id \in DOMAIN client.streams : f.todo = <<id>> /\ f.mp = client.streams[id].mp
      BY <3>2, <3>3 DEF ReportOK
    <3>5. Stream(t) = id
      BY <3>1, <3>4, ListOne DEF Stream
    <3>6. client.mpoints[client.streams[id].mp].active
      BY <3>2, <3>3, <3>4 DEF ReportOK
    <3> QED BY <1>2, <2>1, <3>5, <3>6 DEF Running, FreedInv
  <2> QED BY <2>3, <2>4, ThreadsDiffer
<1> QED BY <1>1, <1>2 DEF Inv

(* No thread uses a stream once omlc_close freed it: thread_start,         *)
(* omlc_inject and omlc_close agree on mp->active under the point's mutex  *)
(* (filter.c, api.c, init.c).                                              *)
THEOREM FreedStreamsAreNotUsed ==
  ASSUME SoundlyConfigured, NobodyInjectsWhileClosing
  PROVE  Spec => []NoFreedStreamUsed
<1>1. Inv => NoFreedStreamUsed
  BY NoneFreedIsUsed
<1>2. Spec => []Inv
  BY InvHolds
<1> QED BY <1>1, <1>2, PTL

----------------------------------------------------------------------------
(* What omlc_close flushes.                                                *)

(* What a stream was given is in its rows.                                 *)
UpToDate(id) == seen[id] = <<>> \/ (cuts[id] # <<>> /\ Last(cuts[id]) = Len(seen[id]))

(* A stream that reports by samples, and has somebody to report to.        *)
Sampled(id) == client.streams[id].thres > 0 /\ client.streams[id].writers # <<>>

(* A thread has given it a sample, and is to count it.                     *)
Feeds(f, id) == f.pc = "feed" /\ f.todo # <<>> /\ Head(f.todo) = id /\ f.k > 1

(* A thread is about to free it.                                           *)
Frees(f, id) == f.job = "close" /\ f.pc = "free" /\ Head(f.todo) = id

(* The histories are of the client's streams.                              *)
Recorded ==
  /\ IsList(seen) /\ DOMAIN seen = DOMAIN client.streams
  /\ IsList(cuts) /\ DOMAIN cuts = DOMAIN client.streams
  /\ \A id \in DOMAIN client.streams : IsList(cuts[id])
  /\ \A t \in Apps : frame[t].k \in Nat

(* No sample of a stream is lost, and none is left when it is freed.       *)
Covered(id) ==
  /\ UpToDate(id) \/ client.streams[id].size > 0 \/ \E t \in Apps : Feeds(frame[t], id)
  /\ id \in freed \/ (\E t \in Apps : Frees(frame[t], id)) => UpToDate(id)

(* This holds of the streams that report by samples,                       *)
FlushInv == Recorded /\ \A id \in DOMAIN client.streams : Sampled(id) => Covered(id)

(* once the client was started.                                            *)
SampleInv == client # NoClient /\ client.started => FlushInv

(* A step that leaves the samples of a stream alone,                       *)
Unseen(id) == seen'[id] = seen[id] /\ cuts'[id] = cuts[id]

(* and one that neither forgets them nor frees it too early.               *)
Spares(f, g, id) ==
  /\ client.streams[id].size > 0 => client'.streams[id].size > 0
  /\ Feeds(f, id) => Feeds(g, id) \/ client'.streams[id].size > 0
  /\ id \in freed' => id \in freed \/ UpToDate(id)
  /\ Frees(g, id) => UpToDate(id)

(* The step of one thread of the application, by what it does to each      *)
(* stream that it concerns.                                                *)
LEMMA FlushSteps ==
  ASSUME FlushInv, Recorded', SameStreams(client, client'), DOMAIN frame = Threads, Apps \subseteq Threads,
         NEW t \in Apps, NEW g, frame' = [frame EXCEPT ![t] = g],
         \A id \in DOMAIN client.streams : Sampled(id) =>
           (Unseen(id) /\ Spares(frame[t], g, id)) \/ Covered(id)'
  PROVE  FlushInv'
<1>1. frame'[t] = g /\ \A u \in Apps \ {t} : frame'[u] = frame[u]
  OBVIOUS
<1>2. DOMAIN client'.streams = DOMAIN client.streams
  BY DEF SameStreams
<1>3. ASSUME NEW id \in DOMAIN client.streams, Sampled(id)' PROVE Covered(id)'
  <2>1. Sampled(id) /\ Covered(id)
    BY <1>3 DEF Sampled, SameStreams, FlushInv
  <2>2. CASE Unseen(id) /\ Spares(frame[t], g, id)
    <3>1. UpToDate(id)' <=> UpToDate(id)
      BY <2>2 DEF UpToDate, Unseen
    <3>2. UpToDate(id)' \/ client'.streams[id].size > 0 \/ \E u \in Apps : Feeds(frame'[u], id)
      <4>1. ASSUME NEW u \in Apps, Feeds(frame[u], id)
            PROVE  client'.streams[id].size > 0 \/ Feeds(frame'[u], id)
        BY <1>1, <2>2, <4>1 DEF Spares
      <4> QED BY <2>1, <2>2, <3>1, <4>1 DEF Covered, Spares
    <3>3. id \in freed' \/ (\E u \in Apps : Frees(frame'[u], id)) => UpToDate(id)'
      <4>1. ASSUME NEW u \in Apps, Frees(frame'[u], id)
            PROVE  UpToDate(id)
        BY <1>1, <2>1, <2>2, <4>1 DEF Covered, Spares
      <4> QED BY <2>1, <2>2, <3>1, <4>1 DEF Covered, Spares
    <3> QED BY <3>2, <3>3 DEF Covered, Feeds, Frees
  <2> QED BY <2>1, <2>2
<1> QED BY <1>2, <1>3 DEF FlushInv

(* So does a step of a filtering thread.                                   *)
LEMMA FlushStepsApart ==
  ASSUME FlushInv, Recorded', SameStreams(client, client'), \A u \in Apps : frame'[u] = frame[u],
         freed' = freed,
         \A id \in DOMAIN client.streams :
           \/ Unseen(id) /\ (client.streams[id].size > 0 => client'.streams[id].size > 0)
           \/ UpToDate(id)'
  PROVE  FlushInv'
<1>1. DOMAIN client'.streams = DOMAIN client.streams
  BY DEF SameStreams
<1>2. ASSUME NEW id \in DOMAIN client.streams, Sampled(id)' PROVE Covered(id)'
  <2>1. Sampled(id) /\ Covered(id)
    BY <1>2 DEF Sampled, SameStreams, FlushInv
  <2>2. CASE UpToDate(id)'
    BY <2>2 DEF Covered
  <2>3. CASE Unseen(id) /\ (client.streams[id].size > 0 => client'.streams[id].size > 0)
    <3>1. UpToDate(id)' <=> UpToDate(id)
      BY <2>3 DEF UpToDate, Unseen
    <3>2. /\ (\E u \in Apps : Feeds(frame[u], id)) <=> (\E u \in Apps : Feeds(frame'[u], id))
          /\ (\E u \in Apps : Frees(frame[u], id)) <=> (\E u \in Apps : Frees(frame'[u], id))
      OBVIOUS
    <3> QED BY <2>1, <2>3, <3>1, <3>2 DEF Covered, Feeds, Frees
  <2> QED BY <2>2, <2>3
<1> QED BY <1>1, <1>2 DEF FlushInv

(* Where only threads and the client change.                               *)
LEMMA StillRecorded ==
  ASSUME Recorded, seen' = seen, cuts' = cuts, DOMAIN client'.streams = DOMAIN client.streams,
         \A t \in Apps : frame'[t].k \in Nat
  PROVE  Recorded'
BY DEF Recorded

(* A step that neither feeds nor frees a stream.                           *)
LEMMA FlushStays ==
  ASSUME Running, FlushInv, seen' = seen, cuts' = cuts, freed' = freed, SameLinks(client, client'),
         \A id \in DOMAIN client.streams : client'.streams[id].size = client.streams[id].size,
         NEW t \in Apps, NEW g, frame' = [frame EXCEPT ![t] = g], g.k \in Nat,
         \A id \in DOMAIN client.streams : Sampled(id) => ~Feeds(frame[t], id) /\ ~Frees(g, id)
  PROVE  FlushInv'
<1>1. DOMAIN frame = Threads /\ Apps \subseteq Threads
  BY DEF Running, ThreadsOK, Threads
<1>2. SameStreams(client, client') /\ DOMAIN client'.streams = DOMAIN client.streams
  BY DEF SameLinks, SameStreams
<1>3. \A u \in Apps : frame'[u].k \in Nat
  <2>1. \A u \in Apps : frame[u].k \in Nat
    BY DEF FlushInv, Recorded
  <2> QED BY <1>1, <2>1
<1>4. Recorded'
  BY <1>2, <1>3, StillRecorded DEF FlushInv
<1>5. \A id \in DOMAIN client.streams : Sampled(id) => Unseen(id) /\ Spares(frame[t], g, id)
  BY DEF Unseen, Spares
<1> QED BY <1>1, <1>2, <1>4, <1>5, FlushSteps

(* The same, of a filtering thread.                                        *)
LEMMA FlushStaysApart ==
  ASSUME Running, FlushInv, seen' = seen, cuts' = cuts, freed' = freed, SameLinks(client, client'),
         \A id \in DOMAIN client.streams : client'.streams[id].size = client.streams[id].size,
         NEW t \in Range(FilterThreads), NEW g, frame' = [frame EXCEPT ![t] = g]
  PROVE  FlushInv'
<1>1. \A u \in Apps : frame'[u] = frame[u]
  BY ThreadsDiffer DEF Running, ThreadsOK
<1>2. SameStreams(client, client') /\ DOMAIN client'.streams = DOMAIN client.streams
  BY DEF SameLinks, SameStreams
<1>3. Recorded'
  BY <1>1, <1>2, StillRecorded DEF FlushInv, Recorded
<1> QED BY <1>1, <1>2, <1>3, FlushStepsApart DEF Unseen

(* The stream that a thread is at.                                         *)
LEMMA UsedStream ==
  ASSUME Running, NEW t \in Threads, frame[t].pc \in {"feed", "row", "window", "destroy", "free"},
         frame[t].todo # <<>>
  PROVE  Stream(t) \in DOMAIN client.streams /\ Linked(client)
<1>1. CASE t \in Apps
  <2>1. AppOK(frame[t], client) /\ frame[t] # Idle /\ frame[t] # Announcing
    BY <1>1, IdleIs, AnnouncingIs DEF Running, ThreadsOK
  <2>2. TodoOK(frame[t], client)
    BY <2>1 DEF AppOK, InjectOK, CloseOK
  <2> QED BY <2>2, TodoTail DEF Stream, Running, LinksInv
<1>2. CASE t \in Range(FilterThreads)
  BY <1>2, ReportFrame
<1> QED BY <1>1, <1>2, ThreadsDiffer

(* The fields of a frame.                                                  *)
LEMMA AppFrame ==
  ASSUME Running, NEW t \in Apps
  PROVE  /\ t \in Threads /\ DOMAIN frame = Threads /\ DOMAIN frame[t] = FrameFields
         /\ frame[t].pc \in {"idle", "meta"} \/ frame[t].job \in {"inject", "close"}
         /\ Linked(client)
<1>1. AppOK(frame[t], client) /\ DOMAIN frame = Threads /\ t \in Threads /\ Linked(client)
  BY ThreadsDiffer DEF Running, ThreadsOK, LinksInv
<1>2. /\ DOMAIN frame[t] = FrameFields
      /\ frame[t].pc \in {"idle", "meta"} \/ frame[t].job \in {"inject", "close"}
  BY <1>1, IdleIs, AnnouncingIs DEF AppOK, InjectOK, CloseOK, FrameFields
<1> QED BY <1>1, <1>2

(* The steps of an application.                                            *)
LEMMA FlushBegins ==
  ASSUME Running, FlushInv, NEW t \in Apps, Call(t) \/ Close(t) \/ Signal(t),
         NobodyInjectsWhileClosing
  PROVE  FlushInv'
<1>1. frame[t].pc = "idle" /\ Linked(client)
  BY AppFrame DEF Call, Close, Signal, Runs, NobodyInjectsWhileClosing
<1>2. /\ seen' = seen /\ cuts' = cuts /\ freed' = freed /\ client' = client
  BY DEF Call, Close, Signal, history, memory
<1>3. /\ SameLinks(client, client')
      /\ \A id \in DOMAIN client.streams : client'.streams[id].size = client.streams[id].size
  BY <1>1, <1>2, SameItself
<1>4. PICK g : frame' = [frame EXCEPT ![t] = g] /\ g.k = 1 /\ g.pc = "lock"
  <2>1. CASE Inject(t)
    <3>1. PICK m, v : Moves(t, [At("lock", "inject", m) EXCEPT !.v = v])
      BY <2>1 DEF Inject
    <3>2. PICK g : g = [At("lock", "inject", m) EXCEPT !.v = v]
      OBVIOUS
    <3>3. g.k = 1 /\ g.pc = "lock"
      BY <3>2 DEF At
    <3>4. frame' = [frame EXCEPT ![t] = g]
      BY <3>1, <3>2 DEF Moves
    <3> QED BY <3>3, <3>4
  <2>2. CASE InjectMetadata(t)
    <3>1. PICK v : Moves(t, [At("lock", "inject", Schema0) EXCEPT !.v = v])
      BY <2>2 DEF InjectMetadata
    <3>2. PICK g : g = [At("lock", "inject", Schema0) EXCEPT !.v = v]
      OBVIOUS
    <3>3. g.k = 1 /\ g.pc = "lock"
      BY <3>2 DEF At
    <3>4. frame' = [frame EXCEPT ![t] = g]
      BY <3>1, <3>2 DEF Moves
    <3> QED BY <3>3, <3>4
  <2>3. CASE AddLate(t)
    <3>1. PICK v : Moves(t, [At("lock", "inject", Schema0) EXCEPT !.v = v, !.add = TRUE])
      BY <2>3 DEF AddLate
    <3>2. PICK g : g = [At("lock", "inject", Schema0) EXCEPT !.v = v, !.add = TRUE]
      OBVIOUS
    <3>3. g.k = 1 /\ g.pc = "lock"
      BY <3>2 DEF At
    <3>4. frame' = [frame EXCEPT ![t] = g]
      BY <3>1, <3>2 DEF Moves
    <3> QED BY <3>3, <3>4
  <2>4. CASE Close(t)
    <3>1. Moves(t, At("lock", "close", 1))
      BY <2>4 DEF Close
    <3>2. PICK g : g = At("lock", "close", 1)
      OBVIOUS
    <3>3. g.k = 1 /\ g.pc = "lock"
      BY <3>2 DEF At
    <3>4. frame' = [frame EXCEPT ![t] = g]
      BY <3>1, <3>2 DEF Moves
    <3> QED BY <3>3, <3>4
  <2>5. CASE Signal(t)
    <3>1. Moves(t, [At("lock", "close", 1) EXCEPT !.add = TRUE])
      BY <2>5 DEF Signal
    <3>2. PICK g : g = [At("lock", "close", 1) EXCEPT !.add = TRUE]
      OBVIOUS
    <3>3. g.k = 1 /\ g.pc = "lock"
      BY <3>2 DEF At
    <3>4. frame' = [frame EXCEPT ![t] = g]
      BY <3>1, <3>2 DEF Moves
    <3> QED BY <3>3, <3>4
  <2> QED BY <2>1, <2>2, <2>3, <2>4, <2>5 DEF Call
<1>5. \A id : ~Feeds(frame[t], id) /\ ~Frees(g, id)
  <2>1. frame[t].pc # "feed" /\ g.pc # "free"
    BY <1>1, <1>4
  <2> QED BY <2>1 DEF Feeds, Frees
<1>6. g.k \in Nat /\ frame' = [frame EXCEPT ![t] = g]
  BY <1>4
<1>7. seen' = seen /\ cuts' = cuts /\ freed' = freed
  BY <1>2
<1> QED BY <1>3, <1>5, <1>6, <1>7, FlushStays

(* The mutex is taken;                                                     *)
LEMMA FlushLocks ==
  ASSUME Running, FlushInv, NEW t \in Apps, Lock(t)
  PROVE  FlushInv'
<1> PICK f : f = frame[t]
  OBVIOUS
<1>1. /\ f.pc = "lock" /\ DOMAIN f = FrameFields /\ f.job \in {"inject", "close"} /\ f.k \in Nat
      /\ Linked(client)
  BY AppFrame, IdleIs DEF Lock, Runs, FlushInv, Recorded
<1>2. /\ seen' = seen /\ cuts' = cuts /\ freed' = freed
  BY DEF Lock, history, memory
<1>3. SameLinks(client, client') /\ client'.streams = client.streams
  <2>1. CASE f.job = "close"
    <3>1. f.mp \in DOMAIN client.mpoints
      <4>1. AppOK(f, client) /\ f # Idle /\ f # Announcing
        BY <1>1, IdleIs, AnnouncingIs DEF Running, ThreadsOK
      <4> QED BY <1>1, <4>1 DEF AppOK, InjectOK, CloseOK
    <3>2. client' = Stopped(client, f.mp)
      BY <2>1 DEF Lock, Stopped
    <3> QED BY <1>1, <3>1, <3>2, PointStops
  <2>2. CASE f.job # "close"
    BY <1>1, <2>2, SameItself DEF Lock
  <2> QED BY <2>1, <2>2
<1>4. PICK g : g = Locked(t)
  OBVIOUS
<1>5. frame' = [frame EXCEPT ![t] = g]
  BY <1>4 DEF Lock, Moves
<1>6. g.k = f.k /\ g.pc \in {"feed", "destroy"}
  <2>1. \/ g = [f EXCEPT !.pc = "feed", !.todo = client.mpoints[f.mp].streams]
        \/ g = [f EXCEPT !.pc = "destroy", !.todo = client.mpoints[f.mp].streams]
    BY <1>1, <1>4 DEF Locked
  <2> QED BY <1>1, <2>1, IdleIs DEF FrameFields
<1>7. \A id \in DOMAIN client.streams : Sampled(id) => ~Feeds(frame[t], id) /\ ~Frees(g, id)
  BY <1>1, <1>6 DEF Feeds, Frees
<1> QED BY <1>1, <1>2, <1>3, <1>5, <1>6, <1>7, FlushStays

(* a row is written;                                                       *)
LEMMA FlushRows ==
  ASSUME Running, FlushInv, NEW t \in Apps, Row(t)
  PROVE  FlushInv'
<1> PICK f : f = frame[t]
  OBVIOUS
<1>1. /\ f.pc = "row" /\ f.todo # <<>> /\ DOMAIN f = FrameFields /\ f.k \in Nat /\ t \in Threads
  BY AppFrame DEF Row, Uses, Runs, FlushInv, Recorded
<1>2. /\ seen' = seen /\ cuts' = cuts /\ freed' = freed
  BY DEF Row, memory
<1>3. /\ SameLinks(client, client')
      /\ \A id \in DOMAIN client.streams : client'.streams[id].size = client.streams[id].size
  BY <1>1, UsedStream, RowClient
<1>4. PICK pc, n : n = f.k + 1 /\ pc = IF f.k = Len(client.streams[Stream(t)].writers) THEN "window" ELSE f.pc
  OBVIOUS
<1>5. PICK g : g = [f EXCEPT !.k = n, !.pc = pc]
  OBVIOUS
<1>6. frame' = [frame EXCEPT ![t] = g]
  BY <1>4, <1>5 DEF Row, Moves
<1>7. g.k \in Nat /\ g.pc # "free"
  <2>1. g.k = n /\ g.pc = pc
    BY <1>1, <1>5, IdleIs DEF FrameFields
  <2> QED BY <1>1, <1>4, <2>1
<1>8. \A id : ~Feeds(frame[t], id) /\ ~Frees(g, id)
  BY <1>1, <1>7 DEF Feeds, Frees
<1> QED BY <1>2, <1>3, <1>6, <1>7, <1>8, FlushStays

(* A list of which one element changes.                                    *)
LEMMA ListExcept ==
  ASSUME NEW l, IsList(l), NEW i \in DOMAIN l, NEW e
  PROVE  /\ IsList([l EXCEPT ![i] = e]) /\ DOMAIN [l EXCEPT ![i] = e] = DOMAIN l
         /\ [l EXCEPT ![i] = e][i] = e
         /\ \A j \in DOMAIN l \ {i} : [l EXCEPT ![i] = e][j] = l[j]
<1>1. PICK q : q = [l EXCEPT ![i] = e]
  OBVIOUS
<1>2. DOMAIN l = 1..Len(l) /\ Len(l) \in Nat
  BY ListIsSeq
<1>3. DOMAIN q = DOMAIN l /\ q[i] = e /\ \A j \in DOMAIN l \ {i} : q[j] = l[j]
  BY <1>1
<1>4. q = [j \in 1..Len(l) |-> q[j]]
  BY <1>1, <1>2
<1>5. IsList(q)
  BY <1>2, <1>4, ListIntro
<1> QED BY <1>1, <1>3, <1>5

(* A window ends: what the stream was given is in its rows.                *)
LEMMA WindowCuts ==
  ASSUME Recorded, NEW t, NEW id \in DOMAIN client.streams, id = Stream(t), Window(t),
         DOMAIN client'.streams = DOMAIN client.streams, \A u \in Apps : frame'[u].k \in Nat
  PROVE  /\ Recorded' /\ UpToDate(id)'
         /\ \A i \in DOMAIN client.streams \ {id} : Unseen(i)
<1>1. PICK n : n = Len(seen[id])
  OBVIOUS
<1>2. PICK l : l = Append(cuts[id], n)
  OBVIOUS
<1>3. seen' = seen /\ cuts' = [cuts EXCEPT ![id] = l]
  BY <1>1, <1>2 DEF Window
<1>4. IsList(l) /\ l # <<>> /\ Last(l) = n
  BY <1>1, <1>2, ListAppend DEF Recorded
<1>5. /\ IsList(cuts') /\ DOMAIN cuts' = DOMAIN cuts /\ cuts'[id] = l
      /\ \A i \in DOMAIN cuts \ {id} : cuts'[i] = cuts[i]
  <2>1. IsList(cuts) /\ id \in DOMAIN cuts
    BY <1>1 DEF Recorded
  <2> QED BY <1>3, <2>1, ListExcept
<1>6. Recorded'
  <2>1. \A i \in DOMAIN client.streams : IsList(cuts'[i])
    BY <1>4, <1>5 DEF Recorded
  <2> QED BY <1>3, <1>5, <2>1 DEF Recorded
<1>7. UpToDate(id)'
  <2>1. cuts'[id] # <<>> /\ Last(cuts'[id]) = Len(seen'[id])
    BY <1>1, <1>3, <1>4, <1>5
  <2> QED BY <2>1 DEF UpToDate
<1>8. \A i \in DOMAIN client.streams \ {id} : Unseen(i)
  BY <1>3, <1>5 DEF Recorded, Unseen
<1> QED BY <1>6, <1>7, <1>8

(* It goes on with the next stream, or to free this one.                   *)
LEMMA ReportedIs ==
  ASSUME NEW f, DOMAIN f = FrameFields, f.job \in {"inject", "close"}, f.k \in Nat, NEW g, g = Reported(f)
  PROVE  g.k \in Nat /\ (g.pc = "free" => g.todo = f.todo)
<1>1. CASE f.job = "inject"
  <2>1. g = [f EXCEPT !.pc = "feed", !.todo = Tail(@), !.k = 1]
    BY <1>1 DEF Reported
  <2>2. g.k = 1 /\ g.pc = "feed"
    BY <2>1, IdleIs DEF FrameFields
  <2> QED BY <2>2
<1>2. CASE f.job = "close"
  <2>1. g = [f EXCEPT !.pc = "free"]
    BY <1>2 DEF Reported
  <2>2. g.k = f.k /\ g.todo = f.todo
    BY <2>1, IdleIs DEF FrameFields
  <2> QED BY <2>2
<1> QED BY <1>1, <1>2

(* a window ends, with everything that the stream was given in its rows;   *)
LEMMA FlushWindows ==
  ASSUME Running, FlushInv, NEW t \in Apps, Window(t)
  PROVE  FlushInv'
<1> PICK f, id : f = frame[t] /\ id = Stream(t)
  OBVIOUS
<1>1. /\ f.pc = "window" /\ f.todo # <<>> /\ DOMAIN f = FrameFields /\ t \in Threads
      /\ f.job \in {"inject", "close"} /\ f.k \in Nat /\ DOMAIN frame = Threads /\ Apps \subseteq Threads
      /\ \A u \in Apps : frame[u].k \in Nat
  BY AppFrame, IdleIs DEF Window, Uses, Runs, FlushInv, Recorded, Threads
<1>2. id \in DOMAIN client.streams /\ Linked(client) /\ id = Head(f.todo)
  BY <1>1, UsedStream DEF Stream
<1>3. /\ SameStreams(client, client') /\ DOMAIN client'.streams = DOMAIN client.streams
      /\ \A i \in DOMAIN client.streams \ {id} : client'.streams[i].size = client.streams[i].size
  BY <1>2, WindowClient DEF SameLinks, SameStreams
<1>4. PICK g : g = Reported(f)
  OBVIOUS
<1>5. frame' = [frame EXCEPT ![t] = g] /\ freed' = freed
  BY <1>4 DEF Window, Moves, memory
<1>6. g.k \in Nat /\ (g.pc = "free" => g.todo = f.todo)
  BY <1>1, <1>4, ReportedIs
<1>7. \A u \in Apps : frame'[u].k \in Nat
  BY <1>1, <1>5, <1>6
<1>8. /\ Recorded' /\ UpToDate(id)' /\ \A i \in DOMAIN client.streams \ {id} : Unseen(i)
  BY <1>2, <1>3, <1>7, WindowCuts DEF FlushInv
<1>9. \A i \in DOMAIN client.streams \ {id} : Spares(f, g, i)
  <2>1. \A i : ~Feeds(f, i)
    BY <1>1 DEF Feeds
  <2>2. \A i : Frees(g, i) => i = id
    BY <1>2, <1>6 DEF Frees
  <2> QED BY <1>3, <1>5, <2>1, <2>2 DEF Spares
<1>10. Covered(id)'
  BY <1>8 DEF Covered
<1>11. \A i \in DOMAIN client.streams : (Unseen(i) /\ Spares(frame[t], g, i)) \/ Covered(i)'
  <2>1. ASSUME NEW i \in DOMAIN client.streams
        PROVE  (Unseen(i) /\ Spares(frame[t], g, i)) \/ Covered(i)'
    <3>1. CASE i = id
      BY <1>10, <3>1
    <3>2. CASE i # id
      BY <1>8, <1>9, <3>2
    <3> QED BY <3>1, <3>2
  <2> QED BY <2>1
<1> QED BY <1>1, <1>3, <1>5, <1>8, <1>11, FlushSteps

(* or there is no writer, and then nothing to account for;                 *)
LEMMA FlushNoWriter ==
  ASSUME Running, FlushInv, NEW t \in Apps, NoWriter(t)
  PROVE  FlushInv'
<1> PICK f, id : f = frame[t] /\ id = Stream(t)
  OBVIOUS
<1>1. /\ f.pc = "row" /\ f.todo # <<>> /\ DOMAIN f = FrameFields /\ t \in Threads
      /\ f.job \in {"inject", "close"} /\ f.k \in Nat
  BY AppFrame, IdleIs DEF NoWriter, Uses, Runs, FlushInv, Recorded
<1>2. /\ id \in DOMAIN client.streams /\ Linked(client) /\ id = Head(f.todo)
      /\ client.streams[id].writers = <<>>
  BY <1>1, UsedStream DEF Stream, NoWriter
<1>3. /\ client' = client /\ freed' = freed /\ seen' = seen /\ cuts' = cuts
  BY DEF NoWriter, history, memory
<1>4. /\ SameLinks(client, client')
      /\ \A i \in DOMAIN client.streams : client'.streams[i].size = client.streams[i].size
  BY <1>2, <1>3, SameItself
<1>5. PICK g : g = Reported(f)
  OBVIOUS
<1>6. frame' = [frame EXCEPT ![t] = g]
  BY <1>1, <1>5 DEF NoWriter, Moves
<1>7. g.k \in Nat /\ (g.pc = "free" => g.todo = f.todo)
  BY <1>1, <1>5, ReportedIs
<1>8. \A i \in DOMAIN client.streams : Sampled(i) => ~Feeds(f, i) /\ ~Frees(g, i)
  <2>1. \A i : ~Feeds(f, i)
    BY <1>1 DEF Feeds
  <2>2. \A i : Frees(g, i) => i = id
    BY <1>2, <1>7 DEF Frees
  <2>3. ~Sampled(id)
    BY <1>2 DEF Sampled
  <2> QED BY <2>1, <2>2, <2>3
<1>9. seen' = seen /\ cuts' = cuts /\ freed' = freed
  BY <1>3
<1> QED BY <1>4, <1>6, <1>7, <1>8, <1>9, FlushStays

(* the point is done with;                                                 *)
LEMMA FlushUnlocks ==
  ASSUME Running, FlushInv, NEW t \in Apps, Unlock(t)
  PROVE  FlushInv'
<1> PICK f : f = frame[t]
  OBVIOUS
<1>1. /\ Finished(t) /\ DOMAIN f = FrameFields /\ Linked(client)
      /\ f.job \in {"inject", "close"} /\ f.k \in Nat
  BY AppFrame, IdleIs DEF Unlock, Finished, FlushInv, Recorded
<1>2. \A i : ~Feeds(f, i)
  BY <1>1 DEF Finished, Feeds
<1>3. PICK g \in After(f) :
        /\ Moves(t, g)
        /\ client' = IF g.job = "inject" /\ g.mp = ClientInstr THEN [client EXCEPT !.instr_time = 1]
                                                               ELSE client
  BY DEF Unlock
<1>4. /\ SameLinks(client, client')
      /\ \A i \in DOMAIN client.streams : client'.streams[i].size = client.streams[i].size
  <2>1. SameLinks(client, client') /\ client'.streams = client.streams
    BY <1>1, <1>3, SameItself, TimeChanges
  <2> QED BY <2>1
<1>5. g.k \in Nat /\ g.pc # "free"
  <2>1. CASE f.job = "inject"
    <3> DEFINE r == [At("lock", "inject", ClientInstr) EXCEPT !.v = <<0>>, !.add = f.add]
               q == [f EXCEPT !.pc = "create"]
    <3>1. g = r \/ g = q \/ g = Idle
      BY <1>3, <2>1 DEF After, AfterInject
    <3>2. r.k = 1 /\ r.pc = "lock" /\ Idle.k = 1 /\ Idle.pc = "idle"
      BY DEF At, Idle
    <3>3. q.k = f.k /\ q.pc = "create"
      BY <1>1, IdleIs DEF FrameFields
    <3> HIDE DEF r, q
    <3> QED BY <1>1, <3>1, <3>2, <3>3
  <2>2. CASE f.job = "close"
    <3>1. PICK pc, m : g = [f EXCEPT !.pc = pc, !.mp = m] /\ pc \in {"lock", "shut"}
      BY <1>3, <2>2 DEF After
    <3>2. g.k = f.k /\ g.pc = pc
      BY <1>1, <3>1, IdleIs DEF FrameFields
    <3> QED BY <1>1, <3>1, <3>2
  <2> QED BY <1>1, <2>1, <2>2
<1>6. frame' = [frame EXCEPT ![t] = g]
  BY <1>3 DEF Moves
<1>7. seen' = seen /\ cuts' = cuts /\ freed' = freed
  BY DEF Unlock, history, memory
<1>8. \A i : ~Frees(g, i)
  BY <1>5 DEF Frees
<1> QED BY <1>2, <1>4, <1>5, <1>6, <1>7, <1>8, FlushStays

(* the client is shut.                                                     *)
LEMMA FlushShuts ==
  ASSUME Running, FlushInv, NEW t \in Apps, Shut(t)
  PROVE  FlushInv'
<1>1. frame[t].pc = "shut" /\ Linked(client)
  BY AppFrame DEF Shut, Runs
<1>2. /\ SameLinks(client, client')
      /\ \A i \in DOMAIN client.streams : client'.streams[i].size = client.streams[i].size
  <2>1. PICK c, d : c = client /\ d = client'
    OBVIOUS
  <2>2. d = [c EXCEPT !.up = FALSE] /\ Linked(c)
    BY <1>1, <2>1 DEF Shut
  <2>3. SameLinks(c, d) /\ d.streams = c.streams
    BY <2>2, ShutClient
  <2> QED BY <2>1, <2>3
<1>3. frame' = [frame EXCEPT ![t] = Idle] /\ Idle.k \in Nat /\ Idle.pc = "idle"
  BY DEF Shut, Moves, Idle, At
<1>4. \A i : ~Feeds(frame[t], i) /\ ~Frees(Idle, i)
  BY <1>1, <1>3 DEF Feeds, Frees
<1>5. seen' = seen /\ cuts' = cuts /\ freed' = freed
  BY DEF Shut, history
<1> QED BY <1>2, <1>3, <1>4, <1>5, FlushStays

(* A sample is counted.                                                    *)
LEMMA FlushCounts ==
  ASSUME Running, FlushInv, NEW t \in Apps, InjectOK(frame[t], client), CountSample(t)
  PROVE  FlushInv'
<1> PICK f, id : f = frame[t] /\ id = Stream(t)
  OBVIOUS
<1>1. /\ f.pc = "feed" /\ f.todo # <<>> /\ DOMAIN f = FrameFields /\ f.job = "inject"
      /\ t \in Threads /\ DOMAIN frame = Threads /\ Apps \subseteq Threads
      /\ \A u \in Apps : frame[u].k \in Nat
  BY AppFrame DEF CountSample, Uses, Runs, FlushInv, Recorded, Threads, InjectOK
<1>2. id \in DOMAIN client.streams /\ Linked(client) /\ id = Head(f.todo)
  BY <1>1, UsedStream DEF Stream
<1>3. /\ SameStreams(client, client') /\ DOMAIN client'.streams = DOMAIN client.streams
      /\ client'.streams[id].size = IF client.streams[id].thres > 0 THEN client.streams[id].size + 1
                                                                    ELSE client.streams[id].size
      /\ \A i \in DOMAIN client.streams \ {id} : client'.streams[i].size = client.streams[i].size
  BY <1>2, CountClient DEF SameLinks, SameStreams
<1>4. client.streams[id].thres > 0 => client'.streams[id].size > 0
  <2>1. client.streams[id].size \in Nat
    BY <1>2 DEF Linked
  <2> QED BY <1>3, <2>1
<1>5. PICK g : g = IF Reports(client.streams[id]) THEN [f EXCEPT !.pc = "row", !.k = 1]
                                                  ELSE [f EXCEPT !.todo = Tail(@), !.k = 1]
  OBVIOUS
<1>6. frame' = [frame EXCEPT ![t] = g]
  BY <1>5 DEF CountSample, Moves
<1>7. g.k = 1 /\ g.job = "inject"
  BY <1>1, <1>5, IdleIs DEF FrameFields
<1>8. seen' = seen /\ cuts' = cuts /\ freed' = freed
  BY DEF CountSample, history, memory
<1>9. Recorded'
  <2>1. \A u \in Apps : frame'[u].k \in Nat
    BY <1>1, <1>6, <1>7
  <2> QED BY <1>3, <1>8, <2>1, StillRecorded DEF FlushInv
<1>10. ASSUME NEW i \in DOMAIN client.streams, Sampled(i)
       PROVE  Unseen(i) /\ Spares(f, g, i)
  <2>1. Unseen(i)
    BY <1>8 DEF Unseen
  <2>2. ~Frees(g, i)
    BY <1>7 DEF Frees
  <2>3. CASE i = id
    <3>1. client'.streams[i].size > 0
      BY <1>4, <1>10, <2>3 DEF Sampled
    <3> QED BY <1>8, <2>1, <2>2, <3>1 DEF Spares
  <2>4. CASE i # id
    <3>1. ~Feeds(f, i) /\ client'.streams[i].size = client.streams[i].size
      BY <1>2, <1>3, <2>4 DEF Feeds
    <3> QED BY <1>8, <2>1, <2>2, <3>1 DEF Spares
  <2> QED BY <2>3, <2>4
<1> QED BY <1>1, <1>3, <1>6, <1>9, <1>10, FlushSteps

(* A filter is fed; the first of them is where the stream gets the sample. *)
LEMMA FeedSeen ==
  ASSUME Recorded, NEW t, NEW id \in DOMAIN client.streams, id = Stream(t), Feed(t),
         DOMAIN client'.streams = DOMAIN client.streams, \A u \in Apps : frame'[u].k \in Nat
  PROVE  /\ Recorded' /\ \A i \in DOMAIN client.streams \ {id} : Unseen(i)
         /\ frame[t].k # 1 => Unseen(id)
<1>1. PICK l : l = Append(seen[id], frame[t].v)
  OBVIOUS
<1>2. cuts' = cuts /\ seen' = IF frame[t].k = 1 THEN [seen EXCEPT ![id] = l] ELSE seen
  BY <1>1 DEF Feed
<1>3. /\ IsList(seen') /\ DOMAIN seen' = DOMAIN seen
      /\ \A i \in DOMAIN seen \ {id} : seen'[i] = seen[i]
      /\ frame[t].k # 1 => seen' = seen
  <2>1. IsList(seen) /\ id \in DOMAIN seen
    BY DEF Recorded
  <2>2. CASE frame[t].k = 1
    <3>1. seen' = [seen EXCEPT ![id] = l]
      BY <1>2, <2>2
    <3> QED BY <2>1, <2>2, <3>1, ListExcept
  <2>3. CASE frame[t].k # 1
    <3>1. seen' = seen
      BY <1>2, <2>3
    <3> QED BY <2>1, <3>1
  <2> QED BY <2>2, <2>3
<1>4. Recorded'
  BY <1>2, <1>3 DEF Recorded
<1> QED BY <1>2, <1>3, <1>4 DEF Recorded, Unseen

(* The others are fed by a thread that has still to count the sample.      *)
LEMMA FlushFeeds ==
  ASSUME Running, FlushInv, NEW t \in Apps, InjectOK(frame[t], client), Feed(t)
  PROVE  FlushInv'
<1> PICK f, id : f = frame[t] /\ id = Stream(t)
  OBVIOUS
<1>1. /\ f.pc = "feed" /\ f.todo # <<>> /\ DOMAIN f = FrameFields /\ f.job = "inject"
      /\ t \in Threads /\ DOMAIN frame = Threads /\ Apps \subseteq Threads /\ f.k \in Nat
      /\ \A u \in Apps : frame[u].k \in Nat
  BY AppFrame DEF Feed, Uses, Runs, FlushInv, Recorded, Threads, InjectOK
<1>2. id \in DOMAIN client.streams /\ Linked(client) /\ id = Head(f.todo)
  BY <1>1, UsedStream DEF Stream
<1>3. freed = {} /\ \A u \in Apps : frame[u].job # "close"
  BY NobodyCloses
<1>4. /\ SameStreams(client, client') /\ DOMAIN client'.streams = DOMAIN client.streams
      /\ \A i \in DOMAIN client.streams : client'.streams[i].size = client.streams[i].size
  BY <1>2, FeedClient DEF SameLinks, SameStreams
<1>5. PICK n : n = f.k + 1
  OBVIOUS
<1>6. PICK g : g = [f EXCEPT !.k = n]
  OBVIOUS
<1>7. frame' = [frame EXCEPT ![t] = g] /\ freed' = freed
  BY <1>5, <1>6 DEF Feed, Moves
<1>8. g.k = n /\ g.job = "inject" /\ g.pc = "feed" /\ g.todo = f.todo
  BY <1>1, <1>6, IdleIs DEF FrameFields
<1>9. n \in Nat /\ (f.k >= 1 => n > 1)
  BY <1>1, <1>5
<1>10. \A u \in Apps : frame'[u].k \in Nat
  BY <1>1, <1>7, <1>8, <1>9
<1>11. /\ Recorded' /\ \A i \in DOMAIN client.streams \ {id} : Unseen(i)
       /\ f.k # 1 => Unseen(id)
  BY <1>2, <1>4, <1>10, FeedSeen DEF FlushInv
<1>12. \A i : ~Frees(g, i)
  BY <1>8 DEF Frees
<1>13. \A i \in DOMAIN client.streams : Spares(f, g, i)
  <2>1. \A i : Feeds(f, i) => Feeds(g, i)
    BY <1>1, <1>8, <1>9 DEF Feeds
  <2> QED BY <1>4, <1>7, <1>12, <2>1 DEF Spares
<1>14. ASSUME f.k = 1 PROVE Covered(id)'
  <2>1. Feeds(g, id)
    BY <1>1, <1>2, <1>8, <1>9, <1>14 DEF Feeds
  <2>2. frame'[t] = g /\ \A u \in Apps : frame'[u].job # "close"
    BY <1>1, <1>3, <1>7, <1>8
  <2>3. \A u \in Apps : ~Frees(frame'[u], id)
    BY <2>2 DEF Frees
  <2>4. \E u \in Apps : Feeds(frame'[u], id)
    BY <2>1, <2>2
  <2> QED BY <1>3, <1>7, <2>3, <2>4 DEF Covered, Feeds, Frees
<1>15. ASSUME NEW i \in DOMAIN client.streams
       PROVE  (Unseen(i) /\ Spares(f, g, i)) \/ Covered(i)'
  <2>1. CASE i = id
    BY <1>11, <1>13, <1>14, <2>1
  <2>2. CASE i # id
    BY <1>11, <1>13, <2>2
  <2> QED BY <2>1, <2>2
<1> QED BY <1>1, <1>4, <1>7, <1>11, <1>15, FlushSteps

(* A stream that is to be freed at once has nothing left to report.        *)
LEMMA FlushDestroys ==
  ASSUME Running, FlushInv, NEW t \in Apps, CloseOK(frame[t], client), Destroy(t) \/ DestroyedMP(t)
  PROVE  FlushInv'
<1> PICK f, id : f = frame[t] /\ id = Stream(t)
  OBVIOUS
<1>1. /\ f.pc = "destroy" /\ f.job = "close" /\ DOMAIN f = FrameFields /\ Linked(client)
      /\ t \in Threads /\ DOMAIN frame = Threads /\ Apps \subseteq Threads /\ f.k \in Nat
      /\ \A u \in Apps : u # t => frame[u] = Idle
      /\ \A u \in Apps : frame[u].k \in Nat
  BY CloseFrame DEF Destroy, DestroyedMP, Uses, Runs, FlushInv, Recorded, Threads
<1>2. /\ client' = client /\ freed' = freed /\ seen' = seen /\ cuts' = cuts
  BY DEF Destroy, DestroyedMP, history, memory
<1>3. /\ SameLinks(client, client') /\ SameStreams(client, client')
      /\ DOMAIN client'.streams = DOMAIN client.streams
      /\ \A i \in DOMAIN client.streams : client'.streams[i].size = client.streams[i].size
  BY <1>1, <1>2, SameItself DEF SameLinks
<1>4. \A i : ~Feeds(f, i)
  BY <1>1 DEF Feeds
<1>5. CASE Destroy(t)
  <2>1. PICK pc : pc = IF LeftOver(client.streams[id]) THEN "row" ELSE "free"
    OBVIOUS
  <2>2. PICK g : g = [f EXCEPT !.k = 1, !.pc = pc]
    OBVIOUS
  <2>3. frame' = [frame EXCEPT ![t] = g]
    BY <1>5, <2>1, <2>2 DEF Destroy, Moves
  <2>4. g.k = 1 /\ g.todo = f.todo /\ g.pc = pc
    BY <1>1, <2>2, IdleIs DEF FrameFields
  <2>5. Recorded'
    <3>1. \A u \in Apps : frame'[u].k \in Nat
      BY <1>1, <2>3, <2>4
    <3> QED BY <1>2, <1>3, <3>1, StillRecorded DEF FlushInv
  <2>6. \A i : \A u \in Apps : ~Feeds(frame[u], i)
    <3>1. \A u \in Apps : frame[u].pc # "feed"
      BY <1>1, IdleIs
    <3> QED BY <3>1 DEF Feeds
  <2>7. ASSUME NEW i \in DOMAIN client.streams, Sampled(i), Frees(g, i)
        PROVE  UpToDate(i)
    <3>1. i = id /\ g.pc = "free"
      BY <2>4, <2>7 DEF Frees, Stream
    <3>2. ~(client.streams[i].size > 0)
      BY <2>1, <2>4, <3>1 DEF LeftOver
    <3> QED BY <2>6, <2>7, <3>2 DEF FlushInv, Covered
  <2>8. \A i \in DOMAIN client.streams : Sampled(i) => Unseen(i) /\ Spares(f, g, i)
    BY <1>2, <1>3, <1>4, <2>7 DEF Unseen, Spares
  <2> QED BY <1>1, <1>3, <2>3, <2>5, <2>8, FlushSteps
<1>6. CASE DestroyedMP(t)
  <2>1. PICK g : g = [f EXCEPT !.pc = "unlock"]
    OBVIOUS
  <2>2. frame' = [frame EXCEPT ![t] = g]
    BY <1>6, <2>1 DEF DestroyedMP, Moves
  <2>3. g.k \in Nat /\ g.pc = "unlock"
    BY <1>1, <2>1, IdleIs DEF FrameFields
  <2>4. \A i : ~Feeds(f, i) /\ ~Frees(g, i)
    BY <1>4, <2>3 DEF Frees
  <2>5. seen' = seen /\ cuts' = cuts /\ freed' = freed
    BY <1>2
  <2> QED BY <1>3, <2>2, <2>3, <2>4, <2>5, FlushStays
<1> QED BY <1>5, <1>6

(* A stream is freed.                                                      *)
LEMMA FlushFrees ==
  ASSUME Running, FlushInv, NEW t \in Apps, CloseOK(frame[t], client), Free(t)
  PROVE  FlushInv'
<1> PICK f, id : f = frame[t] /\ id = Head(f.todo)
  OBVIOUS
<1>1. /\ f.pc = "free" /\ f.job = "close" /\ DOMAIN f = FrameFields /\ Linked(client)
      /\ t \in Threads /\ DOMAIN frame = Threads /\ Apps \subseteq Threads /\ f.k \in Nat
      /\ \A u \in Apps : frame[u].k \in Nat
  BY CloseFrame DEF Free, Runs, FlushInv, Recorded, Threads
<1>2. /\ client' = client /\ seen' = seen /\ cuts' = cuts
      /\ freed' = freed \cup {id}
  BY DEF Free, history, Stream
<1>3. /\ SameStreams(client, client') /\ DOMAIN client'.streams = DOMAIN client.streams
      /\ \A i \in DOMAIN client.streams : client'.streams[i].size = client.streams[i].size
  BY <1>1, <1>2, SameItself DEF SameLinks
<1>4. PICK tail : tail = Tail(f.todo)
  OBVIOUS
<1>5. PICK g : g = [f EXCEPT !.todo = tail, !.pc = "destroy"]
  OBVIOUS
<1>6. frame' = [frame EXCEPT ![t] = g]
  BY <1>4, <1>5 DEF Free, Moves
<1>7. g.k = f.k /\ g.pc = "destroy"
  BY <1>1, <1>5, IdleIs DEF FrameFields
<1>8. Recorded'
  <2>1. \A u \in Apps : frame'[u].k \in Nat
    BY <1>1, <1>6, <1>7
  <2> QED BY <1>2, <1>3, <2>1, StillRecorded DEF FlushInv
<1>9. \A i : ~Feeds(f, i) /\ ~Frees(g, i)
  BY <1>1, <1>7 DEF Feeds, Frees
<1>10. ASSUME id \in DOMAIN client.streams, Sampled(id) PROVE UpToDate(id)
  <2>1. Frees(f, id)
    BY <1>1 DEF Frees
  <2>2. \E u \in Apps : Frees(frame[u], id)
    BY <2>1
  <2> QED BY <1>10, <2>2 DEF FlushInv, Covered
<1>11. \A i \in DOMAIN client.streams : Sampled(i) => Unseen(i) /\ Spares(f, g, i)
  BY <1>2, <1>3, <1>9, <1>10 DEF Unseen, Spares
<1> QED BY <1>1, <1>3, <1>6, <1>8, <1>11, FlushSteps

(* A stream that was given nothing yet.                                    *)
LEMMA GrownList ==
  ASSUME NEW l, IsList(l), NEW n \in Nat, DOMAIN l = 1..n
  PROVE  /\ IsList(Append(l, <<>>)) /\ DOMAIN Append(l, <<>>) = 1..n + 1
         /\ \A i \in 1..n : Append(l, <<>>)[i] = l[i]
         /\ Append(l, <<>>)[n + 1] = <<>>
<1>1. DOMAIN l = 1..Len(l) /\ Len(l) \in Nat
  BY ListIsSeq
<1>2. Len(l) = n
  <2>1. Len(l) <= n
    <3>1. CASE Len(l) = 0
      BY <3>1
    <3>2. CASE Len(l) # 0
      <4>1. Len(l) \in 1..n
        BY <1>1, <3>2
      <4> QED BY <4>1
    <3> QED BY <3>1, <3>2
  <2>2. n <= Len(l)
    <3>1. CASE n = 0
      BY <1>1, <3>1
    <3>2. CASE n # 0
      <4>1. n \in 1..Len(l)
        BY <1>1, <3>2
      <4> QED BY <4>1
    <3> QED BY <3>1, <3>2
  <2> QED BY <1>1, <2>1, <2>2
<1>3. /\ IsList(Append(l, <<>>)) /\ DOMAIN Append(l, <<>>) = 1..Len(l) + 1
      /\ \A i \in 1..Len(l) : Append(l, <<>>)[i] = l[i]
      /\ Append(l, <<>>)[Len(l) + 1] = <<>>
  BY ListAppend
<1> QED BY <1>2, <1>3

(* A point is added.                                                       *)
LEMMA FlushCreates ==
  ASSUME Running, FlushInv, NEW t \in Apps, InjectOK(frame[t], client), Create(t)
  PROVE  FlushInv'
<1>1. PICK m, id : Grown(client, client', m, id)
  BY CreateGrows
<1>2. /\ freed = {} /\ freed' = {} /\ frame'[t] = Idle
      /\ \A u \in Apps \ {t} : frame'[u] = frame[u]
      /\ \A u \in Apps : frame[u].job # "close"
  BY CreateGrows
<1>3. frame[t].pc = "create"
  BY DEF Create, Runs
<1>4. Idle.k \in Nat /\ Idle.pc = "idle" /\ Idle.job = ""
  BY DEF Idle, At
<1>5. /\ DOMAIN client'.streams = DOMAIN client.streams \cup {id} /\ id \notin DOMAIN client.streams
      /\ id \in Nat /\ DOMAIN client'.streams = 1..id
  BY <1>1, GrownIs DEF Running, LinksInv
<1>6. \A i \in DOMAIN client.streams : client'.streams[i] = client.streams[i]
  BY <1>1 DEF Grown, GrownStreams
<1>7. PICK n : n \in Nat /\ id = n + 1 /\ DOMAIN client.streams = 1..n
  <2>1. IsList(client.streams) /\ id = Len(client.streams) + 1
    BY <1>1 DEF Running, LinksInv, Linked, Grown, GrownStreams
  <2> QED BY <2>1, ListIsSeq
<1>8. /\ IsList(seen') /\ DOMAIN seen' = 1..n + 1 /\ seen'[n + 1] = <<>>
      /\ \A i \in 1..n : seen'[i] = seen[i]
  <2>1. IsList(seen) /\ DOMAIN seen = 1..n
    BY <1>7 DEF FlushInv, Recorded
  <2>2. seen' = Append(seen, <<>>)
    BY DEF Create
  <2> QED BY <1>7, <2>1, <2>2, GrownList
<1>9. /\ IsList(cuts') /\ DOMAIN cuts' = 1..n + 1 /\ cuts'[n + 1] = <<>>
      /\ \A i \in 1..n : cuts'[i] = cuts[i]
  <2>1. IsList(cuts) /\ DOMAIN cuts = 1..n
    BY <1>7 DEF FlushInv, Recorded
  <2>2. cuts' = Append(cuts, <<>>)
    BY DEF Create
  <2> QED BY <1>7, <2>1, <2>2, GrownList
<1>10. Recorded'
  <2>1. \A u \in Apps : frame'[u].k \in Nat
    BY <1>2, <1>4 DEF FlushInv, Recorded
  <2>2. \A i \in DOMAIN client'.streams : IsList(cuts'[i])
    <3>1. \A i \in 1..n : IsList(cuts'[i])
      BY <1>7, <1>9 DEF FlushInv, Recorded
    <3>2. IsList(cuts'[n + 1])
      BY <1>9, ListOne
    <3> QED BY <1>5, <1>7, <3>1, <3>2
  <2> QED BY <1>5, <1>7, <1>8, <1>9, <2>1, <2>2 DEF Recorded
<1>11. \A i : \A u \in Apps : ~Frees(frame'[u], i)
  <2>1. \A u \in Apps : frame'[u].job # "close"
    BY <1>2, <1>4
  <2> QED BY <2>1 DEF Frees
<1>12. ASSUME NEW i \in DOMAIN client'.streams, Sampled(i)' PROVE Covered(i)'
  <2>1. CASE i = id
    <3>1. UpToDate(i)'
      BY <1>7, <1>8, <2>1 DEF UpToDate
    <3> QED BY <3>1 DEF Covered
  <2>2. CASE i # id
    <3>1. i \in DOMAIN client.streams /\ client'.streams[i] = client.streams[i]
          /\ seen'[i] = seen[i] /\ cuts'[i] = cuts[i]
      BY <1>5, <1>6, <1>7, <1>8, <1>9, <2>2
    <3>2. Covered(i) /\ (UpToDate(i)' <=> UpToDate(i))
      BY <1>12, <3>1 DEF FlushInv, Sampled, UpToDate
    <3>3. ASSUME NEW u \in Apps, Feeds(frame[u], i) PROVE Feeds(frame'[u], i)
      <4>1. u # t
        BY <1>3, <3>3 DEF Feeds
      <4> QED BY <1>2, <3>3, <4>1
    <3>4. UpToDate(i)' \/ client'.streams[i].size > 0 \/ \E u \in Apps : Feeds(frame'[u], i)
      BY <3>1, <3>2, <3>3 DEF Covered
    <3> QED BY <1>2, <1>11, <3>4 DEF Covered, Feeds, Frees
  <2> QED BY <2>1, <2>2
<1> QED BY <1>10, <1>12 DEF FlushInv

(* The steps of a filtering thread.                                        *)
LEMMA FlushReports ==
  ASSUME Running, FlushInv, NobodyInjectsWhileClosing, NEW t \in Range(FilterThreads),
         Lock(t) \/ NoWriter(t) \/ Row(t) \/ Window(t) \/ Unlock(t) \/ Wake(t)
  PROVE  FlushInv'
<1>1. ReportOK(t, frame[t], client, holder) /\ t \notin Apps
  BY ThreadsDiffer DEF Running, ThreadsOK
<1>2. frame[t].pc # "none"
  BY DEF Lock, NoWriter, Row, Window, Unlock, Wake, Finished, Uses, Runs
<1>3. /\ t \in Threads /\ DOMAIN frame[t] = FrameFields /\ frame[t].job = "report"
      /\ frame[t].todo # <<>> /\ Stream(t) \in DOMAIN client.streams /\ Linked(client)
  BY <1>2, ReportFrame
<1>4. PICK g : frame' = [frame EXCEPT ![t] = g]
  <2>1. CASE Unlock(t)
    BY <2>1 DEF Unlock, Moves
  <2>2. CASE Lock(t) \/ NoWriter(t) \/ Row(t) \/ Window(t) \/ Wake(t)
    BY <2>2 DEF Lock, NoWriter, Row, Window, Wake, Moves
  <2> QED BY <2>1, <2>2
<1>5. freed' = freed
  BY DEF Lock, NoWriter, Row, Window, Unlock, Wake, memory
<1>6. CASE Window(t)
  <2>1. PICK id : id = Stream(t)
    OBVIOUS
  <2>2. /\ SameStreams(client, client') /\ DOMAIN client'.streams = DOMAIN client.streams
        /\ \A i \in DOMAIN client.streams \ {id} : client'.streams[i].size = client.streams[i].size
    BY <1>3, <1>6, <2>1, WindowClient DEF SameLinks, SameStreams
  <2>3. \A u \in Apps : frame'[u] = frame[u]
    BY <1>1, <1>4
  <2>4. /\ Recorded' /\ UpToDate(id)' /\ \A i \in DOMAIN client.streams \ {id} : Unseen(i)
    <3>1. \A u \in Apps : frame'[u].k \in Nat
      BY <2>3 DEF FlushInv, Recorded
    <3>2. id \in DOMAIN client.streams
      BY <1>3, <2>1
    <3> QED BY <1>6, <2>1, <2>2, <3>1, <3>2, WindowCuts DEF FlushInv
  <2>5. ASSUME NEW i \in DOMAIN client.streams
        PROVE  \/ Unseen(i) /\ (client.streams[i].size > 0 => client'.streams[i].size > 0)
               \/ UpToDate(i)'
    <3>1. CASE i = id
      BY <2>4, <3>1
    <3>2. CASE i # id
      BY <2>2, <2>4, <3>2
    <3> QED BY <3>1, <3>2
  <2> QED BY <1>5, <2>2, <2>3, <2>4, <2>5, FlushStepsApart
<1>7. CASE ~Window(t)
  <2>1. seen' = seen /\ cuts' = cuts
    BY <1>7 DEF Lock, NoWriter, Row, Unlock, Wake, history
  <2>2. /\ SameLinks(client, client')
        /\ \A i \in DOMAIN client.streams : client'.streams[i].size = client.streams[i].size
    <3>1. CASE Row(t)
      BY <1>3, <3>1, RowClient
    <3>2. CASE Unlock(t)
      <4>1. frame[t].pc \in {"unlock", "end", "feed"}
        BY <3>2 DEF Unlock, Finished
      <4>2. PICK h \in After(frame[t]) :
              client' = IF h.job = "inject" /\ h.mp = ClientInstr THEN [client EXCEPT !.instr_time = 1]
                                                                    ELSE client
        BY <3>2 DEF Unlock
      <4>3. SameLinks(client, client') /\ client'.streams = client.streams
        BY <1>3, <4>2, SameItself, TimeChanges
      <4> QED BY <4>3
    <3>3. CASE Lock(t) \/ NoWriter(t) \/ Wake(t)
      <4>1. client' = client
        BY <1>3, <3>3 DEF Lock, NoWriter, Wake
      <4> QED BY <1>3, <4>1, SameItself
    <3> QED BY <1>7, <3>1, <3>2, <3>3
  <2> QED BY <1>4, <1>5, <2>1, <2>2, FlushStaysApart
<1> QED BY <1>6, <1>7

(* The streams are numbered;                                               *)
LEMMA FlushStartEnds ==
  ASSUME Running, FlushInv, NEW t \in Apps, WriteMeta(t)
  PROVE  FlushInv'
<1>1. Linked(client) /\ client' = NumberStreams(client) /\ frame[t].pc = "meta"
  BY DEF Running, LinksInv, WriteMeta, Runs
<1>2. seen' = seen /\ cuts' = cuts /\ freed' = freed /\ frame' = [frame EXCEPT ![t] = Idle]
  BY DEF WriteMeta, Moves
<1>3. /\ SameLinks(client, client')
      /\ \A id \in DOMAIN client.streams : client'.streams[id].size = client.streams[id].size
  BY <1>1, NumberedClient
<1>4. Idle.k \in Nat /\ \A id : ~Feeds(frame[t], id) /\ ~Frees(Idle, id)
  BY <1>1, IdleIs DEF Feeds, Frees, Idle, At
<1> QED BY <1>2, <1>3, <1>4, FlushStays

(* The steps of an application.                                            *)
LEMMA FlushAppNext ==
  ASSUME Running, FlushInv, NobodyInjectsWhileClosing, NEW t \in Apps,
         Start(t) \/ Call(t) \/ Close(t) \/ Signal(t) \/ Step(t)
  PROVE  FlushInv'
<1>1. AppOK(frame[t], client) /\ client.started
  BY DEF Running, ThreadsOK, LinksInv
<1>2. ~Start(t)
  BY <1>1 DEF Start
<1>3. CASE Call(t) \/ Close(t) \/ Signal(t)
  BY <1>3, FlushBegins
<1>4. CASE frame[t] = Idle /\ Step(t)
  <2>1. frame[t].pc = "idle"
    BY <1>4, IdleIs
  <2>2. ~Step(t)
    BY <2>1 DEF Step, WriteMeta, Lock, Feed, CountSample, NoWriter, Row, Window, Unlock, Finished, Create,
                Wake, Destroy, Free, DestroyedMP, Shut, Uses, Runs
  <2> QED BY <1>4, <2>2
<1>5. CASE InjectOK(frame[t], client) /\ Step(t)
  <2>1. frame[t].pc \in {"lock", "feed", "row", "window", "create"}
    BY <1>5 DEF InjectOK
  <2>2. ~WriteMeta(t) /\ ~Wake(t) /\ ~Destroy(t) /\ ~Free(t) /\ ~DestroyedMP(t) /\ ~Shut(t)
    BY <2>1 DEF WriteMeta, Wake, Destroy, Free, DestroyedMP, Shut, Uses, Runs
  <2>3. \/ Lock(t) \/ Feed(t) \/ CountSample(t) \/ NoWriter(t) \/ Row(t) \/ Window(t)
        \/ Unlock(t) \/ Create(t)
    BY <1>5, <2>2 DEF Step
  <2> QED BY <1>5, <2>3, FlushLocks, FlushFeeds, FlushCounts, FlushRows, FlushNoWriter,
             FlushWindows, FlushUnlocks, FlushCreates
<1>6. CASE CloseOK(frame[t], client) /\ Step(t)
  <2>1. frame[t].pc \in {"lock", "destroy", "row", "window", "free", "unlock", "shut"}
    BY <1>6 DEF CloseOK
  <2>2. ~WriteMeta(t) /\ ~Wake(t) /\ ~Feed(t) /\ ~CountSample(t) /\ ~Create(t)
    BY <2>1 DEF WriteMeta, Wake, Feed, CountSample, Create, Uses, Runs
  <2>3. \/ Lock(t) \/ NoWriter(t) \/ Row(t) \/ Window(t) \/ Unlock(t)
        \/ Destroy(t) \/ Free(t) \/ DestroyedMP(t) \/ Shut(t)
    BY <1>6, <2>2 DEF Step
  <2> QED BY <1>6, <2>3, FlushLocks, FlushRows, FlushNoWriter, FlushWindows, FlushUnlocks,
             FlushDestroys, FlushFrees, FlushShuts
<1>7. CASE frame[t] = Announcing /\ Step(t)
  <2>1. frame[t].pc = "meta"
    BY <1>7, AnnouncingIs
  <2>2. /\ ~Lock(t) /\ ~Feed(t) /\ ~CountSample(t) /\ ~NoWriter(t) /\ ~Row(t) /\ ~Window(t)
        /\ ~Unlock(t) /\ ~Create(t) /\ ~Wake(t) /\ ~Destroy(t) /\ ~Free(t) /\ ~DestroyedMP(t)
        /\ ~Shut(t)
    BY <2>1 DEF Lock, Feed, CountSample, NoWriter, Row, Window, Unlock, Finished, Create,
                Wake, Destroy, Free, DestroyedMP, Shut, Uses, Runs
  <2> QED BY <1>7, <2>2, FlushStartEnds DEF Step
<1> QED BY <1>1, <1>2, <1>3, <1>4, <1>5, <1>6, <1>7 DEF AppOK

(* A filtering thread does nothing else than these.                        *)
LEMMA FlushReportNext ==
  ASSUME Running, FlushInv, NobodyInjectsWhileClosing, NEW t \in Range(FilterThreads),
         Start(t) \/ Call(t) \/ Close(t) \/ Signal(t) \/ Step(t)
  PROVE  FlushInv'
<1>1. ReportOK(t, frame[t], client, holder) /\ t \notin Apps
  BY ThreadsDiffer DEF Running, ThreadsOK
<1>2. frame[t].pc \in {"none", "sleep", "lock", "row", "window", "unlock", "end", "done"}
  BY <1>1 DEF ReportOK
<1>3. ~Start(t) /\ ~Call(t) /\ ~Close(t)
  BY <1>1 DEF Start, Call, Close
<1>4. ~Signal(t)
  BY <1>2 DEF Signal, NobodyInjectsWhileClosing
<1>5. /\ ~WriteMeta(t) /\ ~Feed(t) /\ ~CountSample(t) /\ ~Create(t) /\ ~Destroy(t) /\ ~Free(t)
      /\ ~DestroyedMP(t) /\ ~Shut(t)
  BY <1>2 DEF WriteMeta, Feed, CountSample, Create, Destroy, Free, DestroyedMP, Shut, Uses, Runs
<1>6. Lock(t) \/ NoWriter(t) \/ Row(t) \/ Window(t) \/ Unlock(t) \/ Wake(t)
  BY <1>3, <1>4, <1>5 DEF Step
<1> QED BY <1>6, FlushReports

(* What omlc_start leaves was given nothing yet.                           *)
LEMMA FlushStarts ==
  ASSUME Unstarted, SoundlyConfigured, setup \in Setups, NEW t \in Threads, Start(t), client.up,
         DOMAIN client = ClientFields, ~client.started
  PROVE  SampleInv'
<1>1. client = Initialised(setup) /\ NoClient.up = FALSE
  BY DEF Unstarted, NoClient
<1>2. PICK c : c = OmlcStart(client, Files)
  OBVIOUS
<1>3. c.up => Linked(c) /\ Len(c.threads) <= Len(FilterThreads)
  BY <1>1, <1>2 DEF SoundlyConfigured
<1>4. IF c.up THEN /\ client' = c /\ frame' = [Started(c, 0) EXCEPT ![t] = Announcing]
                   /\ seen' = Empty(c.streams) /\ cuts' = Empty(c.streams)
              ELSE client' = [client EXCEPT !.up = FALSE]
  BY <1>2 DEF Start
<1>5. freed' = {}
  BY DEF Start, memory, Unstarted
<1>6. CASE ~c.up
  <2>1. client' = [client EXCEPT !.up = FALSE]
    BY <1>4, <1>6
  <2>2. ~client'.started
    BY <2>1 DEF ClientFields
  <2> QED BY <2>2 DEF SampleInv
<1>7. CASE c.up
  <2>1. /\ client' = c /\ frame' = [Started(c, 0) EXCEPT ![t] = Announcing]
        /\ seen' = Empty(c.streams) /\ cuts' = Empty(c.streams)
    BY <1>4, <1>7
  <2>2. \A u \in Apps : frame'[u] \in {Idle, Announcing}
    <3>1. /\ \A u \in Threads \ {t} : frame'[u] = frame[u] \/ u \in Range(FilterThreads)
          /\ frame'[t] = Announcing
      <4>1. IsList(c.threads) /\ Len(c.threads) <= Len(FilterThreads)
        BY <1>3, <1>7 DEF Linked
      <4> QED BY <2>1, <4>1, StartedThreads
    <3>2. \A u \in Apps : u \in Threads /\ u \notin Range(FilterThreads) /\ frame[u] = Idle
      BY ThreadsDiffer DEF Unstarted
    <3> QED BY <3>1, <3>2
  <2>3. Idle.k \in Nat /\ Idle.pc = "idle" /\ Idle.job = ""
    BY DEF Idle, At
  <2>4. PICK s, e : s = c.streams /\ e = Empty(s)
    OBVIOUS
  <2>5. /\ IsList(e) /\ DOMAIN e = DOMAIN s /\ \A i \in DOMAIN s : e[i] = <<>>
    <3>1. IsList(s)
      BY <1>3, <1>7, <2>4 DEF Linked
    <3>2. DOMAIN s = 1..Len(s) /\ Len(s) \in Nat
      BY <3>1, ListIsSeq
    <3>3. DOMAIN e = DOMAIN s /\ \A i \in DOMAIN s : e[i] = <<>>
      BY <2>4 DEF Empty
    <3>4. e = [i \in 1..Len(s) |-> e[i]]
      BY <2>4, <3>2 DEF Empty
    <3>5. IsList(e)
      BY <3>2, <3>4, ListIntro
    <3> QED BY <3>3, <3>5
  <2>6. Recorded'
    <3>1. IsList(<<>>)
      BY ListOne
    <3>2. \A u \in Apps : frame'[u].k \in Nat
      <4>1. Announcing.k \in Nat
        BY AnnouncingIs
      <4> QED BY <2>2, <2>3, <4>1
    <3> QED BY <2>1, <2>4, <2>5, <3>1, <3>2 DEF Recorded
  <2>7. \A i \in DOMAIN client'.streams : UpToDate(i)'
    BY <2>1, <2>4, <2>5 DEF UpToDate
  <2>8. FlushInv'
    BY <2>6, <2>7 DEF FlushInv, Covered
  <2> QED BY <2>8 DEF SampleInv
<1> QED BY <1>6, <1>7

(* A stream's samples are accounted for after every step.                  *)
LEMMA FlushNext ==
  ASSUME SoundlyConfigured, NobodyInjectsWhileClosing, Inv, SampleInv, [Next]_vars
  PROVE  SampleInv'
<1>1. CASE UNCHANGED vars
  <2>1. client' = client /\ frame' = frame /\ freed' = freed /\ seen' = seen /\ cuts' = cuts
    BY <1>1 DEF vars, history, memory
  <2>2. Recorded => Recorded'
    BY <2>1 DEF Recorded
  <2>3. \A i : (Sampled(i) <=> Sampled(i)') /\ (Covered(i) <=> Covered(i)')
    BY <2>1 DEF Sampled, Covered, UpToDate, Feeds, Frees
  <2> QED BY <2>1, <2>2, <2>3 DEF SampleInv, FlushInv
<1>2. CASE Next
  <2>1. PICK t \in Threads : Start(t) \/ Call(t) \/ Close(t) \/ Signal(t) \/ Step(t)
    BY <1>2 DEF Next
  <2>2. CASE Unstarted
    <3>1. Start(t) /\ client.up /\ DOMAIN client = ClientFields /\ ~client.started
      BY <2>1, <2>2, OnlyStarts
    <3> QED BY <2>2, <3>1, FlushStarts DEF Inv
  <2>3. CASE client # NoClient /\ Running
    <3>1. t \in Apps \/ t \in Range(FilterThreads)
      BY ThreadsDiffer
    <3>2. FlushInv
      BY <2>3 DEF SampleInv, Running, LinksInv
    <3>3. FlushInv'
      BY <2>1, <2>3, <3>1, <3>2, FlushAppNext, FlushReportNext
    <3> QED BY <3>3 DEF SampleInv
  <2> QED BY <2>2, <2>3 DEF Inv
<1> QED BY <1>1, <1>2

(* Nothing is claimed of a client that was not started.                    *)
LEMMA FlushInit ==
  ASSUME SoundlyConfigured, Init
  PROVE  SampleInv
<1>1. setup \in Setups /\ client = Initialised(setup)
  BY DEF Init
<1>2. client = NoClient \/ ~client.started
  BY <1>1 DEF SoundlyConfigured
<1> QED BY <1>2 DEF SampleInv

(* Every stream is freed by the time that the client is closed.            *)
LEMMA ClosedIsFlushed ==
  ASSUME Inv, SampleInv
  PROVE  SampledStreamsFlushed
<1>1. SUFFICES ASSUME Closed, NEW id \in DOMAIN client.streams, client.streams[id].thres > 0,
                      client.streams[id].writers # <<>>
               PROVE  UpToDate(id)
  BY DEF SampledStreamsFlushed, Flushed, UpToDate
<1>2. client # NoClient /\ client.started /\ ~client.up
  BY <1>1 DEF Closed
<1>3. Running /\ FlushInv
  BY <1>2 DEF Inv, Unstarted, SampleInv
<1>4. id \in freed
  BY <1>1, <1>2, <1>3 DEF Running, FreedInv
<1>5. Sampled(id)
  BY <1>1 DEF Sampled
<1> QED BY <1>3, <1>4, <1>5 DEF FlushInv, Covered

(* The samples of every stream are accounted for, all through its life: in *)
(* a row, counted, or in the hands of the thread that injects              *)
(* (omlc_ms_process, filter_process, destroy_ms).                          *)
THEOREM SampleInvHolds ==
  ASSUME SoundlyConfigured, NobodyInjectsWhileClosing
  PROVE  Spec => []SampleInv
<1>1. Init => SampleInv
  BY FlushInit
<1>2. Inv /\ SampleInv /\ [Next]_vars => SampleInv'
  BY FlushNext
<1>3. Spec => []Inv
  BY InvHolds
<1> QED BY <1>1, <1>2, <1>3, PTL DEF Spec

(* Every sample that was injected is in a row, of every stream that        *)
(* reports by samples, once omlc_close is done.                            *)
THEOREM SampledStreamsAreFlushed ==
  ASSUME SoundlyConfigured, NobodyInjectsWhileClosing
  PROVE  Spec => []SampledStreamsFlushed
<1>1. Inv /\ SampleInv => SampledStreamsFlushed
  BY ClosedIsFlushed
<1>2. Spec => []Inv
  BY InvHolds
<1>3. Spec => []SampleInv
  BY SampleInvHolds
<1> QED BY <1>1, <1>2, <1>3, PTL

=============================================================================
