--------------------------- MODULE ProxyServerProofs ---------------------------
(***************************************************************************)
(* Proofs about ProxyServer for any clients, scripts and bounds: the list  *)
(* of clients, which threads change without a lock, and the signals that   *)
(* the main thread gives along it.                                         *)
(***************************************************************************)
EXTENDS ProxyServer, TLAPS

(* One comes from a to c along the pointers f: c is in every set that      *)
(* holds a and, with a client, the one it points to.                       *)
ClosedUnder(S, f) == \A x \in S : f[x] \in Clients => f[x] \in S

Reach(f, a, c) ==
  /\ a \in Clients
  /\ \A S \in SUBSET Clients : a \in S /\ ClosedUnder(S, f) => c \in S

(* A client is on the list that begins with it.                            *)
LEMMA ReachHead ==
  ASSUME NEW f, NEW a \in Clients
  PROVE  Reach(f, a, a)
BY DEF Reach

(* What the list that begins with a holds but a is on the rest.            *)
LEMMA ReachRest ==
  ASSUME NEW f, NEW a, NEW c \in Clients, Reach(f, a, c), c # a
  PROVE  Reach(f, f[a], c)
<1>1. a \in Clients
  BY DEF Reach
<1>2. f[a] \in Clients
  <2>1. SUFFICES ASSUME f[a] \notin Clients
                 PROVE  FALSE
    OBVIOUS
  <2>2. {a} \in SUBSET Clients /\ a \in {a} /\ ClosedUnder({a}, f)
    BY <1>1, <2>1 DEF ClosedUnder
  <2> QED
    BY <2>2 DEF Reach
<1>3. ASSUME NEW S \in SUBSET Clients, f[a] \in S, ClosedUnder(S, f)
      PROVE  c \in S
  <2>1. S \cup {a} \in SUBSET Clients /\ a \in S \cup {a} /\ ClosedUnder(S \cup {a}, f)
    BY <1>1, <1>3 DEF ClosedUnder
  <2>2. c \in S \cup {a}
    BY <2>1 DEF Reach
  <2> QED
    BY <2>2
<1> QED
  BY <1>2, <1>3 DEF Reach

(* A client that nothing points to is put before the head of a list.       *)
LEMMA ReachPush ==
  ASSUME NEW f \in [Clients -> Clients \cup {NoClient}], NEW a, NEW c \in Clients, NEW b \in Clients,
         Reach(f, a, c), a # b, \A x \in Clients : f[x] # b
  PROVE  Reach([f EXCEPT ![b] = a], b, c)
<1> DEFINE g == [f EXCEPT ![b] = a]
<1>1. a \in Clients /\ g[b] = a /\ \A x \in Clients : x # b => g[x] = f[x]
  BY DEF Reach
<1> HIDE DEF g
<1>2. ASSUME NEW S \in SUBSET Clients, b \in S, ClosedUnder(S, g)
      PROVE  c \in S
  <2>1. a \in S \ {b} /\ S \ {b} \in SUBSET Clients
    BY <1>1, <1>2 DEF ClosedUnder
  <2>2. ClosedUnder(S \ {b}, f)
    BY <1>1, <1>2 DEF ClosedUnder
  <2> QED
    BY <2>1, <2>2 DEF Reach
<1>3. Reach(g, b, c)
  BY <1>2 DEF Reach
<1> QED
  BY <1>3 DEF g

(* The client after p is taken out of the list; the others stay on it.     *)
LEMMA ReachSkip ==
  ASSUME NEW f \in [Clients -> Clients \cup {NoClient}], NEW a, NEW c \in Clients, NEW p \in Clients,
         NEW b \in Clients, Reach(f, a, c), f[p] = b, c # b
  PROVE  Reach([f EXCEPT ![p] = f[f[p]]], a, c)
<1> DEFINE g == [f EXCEPT ![p] = f[f[p]]]
<1>1. a \in Clients /\ g[p] = f[b] /\ \A x \in Clients : x # p => g[x] = f[x]
  BY DEF Reach
<1> HIDE DEF g
<1>2. ASSUME NEW S \in SUBSET Clients, a \in S, ClosedUnder(S, g)
      PROVE  c \in S
  <2>1. CASE p \notin S
    <3>1. ClosedUnder(S, f)
      BY <1>1, <1>2, <2>1 DEF ClosedUnder
    <3> QED
      BY <1>2, <3>1 DEF Reach
  <2>2. CASE p \in S
    <3>1. S \cup {b} \in SUBSET Clients /\ a \in S \cup {b} /\ ClosedUnder(S \cup {b}, f)
      BY <1>1, <1>2, <2>2 DEF ClosedUnder
    <3>2. c \in S \cup {b}
      BY <3>1 DEF Reach
    <3> QED
      BY <3>2
  <2> QED
    BY <2>1, <2>2
<1>3. Reach(g, a, c)
  BY <1>1, <1>2 DEF Reach
<1> QED
  BY <1>3 DEF g

-----------------------------------------------------------------------------
(* The list of clients.                                                    *)

Pointers == Clients \cup {NoClient}

ControlTypeOK ==
  /\ clients \in Pointers /\ main \in Pointers
  /\ next \in [Clients -> Pointers] /\ pred \in [Clients -> Pointers]
  /\ DOMAIN spc = Clients /\ DOMAIN mem = Clients /\ DOMAIN connected = Clients
  /\ DOMAIN messages = Clients

(* Pointers are to clients that have come, and the predecessor that a      *)
(* sender has found stays the one before it.                               *)
PointerInv ==
  /\ \A c \in Clients : mem[c] = "unused" => spc[c] = "none"
  /\ \A c \in Clients : next[c] \in Clients => mem[next[c]] # "unused"
  /\ \A c \in Clients : pred[c] \in Clients => mem[pred[c]] # "unused" /\ next[pred[c]] = c
  /\ \A c \in Clients : spc[c] = "unlink" => pred[c] \in Clients
  /\ clients \in Clients => mem[clients] # "unused"
  /\ pc = "link" => main \in Clients /\ mem[main] # "unused" /\ spc[main] = "none"
  /\ pc \in {"signal", "walk", "advance"} => main \in Clients

(* A client is on the list until its sender takes leave of it.  In         *)
(* session_add_client the list begins with the new one.                    *)
Alive(c) == spc[c] \notin {"none", "closing", "unlink", "free", "exited"}

HeadOfList == IF pc = "link" THEN main ELSE clients

ListedInv == \A c \in Clients : Alive(c) => Reach(next, HeadOfList, c)

(* The sender of c has something to send and waits nevertheless.           *)
NewsFor(c) == spc[c] = "wait" /\ connected[c] /\ session = "SENDING" /\ messages[c] # << >>

(* Then the main thread is about to signal c, or is on its way to it.      *)
OnItsWay(c) ==
  \/ pc = "signal" /\ main = c
  \/ pc = "walk" /\ Reach(next, main, c)
  \/ pc = "advance" /\ Reach(next, next[main], c)

SignalInv ==
  /\ \A c \in Clients : spc[c] \in {"none", "start", "connect"} => ~connected[c]
  /\ \A c \in Clients : NewsFor(c) => OnItsWay(c)

ListInv == PointerInv /\ ListedInv /\ SignalInv

(* Once it has followed a pointer of no meaning, nothing is known of the   *)
(* program.                                                                *)
ProxyInv == fault = "none" => ControlTypeOK /\ ListInv

(* A step that concerns the sender of c and leaves the list alone.         *)
Local(c) ==
  /\ UNCHANGED <<clients, next, pred, mem, pc, main, session>>
  /\ DOMAIN spc' = Clients /\ DOMAIN connected' = Clients /\ DOMAIN messages' = Clients
  /\ \A x \in Clients : x # c =>
       spc'[x] = spc[x] /\ connected'[x] = connected[x] /\ messages'[x] = messages[x]
  /\ spc'[c] # spc[c] => spc[c] \notin {"none", "unlink"} /\ spc'[c] \notin {"none", "unlink"}
  /\ Alive(c)' => Alive(c)
  /\ spc'[c] \in {"none", "start", "connect"} => ~connected'[c]
  /\ NewsFor(c)' => NewsFor(c)

(* Such a step keeps the list and the signals right.                       *)
LEMMA LocalStep ==
  ASSUME ControlTypeOK, ListInv, NEW c \in Clients, Local(c)
  PROVE  ControlTypeOK' /\ ListInv'
<1>1. /\ UNCHANGED <<clients, next, pred, mem, pc, main, session>>
      /\ \A x \in Clients : x # c =>
           spc'[x] = spc[x] /\ connected'[x] = connected[x] /\ messages'[x] = messages[x]
      /\ spc'[c] # spc[c] => spc[c] \notin {"none", "unlink"} /\ spc'[c] \notin {"none", "unlink"}
  BY DEF Local
<1>2. ControlTypeOK'
  BY DEF Local, ControlTypeOK
<1>3. PointerInv'
  <2>1. \A x \in Clients : spc'[x] = spc[x] \/ (spc[x] \notin {"none", "unlink"} /\ spc'[x] \notin {"none", "unlink"})
    BY <1>1
  <2>2. PointerInv
    BY DEF ListInv
  <2> QED
    BY <1>1, <2>1, <2>2 DEF PointerInv
<1>4. ListedInv'
  <2>1. \A x \in Clients : Alive(x)' => Alive(x)
    BY <1>1 DEF Local, Alive
  <2> QED
    BY <1>1, <2>1 DEF ListInv, ListedInv, HeadOfList
<1>5. SignalInv'
  <2>1. \A x \in Clients : NewsFor(x)' => NewsFor(x)
    BY <1>1 DEF Local, NewsFor
  <2>2. \A x \in Clients : OnItsWay(x)' = OnItsWay(x)
    BY <1>1 DEF OnItsWay
  <2>3. \A x \in Clients : spc'[x] \in {"none", "start", "connect"} => ~connected'[x]
    BY <1>1 DEF Local, ListInv, SignalInv
  <2> QED
    BY <2>1, <2>2, <2>3 DEF ListInv, SignalInv
<1> QED
  BY <1>2, <1>3, <1>4, <1>5 DEF ListInv

(* The steps of the sender that leave the list alone.                      *)
LEMMA SenderIsLocal ==
  ASSUME ControlTypeOK, ListInv, NEW c \in Clients, fault' = "none",
         \/ Start(c) \/ Wake(c) \/ Connect(c) \/ SendHeaders(c) \/ SendCells(c)
         \/ SendFails(c) \/ Pause(c) \/ StatusCallback(c)
  PROVE  Local(c)
<1>0. /\ DOMAIN spc = Clients /\ DOMAIN connected = Clients /\ DOMAIN messages = Clients
      /\ spc[c] \in {"none", "start", "connect"} => ~connected[c]
  BY DEF ControlTypeOK, ListInv, SignalInv
<1>1. CASE Start(c)
  BY <1>0, <1>1 DEF Start, Sender, Local, list, client, store, bounds, Alive, NewsFor
<1>2. CASE Wake(c)
  <2>1. /\ spc[c] = "woken" /\ UNCHANGED <<clients, next, pred, mem, pc, main, session, messages, connected>>
        /\ \/ WakeWhileSending(c) \/ WakeWhilePaused(c) \/ WakeWhileStopped(c)
    BY <1>2 DEF Wake, Sender, list, client, store, bounds, WakeWhileSending
  <2>2. ASSUME WakeWhileSending(c)
        PROVE  Local(c)
    BY <1>0, <2>1, <2>2 DEF WakeWhileSending, AfterMessage, Local, Alive, NewsFor
  <2>3. ASSUME WakeWhilePaused(c) \/ WakeWhileStopped(c)
        PROVE  Local(c)
    BY <1>0, <2>1, <2>3 DEF WakeWhilePaused, WakeWhileStopped, Local, Alive, NewsFor
  <2> QED
    BY <2>1, <2>2, <2>3
<1>3. CASE Connect(c)
  BY <1>0, <1>3 DEF Connect, Sender, AfterMessage, Local, list, client, store, Alive, NewsFor
<1>4. CASE SendHeaders(c)
  BY <1>0, <1>4 DEF SendHeaders, Sender, AfterMessage, Local, list, client, store, Alive, NewsFor
<1>5. CASE SendCells(c)
  <2>1. /\ spc[c] = "send" /\ UNCHANGED <<clients, next, pred, mem, pc, main, session, connected>>
        /\ \/ UNCHANGED <<messages, spc>>
           \/ /\ messages' = [messages EXCEPT ![c] = Dequeued(c)]
              /\ spc' = [spc EXCEPT ![c] = AfterMessage(c, Dequeued(c), TRUE)]
    BY <1>5 DEF SendCells, Sender, list, client, store, bounds
  <2> QED
    BY <1>0, <2>1 DEF AfterMessage, Local, Alive, NewsFor
<1>6. CASE SendFails(c)
  BY <1>0, <1>6 DEF SendFails, Sender, AfterMessage, Local, list, client, store, Alive, NewsFor
<1>7. CASE Pause(c)
  BY <1>0, <1>7 DEF Pause, Sender, Local, list, client, store, bounds, Alive, NewsFor
<1>8. CASE StatusCallback(c)
  BY <1>0, <1>8 DEF StatusCallback, Signalled, Local, list, client, store, sender, bounds, Alive, NewsFor
<1> QED
  BY <1>1, <1>2, <1>3, <1>4, <1>5, <1>6, <1>7, <1>8

(* session_remove_client: the client goes, from the head of the list or    *)
(* from behind the one that was found before it.                           *)
LEMMA RemoveStep ==
  ASSUME ControlTypeOK, ListInv, NEW c \in Clients, SessionRemove(c)
  PROVE  ControlTypeOK' /\ ListInv'
<1>1. /\ UNCHANGED <<next, mem, pc, main, session, messages, connected>> /\ spc[c] = "closing"
      /\ \/ clients = c /\ clients' = next[c] /\ spc' = [spc EXCEPT ![c] = "free"] /\ pred' = pred
         \/ /\ clients' = clients
            /\ \E p \in Predecessors(c) :
                 /\ pred' = [pred EXCEPT ![c] = p]
                 /\ spc' = [spc EXCEPT ![c] = IF p = NoClient THEN "free" ELSE "unlink"]
  BY DEF SessionRemove, Sender, list, client, store, bounds
<1>2. \A p \in Predecessors(c) : p \in Pointers /\ (p \in Clients => mem[p] = "live" /\ next[p] = c)
  BY ProxyAssumption DEF Predecessors, Pointers
<1>3. PointerInv /\ ListedInv /\ SignalInv
  BY DEF ListInv
<1>4. ControlTypeOK'
  BY <1>1, <1>2 DEF ControlTypeOK
<1>5. \A x \in Clients : x # c => spc'[x] = spc[x] /\ pred'[x] = pred[x]
  BY <1>1 DEF ControlTypeOK
<1>6. spc'[c] \in {"free", "unlink"}
  BY <1>1 DEF ControlTypeOK
<1>7. PointerInv'
  <2>1. pred'[c] \in Clients => mem[pred'[c]] # "unused" /\ next[pred'[c]] = c
    BY <1>1, <1>2, <1>3 DEF ControlTypeOK, PointerInv
  <2>2. spc'[c] = "unlink" => pred'[c] \in Clients
    BY <1>1, <1>2 DEF ControlTypeOK, Pointers
  <2>3. clients' \in Clients => mem[clients'] # "unused"
    BY <1>1, <1>3 DEF PointerInv
  <2>4. mem[c] # "unused"
    BY <1>1, <1>3 DEF PointerInv
  <2> QED
    BY <1>1, <1>3, <1>5, <1>6, <2>1, <2>2, <2>3, <2>4 DEF PointerInv
<1>8. ListedInv'
  <2> SUFFICES ASSUME NEW x \in Clients, Alive(x)'
               PROVE  Reach(next, HeadOfList', x)
    BY <1>1 DEF ListedInv
  <2>1. x # c /\ Alive(x) /\ Reach(next, HeadOfList, x)
    BY <1>3, <1>5, <1>6 DEF Alive, ListedInv
  <2>2. CASE HeadOfList' = HeadOfList
    BY <2>1, <2>2
  <2>3. CASE HeadOfList = c /\ HeadOfList' = next[c]
    BY <2>1, <2>3, ReachRest
  <2> QED
    BY <1>1, <2>2, <2>3 DEF HeadOfList
<1>9. SignalInv'
  <2>1. \A x \in Clients : (NewsFor(x)' => NewsFor(x)) /\ (OnItsWay(x)' = OnItsWay(x))
    BY <1>1, <1>5, <1>6 DEF NewsFor, OnItsWay
  <2> QED
    BY <1>1, <1>3, <1>5, <1>6, <2>1 DEF SignalInv
<1> QED
  BY <1>4, <1>7, <1>8, <1>9 DEF ListInv

(* The end of session_remove_client.                                       *)
LEMMA UnlinkStep ==
  ASSUME ControlTypeOK, ListInv, NEW c \in Clients, Unlink(c)
  PROVE  ControlTypeOK' /\ ListInv'
<1>1. /\ UNCHANGED <<clients, mem, pc, main, session, messages, connected>> /\ spc[c] = "unlink"
      /\ next' = [next EXCEPT ![pred[c]] = next[next[pred[c]]]]
      /\ spc' = [spc EXCEPT ![c] = "free"]
      /\ pred' = [pred EXCEPT ![c] = NoClient]
  BY DEF Unlink, Sender, list, client, store, bounds
<1>2. PointerInv /\ ListedInv /\ SignalInv
  BY DEF ListInv
<1>3. PICK p : p = pred[c]
  OBVIOUS
<1>4. p \in Clients /\ next[p] = c /\ mem[p] # "unused" /\ mem[c] # "unused"
  BY <1>1, <1>2, <1>3 DEF PointerInv
<1>5. /\ next' = [next EXCEPT ![p] = next[next[p]]]
      /\ next'[p] = next[c] /\ \A x \in Clients : x # p => next'[x] = next[x]
  BY <1>1, <1>3, <1>4 DEF ControlTypeOK
<1>6. /\ spc'[c] = "free" /\ pred'[c] = NoClient
      /\ \A x \in Clients : x # c => spc'[x] = spc[x] /\ pred'[x] = pred[x]
  BY <1>1 DEF ControlTypeOK
<1>7. ControlTypeOK'
  <2>1. next[next[p]] \in Pointers /\ NoClient \in Pointers
    BY <1>4 DEF ControlTypeOK, Pointers
  <2>2. next' \in [Clients -> Pointers] /\ pred' \in [Clients -> Pointers]
    BY <1>1, <1>5, <2>1 DEF ControlTypeOK
  <2> QED
    BY <1>1, <2>2 DEF ControlTypeOK
<1>8. PointerInv'
  <2>1. \A x \in Clients : next'[x] \in Clients => mem[next'[x]] # "unused"
    BY <1>2, <1>4, <1>5 DEF PointerInv
  <2>2. \A x \in Clients : pred'[x] \in Clients => mem[pred'[x]] # "unused" /\ next'[pred'[x]] = x
    BY <1>2, <1>4, <1>5, <1>6, ProxyAssumption DEF PointerInv
  <2> QED
    BY <1>1, <1>2, <1>4, <1>6, <2>1, <2>2 DEF PointerInv
<1>9. \A a : \A x \in Clients : x # c /\ Reach(next, a, x) => Reach(next', a, x)
  BY <1>4, <1>5, ReachSkip, ZenonT(40) DEF ControlTypeOK, Pointers
<1>10. ListedInv'
  BY <1>1, <1>2, <1>6, <1>9 DEF ListedInv, Alive, HeadOfList
<1>11. SignalInv'
  <2>1. ASSUME NEW x \in Clients, NewsFor(x)'
        PROVE  OnItsWay(x)'
    <3>1. x # c /\ NewsFor(x)
      BY <1>1, <1>6, <2>1 DEF NewsFor
    <3>2. OnItsWay(x)
      BY <1>2, <3>1 DEF SignalInv
    <3>3. CASE pc = "advance" /\ Reach(next, next[main], x)
      <4>1. CASE main = p
        <5>1. Reach(next, c, x)
          BY <1>4, <3>3, <4>1
        <5>2. Reach(next, next[c], x)
          BY <3>1, <5>1, ReachRest
        <5> QED
          BY <1>1, <1>5, <1>9, <3>1, <3>3, <4>1, <5>2 DEF OnItsWay
      <4>2. CASE main # p
        <5>1. main \in Clients
          BY <1>2, <3>3 DEF PointerInv
        <5> QED
          BY <1>1, <1>5, <1>9, <3>1, <3>3, <4>2, <5>1 DEF OnItsWay
      <4> QED
        BY <4>1, <4>2
    <3> QED
      BY <1>1, <1>9, <3>1, <3>2, <3>3 DEF OnItsWay
  <2> QED
    BY <1>1, <1>2, <1>6, <2>1 DEF SignalInv
<1> QED
  BY <1>7, <1>8, <1>10, <1>11 DEF ListInv

(* client_free.                                                            *)
LEMMA FreeStep ==
  ASSUME ControlTypeOK, ListInv, NEW c \in Clients, ClientFree(c)
  PROVE  ControlTypeOK' /\ ListInv'
<1>1. /\ UNCHANGED <<clients, next, pred, pc, main, session, messages, connected>> /\ spc[c] = "free"
      /\ mem' = [mem EXCEPT ![c] = "freed"] /\ spc' = [spc EXCEPT ![c] = "exited"]
  BY DEF ClientFree, Sender, list, store, bounds
<1>2. PointerInv /\ ListedInv /\ SignalInv
  BY DEF ListInv
<1>3. /\ ControlTypeOK' /\ spc'[c] = "exited" /\ mem'[c] = "freed"
      /\ \A x \in Clients : x # c => spc'[x] = spc[x] /\ mem'[x] = mem[x]
  BY <1>1 DEF ControlTypeOK
<1>4. PointerInv'
  <2>1. \A x \in Clients : mem[x] # "unused" => mem'[x] # "unused"
    BY <1>3
  <2>2. \A x \in Clients : mem'[x] = "unused" => x # c /\ mem[x] = "unused"
    BY <1>3
  <2> QED
    BY <1>1, <1>2, <1>3, <2>1, <2>2 DEF PointerInv
<1>5. ListedInv'
  BY <1>1, <1>2, <1>3 DEF ListedInv, Alive, HeadOfList
<1>6. SignalInv'
  <2>1. \A x \in Clients : (NewsFor(x)' => NewsFor(x)) /\ (OnItsWay(x)' = OnItsWay(x))
    BY <1>1, <1>3 DEF NewsFor, OnItsWay
  <2> QED
    BY <1>1, <1>2, <1>3, <2>1 DEF SignalInv
<1> QED
  BY <1>3, <1>4, <1>5, <1>6 DEF ListInv

-----------------------------------------------------------------------------
(* The main thread.                                                        *)

(* session_add_client: a new client goes before the head of the list.      *)
LEMMA OnConnectStep ==
  ASSUME ControlTypeOK, ListInv, NEW c \in Clients, OnConnect(c)
  PROVE  ControlTypeOK' /\ ListInv'
<1>1. /\ UNCHANGED <<clients, pred, spc, session, messages, connected>>
      /\ mem[c] = "unused" /\ mem' = [mem EXCEPT ![c] = "live"]
      /\ next' = [next EXCEPT ![c] = clients]
      /\ pc = "poll" /\ pc' = "link" /\ main' = c
  BY DEF OnConnect, Main, store, sender, bounds
<1>2. PointerInv /\ ListedInv /\ SignalInv
  BY DEF ListInv
<1>3. /\ next'[c] = clients /\ mem'[c] = "live" /\ spc[c] = "none"
      /\ \A x \in Clients : x # c => next'[x] = next[x] /\ mem'[x] = mem[x]
  BY <1>1, <1>2 DEF ControlTypeOK, PointerInv
<1>4. ControlTypeOK'
  BY <1>1 DEF ControlTypeOK, Pointers
<1>5. PointerInv'
  <2>1. \A x \in Clients : mem[x] # "unused" => mem'[x] # "unused"
    BY <1>3
  <2>2. \A x \in Clients : mem'[x] = "unused" => spc[x] = "none"
    BY <1>2, <1>3 DEF PointerInv
  <2>3. \A x \in Clients : next'[x] \in Clients => mem'[next'[x]] # "unused"
    BY <1>2, <1>3, <2>1 DEF PointerInv
  <2>4. \A x \in Clients : pred[x] \in Clients => mem'[pred[x]] # "unused" /\ next'[pred[x]] = x
    BY <1>1, <1>2, <1>3, <2>1 DEF PointerInv
  <2> QED
    BY <1>1, <1>2, <1>3, <2>1, <2>2, <2>3, <2>4 DEF PointerInv
<1>6. ListedInv'
  <2> SUFFICES ASSUME NEW x \in Clients, Alive(x)
               PROVE  Reach(next', c, x)
    BY <1>1 DEF ListedInv, HeadOfList, Alive
  <2>1. Reach(next, clients, x)
    BY <1>1, <1>2 DEF ListedInv, HeadOfList
  <2>2. clients \in Clients /\ clients # c /\ \A y \in Clients : next[y] # c
    BY <1>1, <1>2, <2>1 DEF Reach, PointerInv
  <2> QED
    BY <1>1, <2>1, <2>2, ReachPush DEF ControlTypeOK, Pointers
<1>7. SignalInv'
  BY <1>1, <1>2 DEF SignalInv, NewsFor, OnItsWay
<1> QED
  BY <1>4, <1>5, <1>6, <1>7 DEF ListInv

(* The new client is the head of the list, and its thread has started.     *)
LEMMA LinkStep ==
  ASSUME ControlTypeOK, ListInv, Link
  PROVE  ControlTypeOK' /\ ListInv'
<1>1. /\ UNCHANGED <<next, pred, mem, session, messages, connected>>
      /\ pc = "link" /\ pc' = "poll" /\ clients' = main /\ main' = NoClient
      /\ spc' = [spc EXCEPT ![main] = "start"]
  BY DEF Link, Main, store, bounds
<1>2. PointerInv /\ ListedInv /\ SignalInv
  BY DEF ListInv
<1>3. PICK m : m = main
  OBVIOUS
<1>4. m \in Clients /\ mem[m] # "unused" /\ spc[m] = "none" /\ ~connected[m]
  BY <1>1, <1>2, <1>3 DEF PointerInv, SignalInv
<1>5. spc'[m] = "start" /\ \A x \in Clients : x # m => spc'[x] = spc[x]
  BY <1>1, <1>3, <1>4 DEF ControlTypeOK
<1>6. ControlTypeOK'
  BY <1>1 DEF ControlTypeOK, Pointers
<1>7. PointerInv'
  BY <1>1, <1>2, <1>3, <1>4, <1>5 DEF PointerInv
<1>8. ListedInv'
  <2>1. Reach(next, m, m)
    BY <1>4, ReachHead
  <2>2. \A x \in Clients : x # m /\ Alive(x)' => Reach(next, m, x)
    BY <1>1, <1>2, <1>3, <1>5 DEF ListedInv, HeadOfList, Alive
  <2> QED
    BY <1>1, <1>3, <2>1, <2>2 DEF ListedInv, HeadOfList
<1>9. SignalInv'
  BY <1>1, <1>2, <1>4, <1>5 DEF SignalInv, NewsFor, OnItsWay
<1> QED
  BY <1>6, <1>7, <1>8, <1>9 DEF ListInv

(* client_callback: who has got a message is signalled next.               *)
LEMMA CallbackStep ==
  ASSUME ControlTypeOK, ListInv, NEW c \in Clients, ClientCallback(c)
  PROVE  ControlTypeOK' /\ ListInv'
<1>1. /\ UNCHANGED <<clients, next, pred, mem, session, spc, connected>>
      /\ pc = "poll" /\ pc' = "signal" /\ main' = c
      /\ messages' = messages \/ \E x : messages' = [messages EXCEPT ![c] = x]
  BY DEF ClientCallback, Main, ReadMessage, Stored, store, list, sender, bounds
<1>2. PointerInv /\ ListedInv /\ SignalInv
  BY DEF ListInv
<1>3. DOMAIN messages' = Clients /\ \A x \in Clients : x # c => messages'[x] = messages[x]
  BY <1>1 DEF ControlTypeOK
<1>4. ControlTypeOK'
  BY <1>1, <1>3 DEF ControlTypeOK, Pointers
<1>5. PointerInv'
  BY <1>1, <1>2 DEF PointerInv
<1>6. ListedInv'
  BY <1>1, <1>2 DEF ListedInv, HeadOfList, Alive
<1>7. SignalInv'
  BY <1>1, <1>2, <1>3 DEF SignalInv, NewsFor, OnItsWay
<1> QED
  BY <1>4, <1>5, <1>6, <1>7 DEF ListInv

(* The main thread signals a client: if it waits, it waits no longer.      *)
LEMMA Signalling ==
  ASSUME ControlTypeOK, ListInv, NEW c \in Clients, spc' = Signalled(c),
         UNCHANGED <<clients, next, pred, mem, session, messages, connected>>,
         pc # "link", pc' # "link", pc' \in {"signal", "walk", "advance"} => main' \in Clients
  PROVE  /\ PointerInv' /\ ListedInv' /\ DOMAIN spc' = Clients
         /\ \A x \in Clients : spc'[x] \in {"none", "start", "connect"} => ~connected'[x]
         /\ \A x \in Clients : NewsFor(x)' => NewsFor(x) /\ x # c
<1>1. PointerInv /\ ListedInv /\ SignalInv
  BY DEF ListInv
<1>2. DOMAIN spc' = Clients /\ \A x \in Clients : x # c => spc'[x] = spc[x]
  BY DEF ControlTypeOK, Signalled
<1>3. spc'[c] = IF spc[c] = "wait" THEN "woken" ELSE spc[c]
  BY DEF ControlTypeOK, Signalled
<1>4. PointerInv'
  <2>1. \A x \in Clients : spc'[x] = spc[x] \/ (spc'[x] = "woken" /\ spc[x] = "wait")
    BY <1>2, <1>3, Zenon
  <2> QED
    BY <1>1, <2>1 DEF PointerInv
<1>5. ListedInv'
  BY <1>1, <1>2, <1>3 DEF ListedInv, Alive, HeadOfList
<1>6. \A x \in Clients : spc'[x] \in {"none", "start", "connect"} => ~connected'[x]
  BY <1>1, <1>2, <1>3 DEF SignalInv
<1>7. \A x \in Clients : NewsFor(x)' => NewsFor(x) /\ x # c
  BY <1>2, <1>3 DEF NewsFor
<1> QED
  BY <1>2, <1>4, <1>5, <1>6, <1>7

(* The end of client_callback.                                             *)
LEMMA SignalStep ==
  ASSUME ControlTypeOK, ListInv, Signal
  PROVE  ControlTypeOK' /\ ListInv'
<1>1. /\ UNCHANGED <<clients, next, pred, mem, session, messages, connected>>
      /\ pc = "signal" /\ pc' = "poll" /\ main' = NoClient /\ spc' = Signalled(main)
  BY DEF Signal, Main, list, client, store, bounds
<1>2. PICK c : c = main
  OBVIOUS
<1>3. c \in Clients /\ spc' = Signalled(c)
  BY <1>1, <1>2 DEF ListInv, PointerInv
<1>4. /\ PointerInv' /\ ListedInv' /\ DOMAIN spc' = Clients
      /\ \A x \in Clients : spc'[x] \in {"none", "start", "connect"} => ~connected'[x]
      /\ \A x \in Clients : NewsFor(x)' => NewsFor(x) /\ x # c
  BY <1>1, <1>3, Signalling
<1>5. \A x \in Clients : NewsFor(x) => x = c
  BY <1>1, <1>2 DEF ListInv, SignalInv, OnItsWay
<1>6. ControlTypeOK'
  BY <1>1, <1>4 DEF ControlTypeOK, Pointers
<1> QED
  BY <1>4, <1>5, <1>6 DEF ListInv, SignalInv

(* stdin_handler on its way along the list: who is signalled is behind it. *)
LEMMA WalkStep ==
  ASSUME ControlTypeOK, ListInv, Walk, fault' = "none"
  PROVE  ControlTypeOK' /\ ListInv'
<1>1. /\ UNCHANGED <<clients, next, pred, mem, session, messages, connected, main>>
      /\ pc = "walk" /\ pc' = "advance" /\ spc' = Signalled(main)
  BY DEF Walk, Main, list, client, store, bounds
<1>2. PICK c : c = main
  OBVIOUS
<1>3. c \in Clients /\ main' = c /\ spc' = Signalled(c)
  BY <1>1, <1>2 DEF ListInv, PointerInv
<1>4. /\ PointerInv' /\ ListedInv' /\ DOMAIN spc' = Clients
      /\ \A x \in Clients : spc'[x] \in {"none", "start", "connect"} => ~connected'[x]
      /\ \A x \in Clients : NewsFor(x)' => NewsFor(x) /\ x # c
  BY <1>1, <1>3, Signalling
<1>5. ASSUME NEW x \in Clients, NewsFor(x)'
      PROVE  OnItsWay(x)'
  <2>1. x # c /\ Reach(next, c, x)
    BY <1>1, <1>2, <1>4, <1>5 DEF ListInv, SignalInv, OnItsWay
  <2>2. Reach(next, next[c], x)
    BY <2>1, ReachRest
  <2> QED
    BY <1>1, <1>2, <2>2 DEF OnItsWay
<1>6. ControlTypeOK'
  BY <1>1, <1>4 DEF ControlTypeOK
<1> QED
  BY <1>4, <1>5, <1>6 DEF ListInv, SignalInv

(* current = current->next.                                                *)
LEMMA AdvanceStep ==
  ASSUME ControlTypeOK, ListInv, Advance
  PROVE  ControlTypeOK' /\ ListInv'
<1>1. /\ UNCHANGED <<clients, next, pred, mem, session, spc, messages, connected>>
      /\ pc = "advance" /\ main' = next[main]
      /\ pc' = IF next[main] = NoClient THEN "poll" ELSE "walk"
  BY DEF Advance, Main, list, client, store, sender, bounds
<1>2. PointerInv /\ ListedInv /\ SignalInv
  BY DEF ListInv
<1>3. main' \in Pointers
  BY <1>1, <1>2 DEF PointerInv, ControlTypeOK
<1>4. ControlTypeOK'
  BY <1>1, <1>3 DEF ControlTypeOK
<1>5. PointerInv'
  BY <1>1, <1>2, <1>3 DEF PointerInv, Pointers
<1>6. ListedInv'
  BY <1>1, <1>2 DEF ListedInv, Alive, HeadOfList
<1>7. SignalInv'
  <2> SUFFICES ASSUME NEW x \in Clients, NewsFor(x)
               PROVE  OnItsWay(x)'
    BY <1>1, <1>2 DEF SignalInv, NewsFor
  <2>1. Reach(next, next[main], x)
    BY <1>1, <1>2 DEF SignalInv, OnItsWay
  <2>2. next[main] # NoClient
    BY <2>1, ProxyAssumption DEF Reach
  <2> QED
    BY <1>1, <2>1, <2>2 DEF OnItsWay
<1> QED
  BY <1>4, <1>5, <1>6, <1>7 DEF ListInv

(* stdin_handler: on the command to send, the walk begins with the head of *)
(* the list.                                                               *)
LEMMA CommandStep ==
  ASSUME ControlTypeOK, ListInv, StdinHandler
  PROVE  ControlTypeOK' /\ ListInv'
<1>1. /\ UNCHANGED <<clients, next, pred, mem, spc, messages, connected>> /\ pc = "poll"
      /\ \/ session' # "SENDING" /\ UNCHANGED <<pc, main>>
         \/ session' = "SENDING" /\ clients = NoClient /\ UNCHANGED <<pc, main>>
         \/ session' = "SENDING" /\ clients # NoClient /\ pc' = "walk" /\ main' = clients
  BY DEF StdinHandler, Main, list, client, store, sender
<1>2. PointerInv /\ ListedInv /\ SignalInv
  BY DEF ListInv
<1>3. ControlTypeOK'
  BY <1>1 DEF ControlTypeOK
<1>4. PointerInv'
  BY <1>1, <1>2 DEF PointerInv, ControlTypeOK, Pointers
<1>5. ListedInv'
  BY <1>1, <1>2 DEF ListedInv, Alive, HeadOfList
<1>6. SignalInv'
  <2> SUFFICES ASSUME NEW x \in Clients, NewsFor(x)'
               PROVE  OnItsWay(x)'
    BY <1>1, <1>2 DEF SignalInv
  <2>1. session' = "SENDING" /\ Reach(next, clients, x)
    BY <1>1, <1>2 DEF ListedInv, HeadOfList, Alive, NewsFor
  <2>2. clients # NoClient
    BY <2>1, ProxyAssumption DEF Reach
  <2> QED
    BY <1>1, <2>1, <2>2 DEF OnItsWay
<1> QED
  BY <1>3, <1>4, <1>5, <1>6 DEF ListInv

(* Every step keeps the list and the signals right.                        *)
LEMMA ProxyStep ==
  ASSUME ProxyInv, [Next]_vars
  PROVE  ProxyInv'
<1>1. CASE UNCHANGED vars
  <2>1. UNCHANGED <<clients, next, pred, mem, pc, main, spc, connected, messages, session, fault>>
    BY <1>1 DEF vars, list, client, store, sender
  <2>2. ControlTypeOK' = ControlTypeOK /\ PointerInv' = PointerInv
    BY <2>1 DEF ControlTypeOK, PointerInv
  <2>3. ListedInv' = ListedInv
    BY <2>1 DEF ListedInv, Alive, HeadOfList
  <2>4. SignalInv' = SignalInv
    BY <2>1 DEF SignalInv, NewsFor, OnItsWay
  <2> QED
    BY <2>1, <2>2, <2>3, <2>4 DEF ProxyInv, ListInv
<1>2. CASE Next
  <2>1. fault = "none"
    BY <1>2, ZenonT(40) DEF Next, MainThread, SenderThread, Link, Signal, Walk, Advance, StdinHandler, OnConnect,
                ClientCallback, StatusCallback, Start, Wake, Connect, SendHeaders, SendCells, SendFails,
                Pause, SessionRemove, Unlink, ClientFree, Main, Sender
  <2>2. ControlTypeOK /\ ListInv
    BY <2>1 DEF ProxyInv
  <2>3. CASE MainThread
    BY <2>2, <2>3, LinkStep, SignalStep, WalkStep, AdvanceStep DEF MainThread, ProxyInv
  <2>4. CASE StdinHandler
    BY <2>2, <2>4, CommandStep DEF ProxyInv
  <2>5. ASSUME NEW c \in Clients, OnConnect(c) \/ ClientCallback(c)
        PROVE  ProxyInv'
    BY <2>2, <2>5, OnConnectStep, CallbackStep DEF ProxyInv
  <2>6. ASSUME NEW c \in Clients, SessionRemove(c) \/ Unlink(c) \/ ClientFree(c)
        PROVE  ProxyInv'
    BY <2>2, <2>6, RemoveStep, UnlinkStep, FreeStep DEF ProxyInv
  <2>7. ASSUME NEW c \in Clients,
               \/ Start(c) \/ Wake(c) \/ Connect(c) \/ SendHeaders(c) \/ SendCells(c)
               \/ SendFails(c) \/ Pause(c) \/ StatusCallback(c)
        PROVE  ProxyInv'
    <3>1. fault' = "none" => Local(c)
      BY <2>2, <2>7, SenderIsLocal
    <3> QED
      BY <2>2, <3>1, LocalStep DEF ProxyInv
  <2> QED
    BY <1>2, <2>3, <2>4, <2>5, <2>6, <2>7 DEF Next, SenderThread
<1> QED
  BY <1>1, <1>2

(* A sender that waits, connected and in a session that is sending, has    *)
(* nothing to send, unless the main thread is on its way to signal it: for *)
(* any clients that come, go and fail, although client_send_thread and     *)
(* stdin_handler read the state of the session and the list of clients     *)
(* without a lock, and session_remove_client changes the list meanwhile.   *)
THEOREM NobodyWaitsInVain == Spec => []NoMessageForgotten
<1>1. Init => ProxyInv
  BY ProxyAssumption DEF Init, ProxyInv, ControlTypeOK, Pointers, ListInv, PointerInv, ListedInv,
     SignalInv, Alive, NewsFor
<1>2. ProxyInv /\ [Next]_vars => ProxyInv'
  BY ProxyStep
<1>3. ProxyInv => NoMessageForgotten
  BY DEF ProxyInv, ListInv, SignalInv, NewsFor, OnItsWay, NoMessageForgotten, SignalToCome
<1> QED
  BY <1>1, <1>2, <1>3, PTL DEF Spec
=============================================================================
