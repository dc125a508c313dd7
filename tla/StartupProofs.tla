----------------------------- MODULE StartupProofs -----------------------------
(***************************************************************************)
(* What the configuration in memory says after any number of reads, for    *)
(* all keys, values and files; that a master with the path to itself has   *)
(* one stream to each of its workers, for any number of workers; which     *)
(* modules it loads, for lists and outcomes of any length and kind.        *)
(***************************************************************************)
EXTENDS Startup, FiniteSetTheorems, FunctionTheorems, ListInduction

\* Before the first read there is nothing.
ReadInv ==
  /\ file \in Files
  /\ reads \in Seq(Files)
  /\ reads = <<>> => DOMAIN conf = {}

IInv == ReadInv /\ ConfFollowsReads

\* Among the readers of a key, a new read changes nothing but itself.
LEMMA TellersGrow ==
  ASSUME reads \in Seq(Files), file \in Files, reads' = Append(reads, file), NEW k
  PROVE  /\ Len(reads') = Len(reads) + 1
         /\ \A i \in DOMAIN reads : reads'[i] = reads[i] /\ (i \in Tellers(k)' <=> i \in Tellers(k))
         /\ Len(reads') \in Tellers(k)' <=> file # Unreadable /\ k \in Told(file)
         /\ Tellers(k)' \subseteq DOMAIN reads \cup {Len(reads')}
         /\ reads'[Len(reads')] = file
<1>1. /\ Len(reads') = Len(reads) + 1 /\ Len(reads) \in Nat
      /\ DOMAIN reads = 1 .. Len(reads) /\ DOMAIN reads' = 1 .. Len(reads) + 1
      /\ \A i \in DOMAIN reads : reads'[i] = reads[i]
      /\ reads'[Len(reads')] = file
  OBVIOUS
<1> QED
  BY <1>1 DEF Tellers

\* What browser_conf does to one key.
LEMMA KeyRead ==
  ASSUME BrowserConf, NEW k
  PROVE  /\ file # Unreadable /\ k \in Told(file) =>
              k \in DOMAIN conf' /\ conf'[k] = file.keys[k]
         /\ ~(file # Unreadable /\ k \in Told(file)) /\ k \in DOMAIN Defaults =>
              k \in DOMAIN conf' /\ conf'[k] = Defaults[k]
         /\ ~(file # Unreadable /\ k \in Told(file)) /\ k \notin DOMAIN Defaults =>
              /\ k \in DOMAIN conf' <=> k \in DOMAIN conf
              /\ k \in DOMAIN conf => conf'[k] = conf[k]
<1>1. CASE file = Unreadable
  <2>1. conf' = Over(Defaults, conf)
    BY <1>1 DEF BrowserConf, ReadNothing, ReadContents, WithDefaults
  <2> QED
    BY <1>1, <2>1 DEF Over
<1>2. CASE file # Unreadable
  <2> DEFINE told == [j \in Told(file) |-> file.keys[j]]
             base == Over(Defaults, conf)
  <2>1. conf' = Over(told, base)
    BY <1>2 DEF BrowserConf, ReadNothing, ReadContents, WithDefaults, WithKeys
  <2>2. DOMAIN told = Told(file) /\ \A j \in Told(file) : told[j] = file.keys[j]
    OBVIOUS
  <2>3. /\ DOMAIN base = DOMAIN Defaults \cup DOMAIN conf
        /\ \A j \in DOMAIN Defaults : base[j] = Defaults[j]
        /\ \A j \in DOMAIN conf \ DOMAIN Defaults : base[j] = conf[j]
    BY DEF Over
  <2>4. /\ DOMAIN conf' = DOMAIN told \cup DOMAIN base
        /\ \A j \in DOMAIN told : conf'[j] = told[j]
        /\ \A j \in DOMAIN base \ DOMAIN told : conf'[j] = base[j]
    BY <2>1 DEF Over
  <2> HIDE DEF told, base
  <2> QED
    BY <1>2, <2>2, <2>3, <2>4
<1> QED
  BY <1>1, <1>2

LEMMA ReadStep == ReadInv /\ ConfFollowsReads /\ BrowserConf => IInv'
<1> SUFFICES ASSUME ReadInv, ConfFollowsReads, BrowserConf PROVE IInv'
  OBVIOUS
<1>1. reads' = Append(reads, file) /\ file' = file /\ file \in Files /\ reads \in Seq(Files)
  BY DEF BrowserConf, ReadInv
<1>2. ReadInv'
  BY <1>1 DEF ReadInv
<1>3. ASSUME NEW k \in Keys
      PROVE  IF Len(reads)' \in Tellers(k)'
             THEN k \in DOMAIN conf' /\ conf'[k] = reads'[Len(reads')].keys[k]
             ELSE IF k \in DOMAIN Defaults
             THEN k \in DOMAIN conf' /\ conf'[k] = Defaults[k]
             ELSE /\ k \in DOMAIN conf' <=> Tellers(k)' # {}
                  /\ \A i \in Tellers(k)' :
                       (\A j \in Tellers(k)' : j <= i) => conf'[k] = reads'[i].keys[k]
  <2>1. CASE Len(reads)' \in Tellers(k)'
    BY <1>1, <2>1, TellersGrow, KeyRead
  <2>2. CASE Len(reads)' \notin Tellers(k)' /\ k \in DOMAIN Defaults
    BY <1>1, <2>2, TellersGrow, KeyRead
  <2>3. CASE Len(reads)' \notin Tellers(k)' /\ k \notin DOMAIN Defaults
    \* The file says nothing of the key: whoever told it last still does.
    <3>1. Tellers(k)' = Tellers(k) /\ \A i \in Tellers(k) : reads'[i] = reads[i]
      BY <1>1, <2>3, TellersGrow DEF Tellers
    <3>2. /\ k \in DOMAIN conf' <=> k \in DOMAIN conf
          /\ k \in DOMAIN conf => conf'[k] = conf[k]
      BY <1>1, <2>3, TellersGrow, KeyRead
    <3>3. CASE reads = <<>>
      <4>1. Tellers(k) = {} /\ DOMAIN conf = {}
        BY <3>3 DEF Tellers, ReadInv
      <4> QED
        BY <2>3, <3>1, <3>2, <4>1
    <3>4. CASE reads # <<>>
      <4>1. /\ k \in DOMAIN conf <=> Tellers(k) # {}
            /\ \A i \in Tellers(k) :
                 (\A j \in Tellers(k) : j <= i) => conf[k] = reads[i].keys[k]
        <5>1. CASE Len(reads) \in Tellers(k)
          <6>1. k \in DOMAIN conf /\ conf[k] = reads[Len(reads)].keys[k]
            BY <3>4, <5>1 DEF ConfFollowsReads
          <6>2. \A i \in Tellers(k) : i \in 1 .. Len(reads) /\ Len(reads) \in Nat
            BY <1>1 DEF Tellers
          <6> QED
            BY <5>1, <6>1, <6>2
        <5>2. CASE Len(reads) \notin Tellers(k)
          BY <2>3, <3>4, <5>2 DEF ConfFollowsReads
        <5> QED
          BY <5>1, <5>2
      <4> QED
        BY <2>3, <3>1, <3>2, <4>1
    <3> QED
      BY <3>3, <3>4
  <2> QED
    BY <2>1, <2>2, <2>3
<1> QED
  BY <1>2, <1>3 DEF IInv, ConfFollowsReads

LEMMA ConfStep == IInv /\ [Next]_vars => IInv'
<1> SUFFICES ASSUME IInv, [Next]_vars PROVE IInv'
  OBVIOUS
<1>1. CASE UNCHANGED <<file, conf, reads>>
  BY <1>1 DEF IInv, ReadInv, ConfFollowsReads, Tellers
<1>2. CASE Edit
  <2>1. file' \in Files /\ UNCHANGED <<conf, reads>>
    BY <1>2 DEF Edit
  <2> QED
    BY <2>1 DEF IInv, ReadInv, ConfFollowsReads, Tellers
<1>3. CASE BrowserConf
  BY <1>3, ReadStep DEF IInv
<1> QED
  BY <1>1, <1>2, <1>3
     DEF Next, Program, ReadConf, OpenPorts, LoadNext, Publish, CreateSocket, ForkWorker,
         AcceptWorker, AcceptFails, WorkerConnects, WorkerRefused, Reload, AdminEdits,
         OtherCreatesSocket, OtherWorkerConnects, vars, confVars

\* After any history of edits, failed reads and reloads, the configuration is what the
\* files said, for all keys, values and files.
THEOREM ConfReflectsReads == Spec => []ConfFollowsReads
<1>1. Init => IInv
  BY DEF Init, ConfigInit, IInv, ReadInv, ConfFollowsReads
<1>2. IInv => ConfFollowsReads
  BY DEF IInv
<1> QED
  BY <1>1, <1>2, ConfStep, PTL DEF Spec

-------------------------------------------------------------------------------
(* The streams of the workers. *)

Confs == UNION {[K -> Values] : K \in SUBSET Keys}

\* What the proof needs of the types: all but the lists of libraries and modules.
StartTypes ==
  /\ file \in Files
  /\ conf \in Confs
  /\ pc \in {"read", "ports", "modules", "failed"} \cup Published
  /\ worker \in [Ids -> [at : Places, conf : Confs]]
  /\ listening \in BOOLEAN
  /\ queue \in Seq(Ids \cup {Foreigner})
  /\ streams \in Seq(Ids \cup {Foreigner, Broken})
  /\ shared \in {"no", "yes"}

\* How many streams there are at each point of the start.
StreamsInOrder ==
  /\ pc \in {"read", "ports", "modules", "failed", "socket", "fork"} => streams = <<>>
  /\ pc = "accept" => Len(streams) < NWorkers
  /\ pc = "serve" /\ listening => Len(streams) = NWorkers

\* The workers of this master that have connected, each of them once: in the queue or
\* behind a stream.
OwnQueue ==
  /\ \A i \in DOMAIN queue : queue[i] \in Ids /\ worker[queue[i]].at = "connected"
  /\ \A i, j \in DOMAIN queue : queue[i] = queue[j] => i = j
OwnStreams ==
  /\ \A i \in DOMAIN streams : streams[i] \in Ids /\ worker[streams[i]].at = "connected"
  /\ \A i, j \in DOMAIN streams : streams[i] = streams[j] => i = j
  /\ \A i \in DOMAIN queue, j \in DOMAIN streams : queue[i] # streams[j]

StreamInv ==
  /\ StartTypes
  /\ StreamsInOrder
  /\ shared = "no" =>
       /\ OwnQueue
       /\ (pc = "serve" => listening) => OwnStreams

LEMMA OverType ==
  ASSUME NEW f \in Confs, NEW g \in Confs
  PROVE  Over(f, g) \in Confs
<1>1. PICK F \in SUBSET Keys : f \in [F -> Values]
  BY DEF Confs
<1>2. PICK G \in SUBSET Keys : g \in [G -> Values]
  BY DEF Confs
<1>3. Over(f, g) \in [F \cup G -> Values]
  BY <1>1, <1>2 DEF Over
<1> QED
  BY <1>3 DEF Confs

\* What browser_conf makes of the configuration.
LEMMA ConfRead ==
  ASSUME file \in Files, conf \in Confs, BrowserConf
  PROVE  conf' \in Confs /\ file' \in Files
<1>1. Defaults \in Confs
  BY ConfigAssumption DEF Confs
<1>2. Over(Defaults, conf) \in Confs
  BY <1>1, OverType
<1>3. CASE ReadNothing
  BY <1>2, <1>3 DEF ReadNothing, WithDefaults, BrowserConf
<1>4. CASE ReadContents
  <2> DEFINE told == [k \in Told(file) |-> file.keys[k]]
  <2>1. file \in Contents
    BY <1>4, ConfigAssumption DEF ReadContents
  <2>2. PICK K \in SUBSET Keys : file.keys \in [K -> Values \cup {Null}]
    BY <2>1 DEF Contents
  <2>3. Told(file) \in SUBSET Keys /\ told \in [Told(file) -> Values]
    BY <2>2 DEF Told
  <2>4. told \in Confs
    BY <2>3 DEF Confs
  <2>5. conf' = Over(told, Over(Defaults, conf))
    BY <1>4 DEF ReadContents, WithKeys, WithDefaults
  <2> HIDE DEF told
  <2> QED
    BY <1>2, <2>4, <2>5, OverType DEF BrowserConf
<1> QED
  BY <1>3, <1>4 DEF BrowserConf

LEMMA StreamInit == Init => StreamInv
<1> SUFFICES ASSUME Init PROVE StreamInv
  OBVIOUS
<1>1. conf \in Confs
  <2>1. conf \in [{} -> Values]
    BY DEF Init, ConfigInit
  <2> QED
    BY <2>1 DEF Confs
<1>2. StartTypes
  <2>1. worker \in [Ids -> [at : Places, conf : Confs]]
    BY <1>1 DEF Init, Places
  <2>2. <<>> \in Seq(Ids \cup {Foreigner}) /\ <<>> \in Seq(Ids \cup {Foreigner, Broken})
    OBVIOUS
  <2> QED
    BY <1>1, <2>1, <2>2 DEF Init, ConfigInit, StartTypes
<1>3. StreamsInOrder
  BY DEF Init, StreamsInOrder
<1>4. OwnQueue /\ OwnStreams
  BY DEF Init, OwnQueue, OwnStreams
<1> QED
  BY <1>2, <1>3, <1>4 DEF StreamInv

\* Nothing that only concerns the configuration or the modules touches the streams.
LEMMA StreamSame ==
  ASSUME StreamInv, conf' \in Confs, file' \in Files,
         UNCHANGED <<worker, listening, queue, streams, shared>>,
         \/ pc' = pc
         \/ pc \in {"read", "ports", "modules"} /\ pc' \in {"ports", "modules", "failed", "socket"}
  PROVE  StreamInv'
<1>1. StartTypes'
  BY DEF StreamInv, StartTypes, Published
<1>2. StreamsInOrder'
  BY DEF StreamInv, StreamsInOrder
<1>3. (OwnQueue <=> OwnQueue') /\ (OwnStreams <=> OwnStreams')
  BY DEF OwnQueue, OwnStreams
<1>4. (pc = "serve" => listening) <=> (pc = "serve" => listening)'
  BY DEF StreamInv, StartTypes
<1> QED
  BY <1>1, <1>2, <1>3, <1>4 DEF StreamInv

LEMMA StreamSocket == StreamInv /\ CreateSocket => StreamInv'
<1> SUFFICES ASSUME StreamInv, CreateSocket PROVE StreamInv'
  OBVIOUS
<1>1. /\ pc = "socket" /\ pc' = "fork" /\ listening' \in BOOLEAN
      /\ UNCHANGED <<file, conf, worker, queue, streams, shared>>
  BY DEF CreateSocket, confVars, StreamInv, StartTypes
<1>2. StartTypes'
  BY <1>1 DEF StreamInv, StartTypes, Published
<1>3. StreamsInOrder'
  BY <1>1 DEF StreamInv, StreamsInOrder
<1>4. (OwnQueue <=> OwnQueue') /\ (OwnStreams <=> OwnStreams')
  BY <1>1 DEF OwnQueue, OwnStreams
<1> QED
  BY <1>1, <1>2, <1>3, <1>4 DEF StreamInv

\* A worker that is not forked yet is in no list.
LEMMA StreamFork == StreamInv /\ ForkWorker => StreamInv'
<1> SUFFICES ASSUME StreamInv, ForkWorker PROVE StreamInv'
  OBVIOUS
<1>1. /\ pc = "fork" /\ pc' \in {"fork", "accept"}
      /\ UNCHANGED <<file, conf, listening, queue, streams, shared>>
  BY DEF ForkWorker, confVars
<1>2. PICK w \in Ids : /\ worker[w].at = "none"
                       /\ \/ worker' = [worker EXCEPT ![w] = [at |-> "sleeping", conf |-> conf]]
                          \/ UNCHANGED worker
  BY DEF ForkWorker, Forked
<1>3. StartTypes'
  BY <1>1, <1>2 DEF StreamInv, StartTypes, Published, Places
<1>4. StreamsInOrder'
  BY <1>1, StartupAssumption DEF StreamInv, StreamsInOrder
<1>5. \A v \in Ids : worker[v].at = "connected" => worker'[v].at = "connected"
  BY <1>2 DEF StreamInv, StartTypes
<1>6. (OwnQueue => OwnQueue') /\ (OwnStreams => OwnStreams')
  BY <1>1, <1>5 DEF OwnQueue, OwnStreams
<1> QED
  BY <1>1, <1>3, <1>4, <1>6 DEF StreamInv

\* A worker that connects was asleep, so it is in no list yet.
LEMMA StreamConnect ==
  ASSUME StreamInv, NEW w \in Ids, WorkerConnects(w)
  PROVE  StreamInv'
<1>1. /\ worker[w].at = "sleeping"
      /\ UNCHANGED <<file, conf, pc, listening, streams, shared>>
  BY DEF WorkerConnects, confVars
<1>2. PICK to \in Places :
        /\ worker' = [worker EXCEPT ![w].at = to]
        /\ queue' = IF to = "connected" THEN Append(queue, w) ELSE queue
  BY DEF WorkerConnects, Places
<1>3. worker \in [Ids -> [at : Places, conf : Confs]] /\ queue \in Seq(Ids \cup {Foreigner})
  BY DEF StreamInv, StartTypes
<1>4. /\ worker' \in [Ids -> [at : Places, conf : Confs]]
      /\ worker'[w].at = to
      /\ \A v \in Ids \ {w} : worker'[v].at = worker[v].at
  BY <1>2, <1>3
<1>5. queue' \in Seq(Ids \cup {Foreigner})
  BY <1>2, <1>3
<1>6. StartTypes'
  BY <1>1, <1>4, <1>5 DEF StreamInv, StartTypes
<1>7. StreamsInOrder'
  BY <1>1 DEF StreamInv, StreamsInOrder
<1>8. OwnStreams => \A i \in DOMAIN streams : streams[i] # w
  BY <1>1 DEF OwnStreams
<1>9. OwnQueue => \A i \in DOMAIN queue : queue[i] # w
  BY <1>1 DEF OwnQueue
<1>10. CASE to = "connected"
  <2>1. /\ DOMAIN queue' = DOMAIN queue \cup {Len(queue) + 1}
        /\ \A i \in DOMAIN queue : queue'[i] = queue[i]
        /\ queue'[Len(queue) + 1] = w
    BY <1>2, <1>3, <1>10
  <2>2. OwnQueue => OwnQueue'
    BY <1>4, <1>9, <1>10, <2>1 DEF OwnQueue
  <2>3. OwnQueue /\ OwnStreams => OwnStreams'
    BY <1>1, <1>4, <1>8, <2>1 DEF OwnStreams
  <2> QED
    BY <1>1, <1>6, <1>7, <2>2, <2>3 DEF StreamInv
<1>11. CASE to # "connected"
  <2>1. queue' = queue
    BY <1>2, <1>11
  <2>2. OwnQueue => OwnQueue'
    BY <1>4, <1>9, <2>1 DEF OwnQueue
  <2>3. OwnStreams => OwnStreams'
    BY <1>1, <1>4, <1>8, <2>1 DEF OwnStreams
  <2> QED
    BY <1>1, <1>6, <1>7, <2>2, <2>3 DEF StreamInv
<1> QED
  BY <1>10, <1>11

LEMMA StreamRefused ==
  ASSUME StreamInv, NEW w \in Ids, WorkerRefused(w)
  PROVE  StreamInv'
<1>1. /\ worker[w].at = "sleeping"
      /\ worker' = [worker EXCEPT ![w].at = "spinning"]
      /\ UNCHANGED <<file, conf, pc, listening, queue, streams, shared>>
  BY DEF WorkerRefused, confVars
<1>2. worker \in [Ids -> [at : Places, conf : Confs]]
  BY DEF StreamInv, StartTypes
<1>3. /\ worker' \in [Ids -> [at : Places, conf : Confs]]
      /\ \A v \in Ids : worker[v].at = "connected" => worker'[v].at = "connected"
  BY <1>1, <1>2 DEF Places
<1>4. StartTypes'
  BY <1>1, <1>3 DEF StreamInv, StartTypes
<1>5. StreamsInOrder'
  BY <1>1 DEF StreamInv, StreamsInOrder
<1>6. (OwnQueue => OwnQueue') /\ (OwnStreams => OwnStreams')
  BY <1>1, <1>3 DEF OwnQueue, OwnStreams
<1> QED
  BY <1>1, <1>4, <1>5, <1>6 DEF StreamInv

\* The first of the queue goes behind the last of the streams.
LEMMA StreamAccept == StreamInv /\ AcceptWorker => StreamInv'
<1> SUFFICES ASSUME StreamInv, AcceptWorker PROVE StreamInv'
  OBVIOUS
<1>1. /\ pc = "accept" /\ listening /\ queue # <<>>
      /\ streams' = Append(streams, Head(queue)) /\ queue' = Tail(queue)
      /\ pc' = IF Len(streams') = NWorkers THEN "serve" ELSE "accept"
      /\ UNCHANGED <<file, conf, worker, listening, shared>>
  BY DEF AcceptWorker, confVars
<1>2. queue \in Seq(Ids \cup {Foreigner}) /\ streams \in Seq(Ids \cup {Foreigner, Broken})
  BY DEF StreamInv, StartTypes
<1>3. /\ queue' \in Seq(Ids \cup {Foreigner}) /\ Len(queue') = Len(queue) - 1
      /\ Len(queue) \in Nat \ {0}
      /\ \A i \in 1 .. Len(queue) - 1 : queue'[i] = queue[i + 1]
      /\ Head(queue) = queue[1] /\ queue[1] \in Ids \cup {Foreigner}
  BY <1>1, <1>2
<1>4. /\ streams' \in Seq(Ids \cup {Foreigner, Broken}) /\ Len(streams') = Len(streams) + 1
      /\ Len(streams) \in Nat
      /\ \A i \in 1 .. Len(streams) : streams'[i] = streams[i]
      /\ streams'[Len(streams) + 1] = queue[1]
  BY <1>1, <1>2, <1>3
<1>5. /\ DOMAIN queue = 1 .. Len(queue) /\ DOMAIN queue' = 1 .. Len(queue) - 1
      /\ DOMAIN streams = 1 .. Len(streams) /\ DOMAIN streams' = 1 .. Len(streams) + 1
  BY <1>2, <1>3, <1>4
<1>6. StartTypes'
  BY <1>1, <1>3, <1>4 DEF StreamInv, StartTypes, Published
<1>7. StreamsInOrder'
  BY <1>1, <1>4, StartupAssumption DEF StreamInv, StreamsInOrder
<1>8. OwnQueue => OwnQueue'
  BY <1>1, <1>3, <1>5 DEF OwnQueue
<1>9. OwnQueue /\ OwnStreams => OwnStreams'
  <2> SUFFICES ASSUME OwnQueue, OwnStreams PROVE OwnStreams'
    OBVIOUS
  <2>1. ASSUME NEW i \in DOMAIN streams'
        PROVE  streams'[i] \in Ids /\ worker'[streams'[i]].at = "connected"
    BY <1>1, <1>3, <1>4, <1>5 DEF OwnQueue, OwnStreams
  <2>2. ASSUME NEW i \in DOMAIN streams', NEW j \in DOMAIN streams', streams'[i] = streams'[j]
        PROVE  i = j
    <3>1. 1 \in DOMAIN queue
      BY <1>3, <1>5
    <3>2. \A k \in DOMAIN streams : streams'[k] = streams[k] /\ streams[k] # queue[1]
      BY <1>4, <1>5, <3>1 DEF OwnStreams
    <3>3. \A k, l \in DOMAIN streams : streams[k] = streams[l] => k = l
      BY DEF OwnStreams
    <3>4. \A k \in DOMAIN streams' : k \in DOMAIN streams \/ k = Len(streams) + 1
      BY <1>4, <1>5
    <3> QED
      BY <1>4, <2>2, <3>2, <3>3, <3>4
  <2>3. ASSUME NEW i \in DOMAIN queue', NEW j \in DOMAIN streams'
        PROVE  queue'[i] # streams'[j]
    <3>1. queue'[i] = queue[i + 1] /\ i + 1 \in DOMAIN queue /\ 1 \in DOMAIN queue /\ i + 1 # 1
      BY <1>3, <1>5
    <3>2. CASE j \in DOMAIN streams
      BY <1>4, <1>5, <3>1, <3>2 DEF OwnStreams
    <3>3. CASE j = Len(streams) + 1
      BY <1>4, <3>1, <3>3 DEF OwnQueue
    <3> QED
      BY <1>4, <1>5, <3>2, <3>3
  <2> QED
    BY <2>1, <2>2, <2>3 DEF OwnStreams
<1>10. pc # "serve"
  BY <1>1
<1> QED
  BY <1>1, <1>6, <1>7, <1>8, <1>9, <1>10 DEF StreamInv

LEMMA StreamBroken == StreamInv /\ AcceptFails => StreamInv'
<1> SUFFICES ASSUME StreamInv, AcceptFails PROVE StreamInv'
  OBVIOUS
<1>1. /\ pc = "accept" /\ pc' = "serve" /\ ~listening /\ ~listening'
      /\ streams' = [i \in Ids |-> Broken]
      /\ UNCHANGED <<file, conf, worker, listening, queue, shared>>
  BY DEF AcceptFails, confVars
<1>2. streams' \in Seq(Ids \cup {Foreigner, Broken})
  BY <1>1, StartupAssumption DEF Ids
<1>3. StartTypes'
  BY <1>1, <1>2 DEF StreamInv, StartTypes, Published
<1>4. StreamsInOrder'
  BY <1>1 DEF StreamsInOrder
<1>5. OwnQueue <=> OwnQueue'
  BY <1>1 DEF OwnQueue
<1> QED
  BY <1>1, <1>3, <1>4, <1>5 DEF StreamInv

\* The other server takes the path, or sends its worker: the start is not alone.
LEMMA StreamShared == StreamInv /\ (OtherCreatesSocket \/ OtherWorkerConnects) => StreamInv'
<1> SUFFICES ASSUME StreamInv, OtherCreatesSocket \/ OtherWorkerConnects PROVE StreamInv'
  OBVIOUS
<1>1. /\ shared' = "yes" /\ UNCHANGED <<file, conf, pc, worker, listening, streams>>
      /\ queue' = queue \/ queue' = Append(queue, Foreigner)
  BY DEF OtherCreatesSocket, OtherWorkerConnects, confVars
<1>2. queue' \in Seq(Ids \cup {Foreigner})
  BY <1>1 DEF StreamInv, StartTypes
<1>3. StartTypes' /\ StreamsInOrder'
  BY <1>1, <1>2 DEF StreamInv, StartTypes, StreamsInOrder
<1> QED
  BY <1>1, <1>3 DEF StreamInv

LEMMA StreamStep == StreamInv /\ [Next]_vars => StreamInv'
<1> SUFFICES ASSUME StreamInv, [Next]_vars PROVE StreamInv'
  OBVIOUS
<1>t. conf \in Confs /\ file \in Files
  BY DEF StreamInv, StartTypes
<1>1. CASE ReadConf \/ Reload
  BY <1>1, <1>t, ConfRead, StreamSame DEF ReadConf, Reload, bootVars
<1>2. CASE OpenPorts \/ LoadNext \/ Publish
  BY <1>2, <1>t, StreamSame DEF OpenPorts, LoadNext, Publish, confVars
<1>3. CASE AdminEdits
  BY <1>3, <1>t, StreamSame DEF AdminEdits, Edit, bootVars
<1>4. CASE UNCHANGED vars
  BY <1>4, <1>t, StreamSame DEF vars, confVars, bootVars
<1>5. CASE \E w \in Ids : WorkerConnects(w) \/ WorkerRefused(w)
  BY <1>5, StreamConnect, StreamRefused
<1>6. CASE CreateSocket \/ ForkWorker \/ AcceptWorker \/ AcceptFails
  BY <1>6, StreamSocket, StreamFork, StreamAccept, StreamBroken
<1>7. CASE OtherCreatesSocket \/ OtherWorkerConnects
  BY <1>7, StreamShared
<1> QED
  BY <1>1, <1>2, <1>3, <1>4, <1>5, <1>6, <1>7 DEF Next, Program

\* As many streams as workers, to different workers: there is one to each.
LEMMA StreamsReachAll == StreamInv => StreamsToWorkers
<1> SUFFICES ASSUME StreamInv, pc = "serve", listening, shared = "no"
             PROVE  /\ Len(streams) = NWorkers
                    /\ \A w \in Ids : \E i \in DOMAIN streams : streams[i] = w
  BY DEF StreamsToWorkers
<1>1. Len(streams) = NWorkers /\ OwnStreams
  BY DEF StreamInv, StreamsInOrder
<1>2. DOMAIN streams = Ids /\ streams \in [Ids -> Ids]
  BY <1>1 DEF StreamInv, StartTypes, OwnStreams, Ids
<1>3. streams \in Injection(Ids, Ids)
  BY <1>1, <1>2, Fun_IsInj DEF OwnStreams
<1>4. IsFiniteSet(Ids)
  BY FS_Interval, StartupAssumption DEF Ids
<1>5. streams \in Surjection(Ids, Ids)
  BY <1>3, <1>4, FS_Injection
<1>6. \A w \in Ids : \E i \in Ids : streams[i] = w
  BY ONLY <1>5, Fun_SurjectionProperties
<1> QED
  BY <1>1, <1>2, <1>6

\* However the start goes, the queue and the streams keep their types and lengths; and
\* while nobody else uses the path they name workers that have connected, each once.
THEOREM StreamInvariance == Spec => []StreamInv
<1> QED
  BY StreamInit, StreamStep, PTL DEF Spec

\* With the path to itself, a master that serves and listens has one stream to each of
\* its workers, whatever order they come in, for any number of workers.
THEOREM EveryWorkerReached == Spec => []StreamsToWorkers
<1> QED
  BY StreamInvariance, StreamsReachAll, PTL

-------------------------------------------------------------------------------
(* CloseByName: its loop on a list whose last module alone has the name. *)

\* f is the recursive function of CloseByName.
Closes(ms, n, f) ==
  f = [i \in 0 .. Len(ms) |->
        IF i = 0 THEN [skip |-> FALSE, kept |-> <<>>]
        ELSE IF ms[i].name = n /\ ~f[i - 1].skip
        THEN [skip |-> TRUE, kept |-> f[i - 1].kept]
        ELSE [skip |-> FALSE, kept |-> Append(f[i - 1].kept, ms[i])]]

\* Up to the last module nothing is erased; the last one is.
Closing(ms, n) ==
  [i \in 0 .. Len(ms) |->
     IF i < Len(ms) THEN [skip |-> FALSE, kept |-> SubSeq(ms, 1, i)]
     ELSE [skip |-> TRUE, kept |-> SubSeq(ms, 1, i - 1)]]

LEMMA ClosingCloses ==
  ASSUME NEW T, NEW ms \in Seq(T), NEW n, ms # <<>>, ms[Len(ms)].name = n,
         \A i \in 1 .. Len(ms) - 1 : ms[i].name # n
  PROVE  Closes(ms, n, Closing(ms, n))
<1> DEFINE f == Closing(ms, n)
           body(i) == IF i = 0 THEN [skip |-> FALSE, kept |-> <<>>]
                      ELSE IF ms[i].name = n /\ ~f[i - 1].skip
                      THEN [skip |-> TRUE, kept |-> f[i - 1].kept]
                      ELSE [skip |-> FALSE, kept |-> Append(f[i - 1].kept, ms[i])]
<1>1. Len(ms) \in Nat \ {0}
  OBVIOUS
<1>2. ASSUME NEW i \in 0 .. Len(ms)
      PROVE  f[i] = IF i < Len(ms) THEN [skip |-> FALSE, kept |-> SubSeq(ms, 1, i)]
                    ELSE [skip |-> TRUE, kept |-> SubSeq(ms, 1, i - 1)]
  BY DEF Closing
<1>3. f = [i \in 0 .. Len(ms) |-> f[i]]
  BY DEF Closing
<1> HIDE DEF f
<1>4. ASSUME NEW i \in 0 .. Len(ms) PROVE f[i] = body(i)
  <2>1. CASE i = 0
    <3>1. SubSeq(ms, 1, 0) = <<>> /\ 0 \in 0 .. Len(ms) /\ 0 < Len(ms)
      BY <1>1
    <3>2. f[0] = [skip |-> FALSE, kept |-> SubSeq(ms, 1, 0)]
      BY <1>2, <3>1
    <3> QED
      BY <2>1, <3>1, <3>2
  <2>2. CASE i # 0
    <3>0. i - 1 \in 0 .. Len(ms) /\ i - 1 < Len(ms)
      BY <1>1, <2>2
    <3>1. f[i - 1] = [skip |-> FALSE, kept |-> SubSeq(ms, 1, i - 1)]
      BY <1>2, <3>0
    <3>2. CASE i = Len(ms)
      <4>0. ~ (i < Len(ms))
        BY <1>1, <3>2
      <4>1. f[i] = [skip |-> TRUE, kept |-> SubSeq(ms, 1, i - 1)]
        BY <1>2, <4>0
      <4>2. ms[i].name = n
        BY <3>2
      <4>3. body(i) = [skip |-> TRUE, kept |-> f[i - 1].kept]
        BY <2>2, <3>1, <4>2
      <4> QED
        BY <3>1, <4>1, <4>3
    <3>3. CASE i < Len(ms)
      <4>1. SubSeq(ms, 1, i) = Append(SubSeq(ms, 1, i - 1), ms[i])
        BY <1>1, <2>2, <3>3
      <4>2. f[i] = [skip |-> FALSE, kept |-> SubSeq(ms, 1, i)]
        BY <1>2, <3>3
      <4>3. ms[i].name # n
        BY <1>1, <2>2, <3>3
      <4>4. body(i) = [skip |-> FALSE, kept |-> Append(f[i - 1].kept, ms[i])]
        BY <2>2, <4>3
      <4>5. f[i - 1].kept = SubSeq(ms, 1, i - 1)
        BY <3>1
      <4> HIDE DEF body
      <4> QED
        BY <4>1, <4>2, <4>4, <4>5
    <3>4. i = Len(ms) \/ i < Len(ms)
      BY <1>1
    <3> HIDE DEF body
    <3> QED
      BY <3>2, <3>3, <3>4
  <2> QED
    BY <2>1, <2>2
<1>5. f = [i \in 0 .. Len(ms) |-> body(i)]
  <2> HIDE DEF body
  <2> QED
    BY <1>3, <1>4
<1> QED
  BY <1>5 DEF Closes, f

LEMMA ClosesUnique ==
  ASSUME NEW T, NEW ms \in Seq(T), NEW n, NEW f, NEW g, Closes(ms, n, f), Closes(ms, n, g)
  PROVE  f = g
<1> DEFINE N == {k \in Nat : k <= Len(ms) => f[k] = g[k]}
<1>1. 0 \in N
  BY DEF Closes
<1>2. ASSUME NEW k \in N PROVE k + 1 \in N
  <2> SUFFICES ASSUME k + 1 <= Len(ms) PROVE f[k + 1] = g[k + 1]
    OBVIOUS
  <2>1. f[k] = g[k]
    OBVIOUS
  <2>2. k + 1 \in 0 .. Len(ms) /\ k + 1 # 0 /\ (k + 1) - 1 = k
    OBVIOUS
  <2>3. f[k + 1] = IF ms[k + 1].name = n /\ ~f[k].skip
                   THEN [skip |-> TRUE, kept |-> f[k].kept]
                   ELSE [skip |-> FALSE, kept |-> Append(f[k].kept, ms[k + 1])]
    BY <2>2, ZenonT(60) DEF Closes
  <2>4. g[k + 1] = IF ms[k + 1].name = n /\ ~g[k].skip
                   THEN [skip |-> TRUE, kept |-> g[k].kept]
                   ELSE [skip |-> FALSE, kept |-> Append(g[k].kept, ms[k + 1])]
    BY <2>2 DEF Closes
  <2> QED
    BY <2>1, <2>3, <2>4
<1>3. N = Nat
  <2> HIDE DEF N
  <2> QED
    BY <1>1, <1>2, AllNumbers DEF N
<1>4. \A k \in 0 .. Len(ms) : f[k] = g[k]
  BY <1>3
<1>5. f = [k \in 0 .. Len(ms) |-> f[k]] /\ g = [k \in 0 .. Len(ms) |-> g[k]]
  BY DEF Closes
<1> QED
  BY <1>4, <1>5

\* It closes the module that was loaded last, if no other has its name.
LEMMA CloseLast ==
  ASSUME NEW T, NEW ms \in Seq(T), NEW m \in T, \A i \in DOMAIN ms : ms[i].name # m.name
  PROVE  CloseByName(Append(ms, m), m.name) = ms
<1> DEFINE all == Append(ms, m)
           n == m.name
           f == CHOOSE h : Closes(all, n, h)
<1>1. /\ all \in Seq(T) /\ Len(all) = Len(ms) + 1 /\ Len(ms) \in Nat /\ all # <<>>
      /\ all[Len(all)] = m /\ \A i \in 1 .. Len(all) - 1 : all[i] = ms[i]
  OBVIOUS
<1>2. Closes(all, n, Closing(all, n))
  <2>1. \A i \in 1 .. Len(all) - 1 : all[i].name # n
    BY <1>1
  <2> HIDE DEF all
  <2> QED
    BY <1>1, <2>1, ClosingCloses
<1>3. Closes(all, n, f)
  BY <1>2
<1>4. CloseByName(all, n) = f[Len(all)].kept
  BY Zenon DEF CloseByName, Closes
<1>5. f = Closing(all, n)
  <2> HIDE DEF f, all
  <2> QED
    BY <1>1, <1>2, <1>3, ClosesUnique
<1>6. Closing(all, n)[Len(all)].kept = SubSeq(all, 1, Len(ms))
  <2> HIDE DEF all
  <2> QED
    BY <1>1 DEF Closing
<1>7. SubSeq(all, 1, Len(ms)) = ms
  BY <1>1
<1> QED
  BY <1>4, <1>5, <1>6, <1>7

-------------------------------------------------------------------------------
(* The modules of a start. *)

Modules == [name : Names, with : Confs]

ListTypes ==
  /\ names \in Seq(Names) /\ dirs \in Seq(Dirs) /\ list \in Seq(Libraries)
  /\ reads \in Seq(Files) /\ Len(reads) <= MaxReads
  /\ outcome \in Loads
  /\ next \in Nat
  /\ loaded \in Seq(Modules)
  /\ path \in {"nobody", "own", "other"}

NamesOf(ms) == [i \in DOMAIN ms |-> ms[i].name]

\* The list is that of the first file until the modules are loaded; and those before
\* the next entry are loaded, without the ones that failed.
LoadedSoFar ==
  /\ pc = "read" => names = <<>> /\ dirs = <<>> /\ list = <<>> /\ reads = <<>>
  /\ pc # "read" => reads # <<>>
  /\ pc \in {"read", "ports"} => next = 1 /\ loaded = <<>>
  /\ pc \in {"ports", "modules"} => [i \in DOMAIN list |-> list[i][1]] = Listed
  /\ pc = "modules" =>
       /\ next \in 1 .. Len(list) + 1
       /\ NamesOf(loaded) = Only(SubSeq(Listed, 1, next - 1), Willing)
  /\ pc \in Published => NamesOf(loaded) = Only(Listed, Willing)

ModuleInv == StreamInv /\ ListTypes /\ LoadedSoFar

LEMMA FirstDirHas ==
  ASSUME NEW ds \in Seq(Dirs), NEW n \in There(ds)
  PROVE  <<n, FirstDir(n, ds)>> \in Libraries
<1> DEFINE Has == {i \in DOMAIN ds : <<n, ds[i]>> \in Libraries}
<1>0. DOMAIN ds = 1 .. Len(ds) /\ Len(ds) \in Nat
  OBVIOUS
<1>1. Has \in SUBSET Nat /\ Has # {}
  BY <1>0 DEF There
<1>2. PICK i \in Has : \A k \in Has : i <= k
  <2> HIDE DEF Has
  <2> QED
    BY <1>1, LeastNumber
<1>3. \A j \in 1 .. i - 1 : j \in DOMAIN ds /\ j \notin Has
  <2>1. i \in 1 .. Len(ds)
    BY <1>0
  <2>2. \A j \in 1 .. i - 1 : j \in 1 .. Len(ds) /\ ~ (i <= j)
    BY <1>0, <2>1
  <2> QED
    BY <1>0, <1>2, <2>2
<1>4. \E k \in DOMAIN ds : <<n, ds[k]>> \in Libraries
                           /\ \A j \in 1 .. k - 1 : <<n, ds[j]>> \notin Libraries
  BY <1>2, <1>3
<1> QED
  BY <1>4 DEF FirstDir

LEMMA FoundIs ==
  ASSUME NEW ns \in Seq(Names), NEW ds \in Seq(Dirs)
  PROVE  /\ Found(ns, ds) \in Seq(Libraries)
         /\ [i \in DOMAIN Found(ns, ds) |-> Found(ns, ds)[i][1]] = Only(ns, There(ds))
<1> DEFINE there == Only(ns, There(ds))
<1>1. there \in Seq(Names \cap There(ds))
  BY OnlyType
<1> HIDE DEF there
<1>2. Found(ns, ds) = [i \in DOMAIN there |-> <<there[i], FirstDir(there[i], ds)>>]
  BY DEF Found, there
<1>3. \A i \in DOMAIN there : <<there[i], FirstDir(there[i], ds)>> \in Libraries
  BY <1>1, FirstDirHas
<1>4. DOMAIN there = 1 .. Len(there) /\ Len(there) \in Nat
  BY <1>1
<1>5. Found(ns, ds) \in Seq(Libraries)
  BY <1>2, <1>3, <1>4
<1>6. [i \in DOMAIN Found(ns, ds) |-> Found(ns, ds)[i][1]] = [i \in DOMAIN there |-> there[i]]
  BY <1>2
<1>7. there = [i \in DOMAIN there |-> there[i]]
  BY <1>1
<1> QED
  BY <1>5, <1>6, <1>7 DEF there

LEMMA ListsRead ==
  ASSUME ListTypes, StartTypes, BrowserConf
  PROVE  /\ names' \in Seq(Names) /\ dirs' \in Seq(Dirs) /\ list' \in Seq(Libraries)
         /\ reads' \in Seq(Files) /\ Len(reads') <= MaxReads
         /\ reads' = Append(reads, file)
<1>1. reads' = Append(reads, file) /\ Len(reads) < MaxReads /\ file \in Files
  BY DEF BrowserConf, StartTypes
<1>2. reads' \in Seq(Files) /\ Len(reads') <= MaxReads
  BY <1>1, ConfigAssumption DEF ListTypes
<1>3. CASE ReadNothing
  BY <1>1, <1>2, <1>3 DEF ReadNothing, ListTypes
<1>4. CASE ReadContents
  <2>1. file \in Contents
    BY <1>1, <1>4, ConfigAssumption DEF ReadContents
  <2>2. file.modules \in Seq(Names) /\ file.dirs \in Seq(Dirs)
    BY <2>1 DEF Contents
  <2>3. names' \in Seq(Names) /\ dirs' \in Seq(Dirs)
    BY <1>4, <2>2 DEF ReadContents, ListTypes
  <2>4. Found(names', dirs') \in Seq(Libraries)
    BY <2>3, FoundIs
  <2>5. list' \in Seq(Libraries)
    BY <1>4, <2>4 DEF ReadContents, ListTypes
  <2> QED
    BY <1>1, <1>2, <2>3, <2>5
<1> QED
  BY <1>2, <1>3, <1>4, <1>1 DEF BrowserConf

LEMMA ModuleInit == Init => ModuleInv
<1> SUFFICES ASSUME Init PROVE ModuleInv
  OBVIOUS
<1>1. StreamInv
  BY StreamInit
<1>2. /\ pc = "read" /\ names = <<>> /\ dirs = <<>> /\ list = <<>> /\ reads = <<>>
      /\ next = 1 /\ loaded = <<>> /\ outcome \in Loads /\ path \in {"nobody", "other"}
  BY DEF Init, ConfigInit
<1>3. ListTypes
  BY <1>2, ConfigAssumption DEF ListTypes
<1>4. LoadedSoFar
  BY <1>2 DEF LoadedSoFar, Published
<1> QED
  BY <1>1, <1>3, <1>4 DEF ModuleInv

\* The first read finds the list.
LEMMA ModuleRead == ModuleInv /\ ReadConf => ListTypes' /\ LoadedSoFar'
<1> SUFFICES ASSUME ModuleInv, ReadConf PROVE ListTypes' /\ LoadedSoFar'
  OBVIOUS
<1>1. /\ pc = "read" /\ pc' = "ports" /\ BrowserConf
      /\ UNCHANGED <<outcome, next, loaded, path>>
      /\ names = <<>> /\ dirs = <<>> /\ list = <<>> /\ reads = <<>>
      /\ next = 1 /\ loaded = <<>>
  BY DEF ReadConf, ModuleInv, LoadedSoFar
<1>2. ListTypes /\ StartTypes
  BY DEF ModuleInv, StreamInv
<1>3. ListTypes'
  BY <1>1, <1>2, ListsRead DEF ListTypes
<1>4. reads' # <<>> /\ reads'[1] = file
  <2>1. reads' = Append(<<>>, file)
    BY <1>1, <1>2, ListsRead
  <2> QED
    BY <2>1
<1>5. [i \in DOMAIN list' |-> list'[i][1]] = Listed'
  <2>1. CASE ReadNothing
    BY <1>1, <1>4, <2>1 DEF ReadNothing, Listed
  <2>2. CASE ReadContents
    <3>1. file \in Contents
      BY <1>2, <2>2, ConfigAssumption DEF ReadContents, StartTypes
    <3>2. file.modules \in Seq(Names) /\ file.dirs \in Seq(Dirs) /\ file # Unreadable
      BY <2>2, <3>1 DEF Contents, ReadContents
    <3>3. names' = file.modules /\ dirs' = file.dirs
      BY <1>1, <2>2, <3>2 DEF ReadContents
    <3>4. list' = Found(file.modules, file.dirs)
      <4>1. Found(file.modules, file.dirs) \in Seq(Libraries)
        BY <3>2, FoundIs
      <4> QED
        BY <1>1, <2>2, <3>3, <4>1 DEF ReadContents
    <3>5. Listed' = Only(file.modules, There(file.dirs))
      BY <1>4, <3>2 DEF Listed
    <3> QED
      BY <3>2, <3>4, <3>5, FoundIs
  <2> QED
    BY <1>1, <2>1, <2>2 DEF BrowserConf
<1>6. LoadedSoFar'
  BY <1>1, <1>4, <1>5 DEF LoadedSoFar, Published
<1> QED
  BY <1>3, <1>6

\* A later read changes neither the first file nor the modules.
LEMMA ModuleReload == ModuleInv /\ Reload => ListTypes' /\ LoadedSoFar'
<1> SUFFICES ASSUME ModuleInv, Reload PROVE ListTypes' /\ LoadedSoFar'
  OBVIOUS
<1>1. pc \in Published /\ BrowserConf /\ UNCHANGED <<pc, outcome, next, loaded, path>>
  BY DEF Reload, bootVars
<1>2. ListTypes /\ StartTypes /\ LoadedSoFar
  BY DEF ModuleInv, StreamInv
<1>3. ListTypes'
  BY <1>1, <1>2, ListsRead DEF ListTypes
<1>4. reads # <<>> /\ reads \in Seq(Files) /\ reads' = Append(reads, file)
  BY <1>1, <1>2, ListsRead DEF LoadedSoFar, ListTypes, Published
<1>5. reads' # <<>> /\ reads'[1] = reads[1]
  BY <1>4
<1>6. Listed' = Listed /\ Willing' = Willing
  BY <1>1, <1>5 DEF Listed, Willing
<1>7. LoadedSoFar'
  BY <1>1, <1>2, <1>5, <1>6 DEF LoadedSoFar, NamesOf, Published
<1> QED
  BY <1>3, <1>7

LEMMA ListedNames ==
  ASSUME ListTypes, StartTypes, reads # <<>>
  PROVE  Listed \in Seq(Names)
<1>1. reads[1] \in Files
  BY DEF ListTypes
<1>2. CASE reads[1] = Unreadable
  BY <1>2 DEF Listed
<1>3. CASE reads[1] # Unreadable
  <2>1. reads[1] \in Contents
    BY <1>1, <1>3, ConfigAssumption
  <2>2. reads[1].modules \in Seq(Names)
    BY <2>1 DEF Contents
  <2>3. Only(reads[1].modules, There(reads[1].dirs)) \in Seq(Names \cap There(reads[1].dirs))
    BY <2>2, OnlyType
  <2> QED
    BY <1>3, <2>3 DEF Listed
<1> QED
  BY <1>2, <1>3

\* One entry more: its module is loaded exactly if it is willing.
LEMMA ModuleLoad == ModuleInv /\ LoadNext => ListTypes' /\ LoadedSoFar'
<1> SUFFICES ASSUME ModuleInv, LoadNext PROVE ListTypes' /\ LoadedSoFar'
  OBVIOUS
<1>1. /\ pc = "modules" /\ next <= Len(list) /\ next' = next + 1
      /\ UNCHANGED <<file, conf, names, dirs, list, reads, pc, outcome, path>>
  BY DEF LoadNext, confVars
<1>2. ListTypes /\ StartTypes /\ LoadedSoFar
  BY DEF ModuleInv, StreamInv
<1>3. /\ reads # <<>> /\ [i \in DOMAIN list |-> list[i][1]] = Listed
      /\ next \in 1 .. Len(list) + 1
      /\ NamesOf(loaded) = Only(SubSeq(Listed, 1, next - 1), Willing)
  BY <1>1, <1>2 DEF LoadedSoFar
<1>4. Listed \in Seq(Names) /\ list \in Seq(Libraries) /\ loaded \in Seq(Modules) /\ conf \in Confs
  BY <1>2, <1>3, ListedNames DEF ListTypes, StartTypes
<1>5. PICK n \in Names : n = list[next][1]
  <2>1. list[next] \in Libraries
    BY <1>1, <1>3, <1>4
  <2> QED
    BY <2>1, ConfigAssumption
<1>6. Len(Listed) = Len(list) /\ Listed[next] = n /\ next \in 1 .. Len(Listed)
  BY <1>1, <1>3, <1>4, <1>5
<1>7. /\ SubSeq(Listed, 1, next - 1) \in Seq(Names)
      /\ SubSeq(Listed, 1, next) = Append(SubSeq(Listed, 1, next - 1), n)
  BY <1>4, <1>6
<1>8. Only(SubSeq(Listed, 1, next), Willing)
        = IF n \in Willing THEN Append(NamesOf(loaded), n) ELSE NamesOf(loaded)
  <2>1. PICK s \in Seq(Names) : s = SubSeq(Listed, 1, next - 1)
    BY <1>7
  <2>2. Only(Append(s, n), Willing)
          = IF n \in Willing THEN Append(Only(s, Willing), n) ELSE Only(s, Willing)
    BY OnlyAppend
  <2> QED
    BY <1>3, <1>7, <2>1, <2>2
<1>9. PICK m : m = [name |-> n, with |-> conf]
  OBVIOUS
<1>10. m \in Modules /\ m.name = n
  BY <1>4, <1>9 DEF Modules
<1>11. loaded' = IF outcome[n] = "absent" THEN loaded
                 ELSE IF outcome[n] = "refused" THEN CloseByName(Append(loaded, m), n)
                 ELSE Append(loaded, m)
  BY <1>5, <1>9 DEF LoadNext
<1>12. outcome[n] \in Outcomes
  BY <1>2, StartupAssumption DEF ListTypes
<1>13. \A i \in DOMAIN loaded : loaded[i].name \in Willing
  <2>1. NamesOf(loaded) \in Seq(Names \cap Willing)
    BY <1>3, <1>7, OnlyType
  <2>2. \A i \in DOMAIN NamesOf(loaded) : NamesOf(loaded)[i] \in Willing
    BY <2>1
  <2> QED
    BY <2>2 DEF NamesOf
<1>14. ASSUME n \in Willing
       PROVE  loaded' \in Seq(Modules) /\ NamesOf(loaded') = Only(SubSeq(Listed, 1, next), Willing)
  <2>1. loaded' = Append(loaded, m)
    BY <1>11, <1>14 DEF Willing
  <2>2. loaded' \in Seq(Modules)
    BY <1>4, <1>10, <2>1
  <2>3. NamesOf(loaded') = Append(NamesOf(loaded), n)
    BY <1>4, <1>10, <2>1 DEF NamesOf
  <2> QED
    BY <1>8, <1>14, <2>2, <2>3
<1>15. ASSUME n \notin Willing
       PROVE  loaded' \in Seq(Modules) /\ NamesOf(loaded') = Only(SubSeq(Listed, 1, next), Willing)
  <2>1. outcome[n] \in {"absent", "refused"}
    BY <1>12, <1>15 DEF Willing, Outcomes
  <2>2. \A i \in DOMAIN loaded : loaded[i].name # n
    BY <1>13, <1>15
  <2>3. CloseByName(Append(loaded, m), n) = loaded
    BY <1>4, <1>10, <2>2, CloseLast
  <2>4. loaded' = loaded
    BY <1>11, <2>1, <2>3
  <2> QED
    BY <1>4, <1>8, <1>15, <2>4
<1>16. loaded' \in Seq(Modules) /\ NamesOf(loaded') = Only(SubSeq(Listed, 1, next), Willing)
  BY <1>14, <1>15
<1>17. ListTypes'
  BY <1>1, <1>2, <1>16 DEF ListTypes
<1>18. Listed' = Listed /\ Willing' = Willing
  BY <1>1 DEF Listed, Willing
<1>19. next' \in 1 .. Len(list) + 1 /\ next' - 1 = next
  BY <1>1, <1>3, <1>4
<1>20. LoadedSoFar'
  BY <1>1, <1>3, <1>16, <1>18, <1>19 DEF LoadedSoFar, NamesOf, Published
<1> QED
  BY <1>17, <1>20

\* The ports are taken before the first module is loaded; the last one is loaded when
\* the modules are published.
LEMMA ModulePhases == ModuleInv /\ (OpenPorts \/ Publish) => ListTypes' /\ LoadedSoFar'
<1> SUFFICES ASSUME ModuleInv, OpenPorts \/ Publish PROVE ListTypes' /\ LoadedSoFar'
  OBVIOUS
<1>1. UNCHANGED <<file, conf, names, dirs, list, reads, outcome, next, loaded, path>>
  BY DEF OpenPorts, Publish, confVars
<1>2. ListTypes /\ StartTypes /\ LoadedSoFar
  BY DEF ModuleInv, StreamInv
<1>3. ListTypes'
  BY <1>1, <1>2 DEF ListTypes
<1>4. Listed' = Listed /\ Willing' = Willing /\ NamesOf(loaded') = NamesOf(loaded)
  BY <1>1 DEF Listed, Willing
<1>5. pc # "read" /\ pc' # "read" /\ reads # <<>>
  BY <1>2 DEF OpenPorts, Publish, LoadedSoFar
<1>6. Listed \in Seq(Names)
  BY <1>2, <1>5, ListedNames
<1>7. CASE OpenPorts
  <2>1. pc = "ports" /\ pc' \in {"modules", "failed"}
    BY <1>7 DEF OpenPorts
  <2>2. next = 1 /\ loaded = <<>> /\ [i \in DOMAIN list |-> list[i][1]] = Listed
    BY <1>2, <2>1 DEF LoadedSoFar
  <2>3. SubSeq(Listed, 1, 1 - 1) = <<>>
    BY <1>6
  <2>4. NamesOf(loaded) = Only(SubSeq(Listed, 1, next - 1), Willing)
    <3>1. NamesOf(loaded) = <<>>
      BY <2>2 DEF NamesOf
    <3>2. Only(<<>>, Willing) = <<>>
      BY OnlyNone
    <3> QED
      BY <2>2, <2>3, <3>1, <3>2
  <2>5. next \in 1 .. Len(list) + 1
    BY <1>2, <2>2 DEF ListTypes
  <2> QED
    BY <1>1, <1>3, <1>4, <1>5, <2>1, <2>2, <2>4, <2>5 DEF LoadedSoFar, Published
<1>8. CASE Publish
  <2>1. pc = "modules" /\ pc' = "socket" /\ next > Len(list)
    BY <1>8 DEF Publish
  <2>2. /\ [i \in DOMAIN list |-> list[i][1]] = Listed
        /\ next \in 1 .. Len(list) + 1
        /\ NamesOf(loaded) = Only(SubSeq(Listed, 1, next - 1), Willing)
    BY <1>2, <2>1 DEF LoadedSoFar
  <2>3. list \in Seq(Libraries)
    BY <1>2 DEF ListTypes
  <2>4. next - 1 = Len(list) /\ Len(list) = Len(Listed)
    BY <2>1, <2>2, <2>3, <1>6
  <2>5. SubSeq(Listed, 1, next - 1) = Listed
    BY <1>6, <2>4
  <2> QED
    BY <1>1, <1>3, <1>4, <1>5, <2>1, <2>2, <2>5 DEF LoadedSoFar, Published
<1> QED
  BY <1>7, <1>8

\* All other steps leave the list and the modules as they are.
LEMMA ModuleSame ==
  ASSUME ModuleInv,
         UNCHANGED <<names, dirs, list, reads, outcome, next, loaded>>,
         path' \in {"nobody", "own", "other"},
         pc' = pc \/ (pc \in Published /\ pc' \in Published)
  PROVE  ListTypes' /\ LoadedSoFar'
<1>1. Listed' = Listed /\ Willing' = Willing /\ NamesOf(loaded') = NamesOf(loaded)
  BY DEF Listed, Willing
<1>2. ListTypes'
  BY DEF ModuleInv, ListTypes
<1>3. LoadedSoFar'
  BY <1>1 DEF ModuleInv, LoadedSoFar, Published
<1> QED
  BY <1>2, <1>3

LEMMA ModuleStep == ModuleInv /\ [Next]_vars => ModuleInv'
<1> SUFFICES ASSUME ModuleInv, [Next]_vars PROVE ListTypes' /\ LoadedSoFar'
  BY StreamStep DEF ModuleInv
<1>t. path \in {"nobody", "own", "other"}
  BY DEF ModuleInv, ListTypes
<1>1. CASE ReadConf \/ Reload \/ LoadNext \/ OpenPorts \/ Publish
  BY <1>1, ModuleRead, ModuleReload, ModuleLoad, ModulePhases
<1>2. CASE UNCHANGED vars \/ AdminEdits
  BY <1>2, <1>t, ModuleSame DEF AdminEdits, Edit, vars, confVars, bootVars
<1>3. CASE CreateSocket \/ ForkWorker \/ AcceptWorker \/ AcceptFails
  BY <1>3, <1>t, ModuleSame
     DEF CreateSocket, ForkWorker, AcceptWorker, AcceptFails, confVars, Published
<1>4. CASE \E w \in Ids : WorkerConnects(w) \/ WorkerRefused(w)
  BY <1>4, <1>t, ModuleSame DEF WorkerConnects, WorkerRefused, confVars
<1>5. CASE OtherCreatesSocket \/ OtherWorkerConnects
  BY <1>5, <1>t, ModuleSame DEF OtherCreatesSocket, OtherWorkerConnects, confVars
<1> QED
  BY <1>1, <1>2, <1>3, <1>4, <1>5 DEF Next, Program

\* The streams, the lists and the modules that are loaded agree in every reachable state.
THEOREM StartInvariance == Spec => []ModuleInv
<1> QED
  BY ModuleInit, ModuleStep, PTL DEF Spec

\* Every variable of a start keeps its type, for files, lists and outcomes of any kind.
THEOREM StartupTypes == Spec => []TypeOK
<1>1. ModuleInv => TypeOK
  BY DEF ModuleInv, StreamInv, StartTypes, ListTypes, TypeOK, ConfigTypeOK, Confs, Modules
<1> QED
  BY <1>1, StartInvariance, PTL

\* The modules of a server are those its first file lists, in that order, without the
\* ones that are nowhere, cannot be loaded or are refused: for any list, with modules
\* that are listed twice, the loop of closeModuleByName closes the one it has to.
THEOREM ModulesAreListed == Spec => []ModulesAsListed
<1>1. ModuleInv => ModulesAsListed
  BY DEF ModuleInv, LoadedSoFar, ModulesAsListed, NamesOf
<1> QED
  BY <1>1, StartInvariance, PTL

=================================================================================
