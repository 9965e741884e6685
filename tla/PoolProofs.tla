---------------------------- MODULE PoolProofs -----------------------------
(***************************************************************************)
(* Proofs about the places of the DNS relay and the connections of the     *)
(* file system, for any number of threads, names, mounts and connections.  *)
(***************************************************************************)
EXTENDS Pools, Integers, Sequences, TLAPS

(* A function on 1..n is a sequence.                                       *)
LEMMA FunctionIsSequence ==
    ASSUME NEW S, NEW n \in Nat, NEW f \in [1..n -> S]
    PROVE  f \in Seq(S) /\ Len(f) = n
  OBVIOUS

(* A part of a sequence.                                                   *)
LEMMA PartOfSequence ==
    ASSUME NEW S, NEW s \in Seq(S), NEW m \in Nat, NEW n \in Nat, m > 0, n <= Len(s), m <= n + 1
    PROVE  /\ SubSeq(s, m, n) \in Seq(S) /\ Len(SubSeq(s, m, n)) = n - m + 1
           /\ \A i \in 1..(n - m + 1) : SubSeq(s, m, n)[i] = s[m + i - 1]
<1>1. SubSeq(s, m, n) \in Seq(S)
  OBVIOUS
<1>2. Len(SubSeq(s, m, n)) = n - m + 1
  OBVIOUS
<1>3. \A i \in 1..(n - m + 1) : SubSeq(s, m, n)[i] = s[m + i - 1]
  OBVIOUS
<1> QED
  BY <1>1, <1>2, <1>3

Parsed == [id : Id \cup {0}, name : Name \cup {0}, ips : SUBSET Address]
WorkerState == [at : {"free", "ask", "wait", "learn"}, q : D!Question \cup {D!NoQuestion}, server : Nat,
                port : Port \cup {0}, got : Parsed]
Entry == [ip : Address, name : Name]

(* TypeOK; a thread that learns from an answer has one that carries the    *)
(* identifier of its question.                                             *)
Threads ==
    /\ worker \in [Worker -> WorkerState]
    /\ \A w \in Worker : worker[w].at # "free" => worker[w].q \in D!Question
    /\ \A w \in Worker : worker[w].at = "learn" =>
          worker[w].got.id = worker[w].q.id /\ worker[w].got.name \in Name
DnsTypes == Threads /\ qAsked \in 0..MaxQuestions /\ net \subseteq D!Answer /\ names \in Seq(Entry)

(* Thread w goes on with r.                                                *)
Becomes(w, r) == worker' = [worker EXCEPT ![w] = r]

(* The threads of the relay.                                               *)
LEMMA DnsRecords ==
    /\ D!Idle \in WorkerState /\ D!Idle.at = "free"
    /\ \A q \in D!Question : LET r == [D!Idle EXCEPT !.at = "ask", !.q = q] IN
          r \in WorkerState /\ r.at = "ask" /\ r.q = q
  BY Zenon DEF D!Idle, WorkerState, D!NoQuestion, D!NoAnswer, Parsed

(* One thread changes.                                                     *)
LEMMA OneThread ==
    ASSUME Threads, NEW w \in Worker, NEW r \in WorkerState, Becomes(w, r),
           r.at # "free" => r.q \in D!Question,
           r.at = "learn" => r.got.id = r.q.id /\ r.got.name \in Name
    PROVE  Threads' /\ D!Busy' = IF r.at = "free" THEN D!Busy \ {w} ELSE D!Busy \cup {w}
<1>1. worker' \in [Worker -> WorkerState] /\ worker'[w] = r
  BY DEF Threads, Becomes
<1>2. \A v \in Worker : v # w => worker'[v] = worker[v]
  BY DEF Threads, Becomes
<1>3. Threads'
  BY <1>1, <1>2 DEF Threads
<1>4. D!Busy' = IF r.at = "free" THEN D!Busy \ {w} ELSE D!Busy \cup {w}
  BY <1>1, <1>2, SMTT(30) DEF D!Busy
<1> QED
  BY <1>3, <1>4

(* A thread that asks stays busy.                                          *)
LEMMA AskThread == ASSUME Threads, NEW w \in Worker, D!Ask(w) PROVE Threads' /\ D!Busy' = D!Busy
<1> DEFINE s == worker[w].server + 1
<1>0. worker[w] \in WorkerState /\ worker[w].at = "ask" /\ worker[w].q \in D!Question /\ s \in Nat /\ w \in D!Busy
  <2>1. worker[w] \in WorkerState /\ worker[w].at = "ask" /\ worker[w].q \in D!Question /\ w \in D!Busy
    BY Zenon DEF D!Ask, Threads, D!Busy
  <2>2. worker[w].server \in Nat
    BY <2>1 DEF WorkerState
  <2> QED
    BY <2>1, <2>2, SMTT(30)
<1>1. CASE Becomes(w, [worker[w] EXCEPT !.server = s])
  <2> DEFINE r == [worker[w] EXCEPT !.server = s]
  <2>1. r \in WorkerState /\ r.at = "ask" /\ r.q \in D!Question
    BY <1>0 DEF WorkerState
  <2> HIDE DEF r
  <2>2. Becomes(w, r)
    BY <1>1 DEF r
  <2> QED
    BY <1>0, <2>1, <2>2, OneThread
<1>2. ASSUME NEW p \in Port, worker' = [worker EXCEPT ![w].server = s, ![w].port = p, ![w].at = "wait"]
      PROVE  Threads' /\ D!Busy' = D!Busy
  <2> DEFINE r == [worker[w] EXCEPT !.server = s, !.port = p, !.at = "wait"]
  <2>1. r \in WorkerState /\ r.at = "wait" /\ r.q \in D!Question
    BY <1>0, Zenon DEF WorkerState
  <2>2. Becomes(w, r)
    BY <1>2, Zenon DEF Becomes, Threads
  <2> HIDE DEF r
  <2> QED
    BY <1>0, <2>1, <2>2, OneThread
<1> QED
  BY <1>1, <1>2, Zenon DEF D!Ask, Becomes

(* A thread that reads an answer stays busy.                               *)
LEMMA RecvThread ==
    ASSUME Threads, net \subseteq D!Answer, NEW w \in Worker, D!Recv(w)
    PROVE  Threads' /\ D!Busy' = D!Busy
<1>0. worker[w] \in WorkerState /\ worker[w].at = "wait" /\ worker[w].q \in D!Question /\ w \in D!Busy
  BY DEF D!Recv, Threads, D!Busy
<1>1. CASE UNCHANGED worker
  BY <1>1 DEF Threads, D!Busy
<1>2. ASSUME NEW a \in net, D!Carries(a, w),
             worker' = [worker EXCEPT ![w].at = "learn", ![w].port = 0, ![w].got = D!ParseAnswers(a)]
      PROVE  Threads' /\ D!Busy' = D!Busy
  <2> DEFINE r == [worker[w] EXCEPT !.at = "learn", !.port = 0, !.got = D!ParseAnswers(a)]
  <2>0. D!ParseAnswers(a) \in Parsed /\ D!ParseAnswers(a).id = worker[w].q.id /\ D!ParseAnswers(a).name \in Name
    BY <1>2 DEF D!ParseAnswers, Parsed, D!Answer, D!Carries
  <2>1. /\ r \in WorkerState /\ r.at = "learn" /\ r.q \in D!Question
        /\ r.got.id = r.q.id /\ r.got.name \in Name
    BY <1>0, <2>0, Zenon DEF WorkerState
  <2>2. Becomes(w, r)
    BY <1>2, Zenon DEF Becomes, Threads
  <2> HIDE DEF r
  <2> QED
    BY <1>0, <2>1, <2>2, OneThread, Zenon
<1> QED
  BY <1>1, <1>2 DEF D!Recv

(* A thread that waits no longer stays busy: it asks the next server, or   *)
(* gives up later.                                                         *)
LEMMA TimeoutThread == ASSUME Threads, NEW w \in Worker, D!Timeout(w) PROVE Threads' /\ D!Busy' = D!Busy
<1> DEFINE r == [worker[w] EXCEPT !.at = "ask", !.port = 0]
<1>0. worker[w] \in WorkerState /\ worker[w].at = "wait" /\ worker[w].q \in D!Question /\ w \in D!Busy
  BY DEF D!Timeout, Threads, D!Busy
<1>1. r \in WorkerState /\ r.at = "ask" /\ r.q \in D!Question
  BY <1>0, Zenon DEF WorkerState
<1>2. Becomes(w, r)
  BY Zenon DEF Becomes, Threads, D!Timeout
<1> HIDE DEF r
<1> QED
  BY <1>0, <1>1, <1>2, OneThread

(* A thread that ends.                                                     *)
LEMMA EndThread ==
    ASSUME Threads, NEW w \in Worker, worker' = [worker EXCEPT ![w] = D!Idle]
    PROVE  Threads' /\ D!Busy' = D!Busy \ {w}
<1>1. Becomes(w, D!Idle)
  BY DEF Becomes
<1> QED
  BY <1>1, DnsRecords, OneThread, Zenon

(* A thread that remembers an address stays busy.                          *)
LEMMA LearnThread ==
    ASSUME Threads, NEW w \in Worker, NEW i, worker[w].at = "learn",
           worker' = [worker EXCEPT ![w].got.ips = @ \ {i}]
    PROVE  Threads' /\ D!Busy' = D!Busy
<1> DEFINE g == [worker[w].got EXCEPT !.ips = worker[w].got.ips \ {i}]
           r == [worker[w] EXCEPT !.got = g]
<1>0. /\ worker[w] \in WorkerState /\ worker[w].q \in D!Question /\ w \in D!Busy
      /\ worker[w].got.id = worker[w].q.id /\ worker[w].got.name \in Name
  BY DEF Threads, D!Busy
<1>1. worker[w].got \in Parsed
  BY <1>0 DEF WorkerState
<1>2. g \in Parsed /\ g.id = worker[w].q.id /\ g.name \in Name
  BY <1>0, <1>1 DEF Parsed
<1>3. Becomes(w, r)
  BY DEF Becomes
<1> HIDE DEF g
<1>4. /\ r \in WorkerState /\ r.at = "learn" /\ r.q \in D!Question
      /\ r.got.id = r.q.id /\ r.got.name \in Name
  BY <1>0, <1>2 DEF WorkerState
<1> HIDE DEF r
<1> QED
  BY <1>0, <1>3, <1>4, OneThread, Zenon

(* The table with one entry less, the table without its older half, and    *)
(* the table with one entry more.                                          *)
LEMMA TableWithout ==
    ASSUME names \in Seq(Entry), NEW p \in DOMAIN names
    PROVE  /\ D!Without(p) \in Seq(Entry) /\ Len(D!Without(p)) = Len(names) - 1
           /\ \A k \in 1..(Len(names) - 1) : D!Without(p)[k] = names[IF k < p THEN k ELSE k + 1]
<1>1. Len(names) \in Nat /\ DOMAIN names = 1..Len(names) /\ \A k \in 1..Len(names) : names[k] \in Entry
  OBVIOUS
<1>2. Len(names) - 1 \in Nat /\ p \in 1..Len(names)
  BY <1>1
<1>3. \A k \in 1..(Len(names) - 1) : (IF k < p THEN k ELSE k + 1) \in 1..Len(names)
  BY <1>1, <1>2
<1>4. D!Without(p) \in [1..(Len(names) - 1) -> Entry]
  BY <1>1, <1>3 DEF D!Without
<1>5. D!Without(p) \in Seq(Entry) /\ Len(D!Without(p)) = Len(names) - 1
  BY <1>2, <1>4, FunctionIsSequence
<1> QED
  BY <1>5 DEF D!Without

(* The table without its older half.                                       *)
LEMMA TableHalf ==
    ASSUME NEW h \in Nat, names \in Seq(Entry), h <= Len(names)
    PROVE  LET t == SubSeq(names, h + 1, Len(names)) IN
           /\ t \in Seq(Entry) /\ Len(t) = Len(names) - h
           /\ \A k \in 1..Len(t) : t[k] = names[k + h]
<1> DEFINE n == Len(names)
           t == SubSeq(names, h + 1, n)
<1>1. h + 1 \in Nat /\ h + 1 > 0 /\ n \in Nat /\ n <= Len(names) /\ h + 1 <= n + 1
  OBVIOUS
<1>2. /\ t \in Seq(Entry) /\ Len(t) = n - (h + 1) + 1
      /\ \A k \in 1..(n - (h + 1) + 1) : t[k] = names[(h + 1) + k - 1]
  BY <1>1, PartOfSequence
<1> HIDE DEF t, n
<1>3. Len(t) = n - h /\ \A k \in 1..Len(t) : t[k] = names[k + h]
  BY <1>1, <1>2
<1> QED
  BY <1>2, <1>3 DEF t, n

(* What remember keeps has room for an entry, and none of the address.     *)
Room(t, i) ==
    /\ t \in Seq(Entry) /\ Len(t) < MAX_NAMES
    /\ \A k \in 1..Len(t) : t[k].ip # i
    /\ \A k, l \in 1..Len(t) : t[k].ip = t[l].ip => k = l

(* The table has room for one name more once remember has made it.         *)
LEMMA KeptRoom == ASSUME names \in Seq(Entry), D!TableBounded, NEW i \in Address PROVE Room(D!Kept(i), i)
<1>1. Len(names) \in Nat /\ DOMAIN names = 1..Len(names) /\ Len(names) <= MAX_NAMES /\ MAX_NAMES \in Nat
  BY DnsAssumption DEF D!TableBounded
<1>2. \A k, l \in 1..Len(names) : names[k].ip = names[l].ip => k = l
  BY <1>1 DEF D!TableBounded
<1>3. ASSUME D!Known(i) PROVE Room(D!Kept(i), i)
  <2> DEFINE p == CHOOSE k \in DOMAIN names : names[k].ip = i
             f(k) == IF k < p THEN k ELSE k + 1
             t == D!Without(p)
  <2>1. p \in DOMAIN names /\ names[p].ip = i
    BY <1>3 DEF D!Known
  <2>2. D!Kept(i) = t
    BY <1>3 DEF D!Kept
  <2> HIDE DEF p
  <2>3. t \in Seq(Entry) /\ Len(t) = Len(names) - 1 /\ \A k \in 1..(Len(names) - 1) : t[k] = names[f(k)]
    BY <2>1, TableWithout
  <2>4. \A k \in 1..(Len(names) - 1) : f(k) \in 1..Len(names) /\ f(k) # p
    BY <1>1, <2>1
  <2>5. \A k, l \in 1..(Len(names) - 1) : f(k) = f(l) => k = l
    BY <1>1, <2>1
  <2>6. Len(t) < MAX_NAMES
    BY <1>1, <2>3
  <2> HIDE DEF f, t
  <2>7. \A k \in 1..Len(t) : t[k].ip # i
    <3> SUFFICES ASSUME NEW k \in 1..Len(t), t[k].ip = i PROVE FALSE
      OBVIOUS
    <3>1. k \in 1..(Len(names) - 1)
      BY <2>3
    <3>2. f(k) \in 1..Len(names) /\ f(k) # p /\ names[f(k)].ip = names[p].ip /\ p \in 1..Len(names)
      BY <1>1, <2>1, <2>3, <2>4, <3>1
    <3> QED
      BY <1>2, <3>2
  <2>8. \A k, l \in 1..Len(t) : t[k].ip = t[l].ip => k = l
    <3> SUFFICES ASSUME NEW k \in 1..Len(t), NEW l \in 1..Len(t), t[k].ip = t[l].ip PROVE k = l
      OBVIOUS
    <3>1. k \in 1..(Len(names) - 1) /\ l \in 1..(Len(names) - 1)
      BY <2>3
    <3>2. f(k) \in 1..Len(names) /\ f(l) \in 1..Len(names) /\ names[f(k)].ip = names[f(l)].ip
      BY <2>3, <2>4, <3>1
    <3> QED
      BY <1>2, <2>5, <3>1, <3>2
  <2> QED
    BY <2>2, <2>3, <2>6, <2>7, <2>8 DEF Room
<1>4. ASSUME ~D!Known(i), Len(names) >= MAX_NAMES PROVE Room(D!Kept(i), i)
  <2> DEFINE h == MAX_NAMES \div 2
             t == SubSeq(names, h + 1, Len(names))
  <2>1. h \in Nat /\ 1 <= h /\ h <= Len(names)
    BY <1>1, <1>4, DnsAssumption
  <2>2. D!Kept(i) = t
    BY <1>4, Zenon DEF D!Kept
  <2> HIDE DEF h
  <2>3. t \in Seq(Entry) /\ Len(t) = Len(names) - h /\ \A k \in 1..Len(t) : t[k] = names[k + h]
    BY <2>1, TableHalf
  <2> HIDE DEF t
  <2>4. \A k \in 1..Len(t) : k + h \in 1..Len(names)
    BY <1>1, <2>1, <2>3
  <2>5. Len(t) < MAX_NAMES
    BY <1>1, <2>1, <2>3
  <2>6. \A k \in 1..Len(t) : t[k].ip # i
    BY <1>1, <1>4, <2>3, <2>4 DEF D!Known
  <2>7. \A k, l \in 1..Len(t) : t[k].ip = t[l].ip => k = l
    <3> SUFFICES ASSUME NEW k \in 1..Len(t), NEW l \in 1..Len(t), t[k].ip = t[l].ip PROVE k = l
      OBVIOUS
    <3>1. k + h = l + h
      BY <1>2, <2>3, <2>4
    <3> QED
      BY <2>1, <3>1
  <2> QED
    BY <2>2, <2>3, <2>5, <2>6, <2>7 DEF Room
<1>5. ASSUME ~D!Known(i), ~(Len(names) >= MAX_NAMES) PROVE Room(D!Kept(i), i)
  <2>1. D!Kept(i) = names /\ Len(names) < MAX_NAMES
    BY <1>1, <1>5 DEF D!Kept
  <2> QED
    BY <1>1, <1>2, <1>5, <2>1 DEF Room, D!Known
<1> QED
  BY <1>3, <1>4, <1>5

(* The table keeps to its bound, and has an address once.                  *)
LEMMA RememberTable ==
    ASSUME names \in Seq(Entry), D!TableBounded, NEW i \in Address, NEW n \in Name, D!Remember(i, n)
    PROVE  names' \in Seq(Entry) /\ D!TableBounded'
<1> DEFINE t == D!Kept(i)
           e == [ip |-> i, name |-> n]
<1>1. Room(t, i) /\ names' = Append(t, e) /\ e \in Entry /\ e.ip = i
  BY KeptRoom DEF D!Remember, Entry
<1> HIDE DEF t, e
<1>2. t \in Seq(Entry) /\ Len(t) \in Nat
  BY <1>1 DEF Room
<1>3. /\ names' \in Seq(Entry) /\ Len(names') = Len(t) + 1 /\ DOMAIN names' = 1..(Len(t) + 1)
      /\ names'[Len(t) + 1] = e /\ \A k \in 1..Len(t) : names'[k] = t[k]
  BY <1>1, <1>2
<1>4. Len(names') <= MAX_NAMES
  BY <1>1, <1>2, <1>3, DnsAssumption DEF Room
<1>5. ASSUME NEW k \in DOMAIN names', NEW l \in DOMAIN names', names'[k].ip = names'[l].ip PROVE k = l
  <2>1. (k \in 1..Len(t) \/ k = Len(t) + 1) /\ (l \in 1..Len(t) \/ l = Len(t) + 1)
    BY <1>2, <1>3
  <2> QED
    BY <1>1, <1>3, <1>5, <2>1 DEF Room
<1> QED
  BY <1>3, <1>4, <1>5 DEF D!TableBounded

-----------------------------------------------------------------------------
FsCall == [pc : {"idle", "take", "wait"}, conn : 0..MaxMachines]
LoopRow == [F!Loop -> F!Step]

(* TypeOK; the connections are of lives so far, and a machine that is gone *)
(* took its pool and its calls along.                                      *)
FsTypes ==
    /\ life \in 1..MaxMachines /\ alive \in BOOLEAN /\ machine \in 0..MaxMachines /\ machines \in 1..MaxMachines
    /\ loops \in [1..MaxMachines -> LoopRow]
    /\ pool \in Seq(1..MaxMachines) /\ call \in [Mount -> FsCall]
    /\ \A i \in 1..Len(pool) : pool[i] <= life
    /\ \A t \in Mount : call[t].conn <= life
    /\ ~alive => life < MaxMachines
    /\ machine = 0 => pool = <<>> /\ \A t \in Mount : call[t].pc = "idle"

(* A pool that got one more, and one whose last was taken.                 *)
LEMMA PoolQueue ==
    ASSUME NEW T, NEW s \in Seq(T)
    PROVE  /\ Len(s) \in Nat /\ DOMAIN s = 1..Len(s)
           /\ \A k \in 1..Len(s) : s[k] \in T
           /\ \A x \in T : /\ Append(s, x) \in Seq(T) /\ Len(Append(s, x)) = Len(s) + 1
                           /\ DOMAIN Append(s, x) = 1..(Len(s) + 1)
                           /\ Append(s, x)[Len(s) + 1] = x
                           /\ \A k \in 1..Len(s) : Append(s, x)[k] = s[k]
           /\ s # <<>> => /\ Len(s) \in Nat \ {0} /\ SubSeq(s, 1, Len(s) - 1) \in Seq(T)
                          /\ Len(SubSeq(s, 1, Len(s) - 1)) = Len(s) - 1
                          /\ DOMAIN SubSeq(s, 1, Len(s) - 1) = 1..(Len(s) - 1)
                          /\ \A k \in 1..(Len(s) - 1) : SubSeq(s, 1, Len(s) - 1)[k] = s[k]
<1>1. /\ Len(s) \in Nat /\ DOMAIN s = 1..Len(s)
      /\ \A k \in 1..Len(s) : s[k] \in T
  OBVIOUS
<1>2. \A x \in T : /\ Append(s, x) \in Seq(T) /\ Len(Append(s, x)) = Len(s) + 1
                   /\ DOMAIN Append(s, x) = 1..(Len(s) + 1)
                   /\ Append(s, x)[Len(s) + 1] = x
                   /\ \A k \in 1..Len(s) : Append(s, x)[k] = s[k]
  OBVIOUS
<1>3. ASSUME s # <<>>
      PROVE  /\ Len(s) \in Nat \ {0} /\ SubSeq(s, 1, Len(s) - 1) \in Seq(T)
             /\ Len(SubSeq(s, 1, Len(s) - 1)) = Len(s) - 1
             /\ DOMAIN SubSeq(s, 1, Len(s) - 1) = 1..(Len(s) - 1)
             /\ \A k \in 1..(Len(s) - 1) : SubSeq(s, 1, Len(s) - 1)[k] = s[k]
  <2>1. Len(s) \in Nat \ {0}
    BY <1>3
  <2>3. /\ SubSeq(s, 1, Len(s) - 1) \in Seq(T)
        /\ Len(SubSeq(s, 1, Len(s) - 1)) = Len(s) - 1
        /\ \A k \in 1..(Len(s) - 1) : SubSeq(s, 1, Len(s) - 1)[k] = s[k]
    <3> DEFINE n == Len(s) - 1
    <3>1. n \in Nat /\ n <= Len(s) /\ 1 <= n + 1 /\ 1 \in Nat /\ 1 > 0
      BY <2>1
    <3> HIDE DEF n
    <3>2. /\ SubSeq(s, 1, n) \in Seq(T) /\ Len(SubSeq(s, 1, n)) = n - 1 + 1
          /\ \A k \in 1..(n - 1 + 1) : SubSeq(s, 1, n)[k] = s[1 + k - 1]
      BY <3>1, PartOfSequence, ZenonT(30)
    <3>3. /\ SubSeq(s, 1, n) \in Seq(T) /\ Len(SubSeq(s, 1, n)) = n
          /\ \A k \in 1..n : SubSeq(s, 1, n)[k] = s[k]
      BY <3>1, <3>2
    <3> QED
      BY <3>3 DEF n
  <2> QED
    BY <2>1, <2>3
<1> QED
  BY <1>1, <1>2, <1>3

(* The calls and the loops.                                                *)
LEMMA FsRecords ==
           /\ F!Idle \in FsCall /\ F!Idle.pc = "idle" /\ F!Idle.conn = 0
           /\ \A r \in FsCall : /\ [r EXCEPT !.pc = "take"] \in FsCall
                                /\ [r EXCEPT !.pc = "take"].pc = "take"
                                /\ [r EXCEPT !.pc = "take"].conn = r.conn
           /\ \A c \in 1..MaxMachines : [pc |-> "wait", conn |-> c] \in FsCall
           /\ \A p \in F!Step : [l \in F!Loop |-> p] \in LoopRow
           /\ \A r \in LoopRow, l \in F!Loop, p \in F!Step : [r EXCEPT ![l] = p] \in LoopRow
           /\ \A r \in FsCall : r.conn \in 0..MaxMachines /\ r.conn \in Nat
  BY FsAssumption DEF F!Idle, FsCall, LoopRow, F!Step

(* The types, before the engine starts.                                    *)
LEMMA FsTypesInit == ASSUME F!Init PROVE FsTypes
<1>1. [l \in F!Loop |-> "connect"] \in LoopRow /\ [l \in F!Loop |-> "none"] \in LoopRow
  BY FsRecords DEF F!Step
<1>2. loops \in [1..MaxMachines -> LoopRow]
  BY DEF F!Init, LoopRow, F!Step
<1>3. call \in [Mount -> FsCall] /\ \A t \in Mount : call[t].conn = 0 /\ call[t].pc = "idle"
  BY FsRecords DEF F!Init
<1>4. pool = <<>> /\ pool \in Seq(1..MaxMachines) /\ Len(pool) = 0
  BY DEF F!Init
<1>5. life = 1 /\ alive /\ alive \in BOOLEAN /\ machine = 1 /\ machines = 1
  BY DEF F!Init
<1>6. life \in 1..MaxMachines /\ machine \in 0..MaxMachines /\ machines \in 1..MaxMachines /\ machine # 0
  BY <1>5, FsAssumption
<1>7. (\A i \in 1..Len(pool) : pool[i] <= life) /\ \A t \in Mount : call[t].conn <= life
  BY <1>3, <1>4, <1>5
<1> QED
  BY <1>2, <1>3, <1>4, <1>5, <1>6, <1>7, Zenon DEF FsTypes

(* A connection of this life joins the pool.                               *)
LEMMA Joins ==
    ASSUME FsTypes, pool' = Append(pool, life)
    PROVE  /\ pool' \in Seq(1..MaxMachines) /\ Len(pool) \in Nat /\ Len(pool') = Len(pool) + 1
           /\ DOMAIN pool = 1..Len(pool) /\ DOMAIN pool' = 1..(Len(pool) + 1)
           /\ pool'[Len(pool) + 1] = life /\ \A k \in 1..Len(pool) : pool'[k] = pool[k]
           /\ \A k \in 1..Len(pool') : pool'[k] <= life
<1>1. /\ pool' \in Seq(1..MaxMachines) /\ Len(pool) \in Nat /\ Len(pool') = Len(pool) + 1
      /\ DOMAIN pool = 1..Len(pool) /\ DOMAIN pool' = 1..(Len(pool) + 1)
      /\ pool'[Len(pool) + 1] = life /\ \A k \in 1..Len(pool) : pool'[k] = pool[k]
  BY PoolQueue DEF FsTypes
<1>2. \A k \in 1..Len(pool') : k \in 1..Len(pool) \/ k = Len(pool) + 1
  BY <1>1
<1>3. life <= life /\ \A k \in 1..Len(pool) : pool[k] <= life
  BY FsAssumption DEF FsTypes
<1>4. \A k \in 1..Len(pool') : pool'[k] <= life
  BY <1>1, <1>2, <1>3
<1> QED
  BY <1>1, <1>4

(* Every step keeps the types.                                             *)
LEMMA FsTypesStep == ASSUME FsTypes, [F!Next]_fs PROVE FsTypes'
<1> USE FsAssumption
<1>s. "none" \in F!Step /\ "connect" \in F!Step /\ "serve" \in F!Step /\ "check" \in F!Step
  BY DEF F!Step
<1>1. CASE F!EngineStops
  <2>1. loops' \in [1..MaxMachines -> LoopRow]
    BY <1>1 DEF FsTypes, F!EngineStops, LoopRow, F!Step
  <2>2. pool' \in Seq(1..MaxMachines) /\ pool' = <<>> /\ Len(pool') = 0
    BY <1>1 DEF F!EngineStops
  <2>3. call' \in [Mount -> FsCall] /\ \A t \in Mount : call'[t].conn = 0 /\ call'[t].pc = "idle"
    BY <1>1, FsRecords DEF F!EngineStops
  <2> QED
    BY <1>1, <2>1, <2>2, <2>3 DEF FsTypes, F!EngineStops
<1>2. CASE F!EngineStarts
  <2>1. loops' \in [1..MaxMachines -> LoopRow]
    BY <1>2, <1>s, FsRecords, Zenon DEF FsTypes, F!EngineStarts, F!Started
  <2> QED
    BY <1>2, <2>1 DEF FsTypes, F!EngineStarts
<1>3. CASE F!ServiceDies
  <2>1. loops' \in [1..MaxMachines -> LoopRow]
    BY <1>3, <1>s, FsRecords, Zenon DEF F!ServiceDies
  <2> QED
    BY <1>3, <2>1, Zenon DEF FsTypes, F!ServiceDies
<1>4. CASE F!ServiceReturns
  <2>1. loops' \in [1..MaxMachines -> LoopRow]
    BY <1>4, <1>s, FsRecords, Zenon DEF FsTypes, F!ServiceReturns, F!Started
  <2>2. life < MaxMachines
    BY <1>4, Zenon DEF FsTypes, F!ServiceReturns
  <2>3. life' \in 1..MaxMachines /\ \A c \in Nat : c <= life => c <= life'
    BY <1>4, <2>2 DEF FsTypes, F!ServiceReturns
  <2>4. \A i \in 1..Len(pool) : pool[i] <= life'
    <3>1. \A i \in 1..Len(pool) : pool[i] \in Nat /\ pool[i] <= life
      BY PoolQueue DEF FsTypes
    <3> QED
      BY <2>3, <3>1, Zenon
  <2>5. \A t \in Mount : call[t].conn <= life'
    <3>1. \A t \in Mount : call[t].conn \in Nat /\ call[t].conn <= life
      BY FsRecords DEF FsTypes
    <3> QED
      BY <2>3, <3>1, Zenon
  <2> QED
    BY <1>4, <2>1, <2>3, <2>4, <2>5, Zenon DEF FsTypes, F!ServiceReturns
<1>5. ASSUME NEW m \in 1..MaxMachines, NEW l \in F!Loop, F!Connect(m, l)
             \/ F!Check(m, l) PROVE FsTypes'
  <2>0. PICK p \in F!Step : loops' = [loops EXCEPT ![m][l] = p]
    BY <1>5, <1>s DEF F!Connect, F!Check
  <2>1. loops' \in [1..MaxMachines -> LoopRow]
    BY <2>0, FsRecords, Zenon DEF FsTypes
  <2>2. CASE pool' = Append(pool, life) /\ m = machine
    BY <1>5, <2>1, <2>2, Joins DEF FsTypes, F!Connect, F!Check
  <2>3. CASE UNCHANGED pool
    BY <1>5, <2>1, <2>3, SMTT(30) DEF FsTypes, F!Connect, F!Check
  <2> QED
    BY <1>5, <2>2, <2>3 DEF F!Connect, F!Check, F!Give
<1>6. ASSUME NEW t \in Mount, F!Request(t) PROVE FsTypes'
  <2>1. /\ call' \in [Mount -> FsCall] /\ machine # 0
        /\ \A u \in Mount : call'[u].conn = call[u].conn
    BY <1>6, FsRecords DEF FsTypes, F!Request
  <2> QED
    BY <1>6, <2>1 DEF FsTypes, F!Request
<1>7. ASSUME NEW t \in Mount, F!Take(t) PROVE FsTypes'
  <2>1. /\ Len(pool) \in Nat \ {0} /\ pool' \in Seq(1..MaxMachines) /\ Len(pool') = Len(pool) - 1
        /\ \A k \in 1..Len(pool') : pool'[k] = pool[k]
    BY <1>7, PoolQueue DEF FsTypes, F!Take
  <2>2. pool[Len(pool)] \in 1..MaxMachines /\ pool[Len(pool)] <= life
    BY <2>1, PoolQueue DEF FsTypes
  <2>3. call' \in [Mount -> FsCall] /\ \A u \in Mount : call'[u].conn <= life
    BY <1>7, <2>2, FsRecords DEF FsTypes, F!Take
  <2>4. machine # 0
    BY <1>7 DEF FsTypes, F!Take
  <2>5. \A i \in 1..Len(pool') : pool'[i] <= life
    BY <2>1, SMTT(30) DEF FsTypes
  <2> QED
    BY <1>7, <2>1, <2>3, <2>4, <2>5 DEF FsTypes, F!Take
<1>8. ASSUME NEW t \in Mount, F!TakeTimesOut(t) \/ F!Broken(t) PROVE FsTypes'
  <2>1. /\ call' \in [Mount -> FsCall] /\ \A u \in Mount : call'[u].conn <= life
        /\ \A u \in Mount : call[u].pc = "idle" => call'[u].pc = "idle"
    <3>1. call' = [call EXCEPT ![t] = F!Idle]
      BY <1>8 DEF F!TakeTimesOut, F!Broken
    <3> QED
      BY <3>1, FsRecords DEF FsTypes
  <2> QED
    BY <1>8, <2>1 DEF FsTypes, F!TakeTimesOut, F!Broken
<1>9. ASSUME NEW t \in Mount, F!Answered(t) PROVE FsTypes'
  <2>1. call' \in [Mount -> FsCall] /\ \A u \in Mount : call'[u].conn <= life
    BY <1>9, FsRecords DEF FsTypes, F!Answered
  <2>2. pool' = Append(pool, life) /\ machine # 0
    BY <1>9 DEF FsTypes, F!Answered, F!Live, F!Give
  <2> QED
    BY <1>9, <2>1, <2>2, Joins DEF FsTypes, F!Answered
<1>10. ASSUME NEW t \in Mount, F!Aberrant(t) PROVE FsTypes'
  <2>1. call' \in [Mount -> FsCall] /\ \A u \in Mount : call'[u].conn <= life
    BY <1>10, FsRecords DEF FsTypes, F!Aberrant
  <2>2. machine \in 1..MaxMachines
    BY <1>10 DEF FsTypes, F!Aberrant
  <2>3. loops' \in [1..MaxMachines -> LoopRow]
    <3>1. PICK l \in F!Loop : loops' = [loops EXCEPT ![machine][l] = "check"]
      BY <1>10, Zenon DEF F!Aberrant
    <3> QED
      BY <3>1, <1>s, <2>2, FsRecords, Zenon DEF FsTypes
  <2> QED
    BY <1>10, <2>1, <2>2, <2>3 DEF FsTypes, F!Aberrant
<1>11. CASE UNCHANGED fs
  BY <1>11 DEF FsTypes, fs
<1> QED
  BY <1>1, <1>2, <1>3, <1>4, <1>5, <1>6, <1>7, <1>8, <1>9, <1>10, <1>11 DEF F!Next, F!CallStep

(* No connection is of the life that begins.                               *)
LEMMA NewLife ==
    ASSUME FsTypes, F!ServiceReturns
    PROVE  (\A i \in DOMAIN pool : pool[i] # life') /\ (\A t \in Mount : call[t].conn # life')
<1>1. life' = life + 1 /\ life \in Nat
  BY FsAssumption DEF FsTypes, F!ServiceReturns
<1>2. \A i \in DOMAIN pool : pool[i] \in Nat /\ pool[i] <= life
  BY PoolQueue, FsAssumption DEF FsTypes
<1>3. \A t \in Mount : call[t].conn \in Nat /\ call[t].conn <= life
  BY FsRecords DEF FsTypes
<1> QED
  BY <1>1, <1>2, <1>3

(* A connection of a dead service is below those of the living one.        *)
LEMMA DeadBelowStep == ASSUME FsTypes, F!DeadBelowLive, [F!Next]_fs PROVE F!DeadBelowLive'
<1>1. CASE pool' = Append(pool, life) /\ UNCHANGED <<life, alive>> /\ alive
  <2>1. \A k \in DOMAIN pool' : k \in DOMAIN pool \/ k = Len(pool) + 1
    BY <1>1, Joins
  <2>2. SUFFICES ASSUME NEW i \in DOMAIN pool', NEW j \in DOMAIN pool', i < j, F!Live(pool[i])' PROVE F!Live(pool[j])'
    BY DEF F!DeadBelowLive
  <2>3. i \in DOMAIN pool
    BY <1>1, <2>1, <2>2, Joins
  <2>4. CASE j = Len(pool) + 1
    BY <1>1, <2>4, Joins DEF F!Live
  <2>5. CASE j \in DOMAIN pool
    <3>1. pool'[i] = pool[i] /\ pool'[j] = pool[j]
      BY <1>1, <2>3, <2>5, Joins
    <3>2. F!Live(pool[i])
      BY <1>1, <2>2, <3>1 DEF F!Live
    <3>3. F!Live(pool[j])
      BY <2>2, <2>3, <2>5, <3>2 DEF F!DeadBelowLive
    <3> QED
      BY <1>1, <3>1, <3>3 DEF F!Live
  <2> QED
    BY <2>1, <2>4, <2>5
<1>2. CASE UNCHANGED <<pool, life, alive>>
  BY <1>2 DEF F!DeadBelowLive, F!Live
<1>3. CASE pool' = <<>>
  BY <1>3 DEF F!DeadBelowLive
<1>4. CASE ~alive'
  BY <1>4 DEF F!DeadBelowLive, F!Live
<1>5. CASE F!ServiceReturns
  <2>1. \A i \in DOMAIN pool : pool[i] # life'
    BY <1>5, NewLife
  <2> QED
    BY <1>5, <2>1 DEF F!DeadBelowLive, F!ServiceReturns, F!Live
<1>6. ASSUME NEW t \in Mount, F!Take(t) PROVE F!DeadBelowLive'
  <2>1. /\ Len(pool) \in Nat \ {0} /\ DOMAIN pool = 1..Len(pool) /\ DOMAIN pool' = 1..(Len(pool) - 1)
        /\ \A k \in 1..(Len(pool) - 1) : pool'[k] = pool[k]
    BY <1>6, PoolQueue DEF FsTypes, F!Take
  <2>2. \A k \in DOMAIN pool' : k \in DOMAIN pool /\ pool'[k] = pool[k] /\ (F!Live(pool[k])' <=> F!Live(pool[k]))
    BY <1>6, <2>1 DEF F!Take, F!Live
  <2> QED
    BY <2>2 DEF F!DeadBelowLive
<1> QED
  <2>1. ASSUME NEW m \in 1..MaxMachines, NEW l \in F!Loop, F!Connect(m, l) \/ F!Check(m, l) PROVE F!DeadBelowLive'
    BY <2>1, <1>1, <1>2 DEF F!Connect, F!Check, F!Give
  <2>2. ASSUME NEW t \in Mount, F!Answered(t) PROVE F!DeadBelowLive'
    BY <2>2, <1>1 DEF F!Answered, F!Give, F!Live
  <2>3. ASSUME NEW t \in Mount, F!Request(t) \/ F!TakeTimesOut(t) \/ F!Broken(t) \/ F!Aberrant(t) PROVE F!DeadBelowLive'
    BY <2>3, <1>2 DEF F!Request, F!TakeTimesOut, F!Broken, F!Aberrant
  <2>4. CASE F!EngineStops \/ F!EngineStarts \/ F!ServiceDies \/ UNCHANGED fs
    BY <2>4, <1>2, <1>3, <1>4 DEF F!EngineStops, F!EngineStarts, F!ServiceDies, fs
  <2> QED
    BY <2>1, <2>2, <2>3, <2>4, <1>5, <1>6 DEF F!Next, F!CallStep

-----------------------------------------------------------------------------
(* Places and connections, counted.                                        *)
INSTANCE FiniteSetTheorems

(* The empty set has no element.                                           *)
LEMMA CountEmpty == Cardinality({}) = 0
  BY FS_EmptySet

(* The size of a finite set is a number.                                   *)
LEMMA CountType == ASSUME NEW S, IsFiniteSet(S) PROVE Cardinality(S) \in Nat
  BY FS_CardinalityType

(* One element more.                                                       *)
LEMMA CountAdd ==
    ASSUME NEW S, NEW x, IsFiniteSet(S), x \notin S
    PROVE  Cardinality(S \cup {x}) = Cardinality(S) + 1
  BY FS_AddElement

(* One element less.                                                       *)
LEMMA CountRemove ==
    ASSUME NEW S, NEW x, IsFiniteSet(S), x \in S
    PROVE  Cardinality(S \ {x}) = Cardinality(S) - 1
  BY FS_RemoveElement

(* A part of a finite set is finite.                                       *)
LEMMA CountSubset == ASSUME NEW S, IsFiniteSet(S), NEW T \in SUBSET S PROVE IsFiniteSet(T)
  BY FS_Subset

(* An interval is finite.                                                  *)
LEMMA CountInterval == ASSUME NEW n \in Nat PROVE IsFiniteSet(1..n)
  BY FS_Interval

(* An instance's name for the size of a set is the size of the set.        *)
LEMMA DnsCount == \A S : D!Cardinality(S) = Cardinality(S)
  BY Zenon DEF D!Cardinality, Cardinality

(* The size of a set, by the name that the pool of the file system has for *)
(* it.                                                                     *)
LEMMA FsCount == \A S : F!Cardinality(S) = Cardinality(S)
  BY Zenon DEF F!Cardinality, Cardinality

(* What a step of the relay does to its threads.                           *)
DnsInv == DnsTypes /\ D!PlacesConserved /\ flight \in 0..MAX_IN_FLIGHT /\ D!AnswersQuestion /\ D!TableBounded

(* The busy threads are finitely many.                                     *)
LEMMA BusyFinite == IsFiniteSet(D!Busy) /\ Cardinality(D!Busy) \in Nat
<1>1. D!Busy \subseteq Worker
  BY DEF D!Busy
<1> QED
  BY <1>1, CountSubset, CountType, DnsAssumption

(* The invariant of the relay is inductive.                                *)
LEMMA DnsStep == ASSUME DnsInv, [D!Next]_dns PROVE DnsInv'
<1>t. Threads /\ net \subseteq D!Answer /\ names \in Seq(Entry) /\ D!TableBounded
  BY DEF DnsInv, DnsTypes
<1>f. /\ flight = Cardinality(D!Busy) /\ flight \in Nat /\ flight <= MAX_IN_FLIGHT
      /\ IsFiniteSet(D!Busy) /\ MAX_IN_FLIGHT \in Nat
  BY BusyFinite, DnsAssumption, DnsCount DEF DnsInv, D!PlacesConserved
<1>1. ASSUME NEW q \in D!Question, D!Receive(q) PROVE DnsInv'
  <2>1. qAsked' \in 0..MaxQuestions
    BY <1>1, DnsAssumption, SMTT(30) DEF D!Receive, DnsInv, DnsTypes
  <2>2. CASE UNCHANGED <<worker, flight>>
    <3>1. Threads' /\ D!Busy' = D!Busy
      BY <1>t, <2>2 DEF Threads, D!Busy
    <3> QED
      BY <1>1, <1>t, <2>1, <2>2, <3>1, DnsCount, SMTT(30)
         DEF D!Receive, DnsInv, DnsTypes, D!PlacesConserved, D!AnswersQuestion, D!TableBounded
  <2>3. ASSUME NEW w \in Worker \ D!Busy, flight' = flight + 1, ~(flight >= MAX_IN_FLIGHT),
               worker' = [worker EXCEPT ![w] = [D!Idle EXCEPT !.at = "ask", !.q = q]]
        PROVE  DnsInv'
    <3> DEFINE r == [D!Idle EXCEPT !.at = "ask", !.q = q]
    <3>1. r \in WorkerState /\ r.at = "ask" /\ r.q = q
      BY DnsRecords, Zenon
    <3>2. Becomes(w, r)
      BY <2>3 DEF Becomes
    <3> HIDE DEF r
    <3>3. Threads' /\ D!Busy' = D!Busy \cup {w} /\ w \notin D!Busy
      BY <1>t, <2>3, <3>1, <3>2, OneThread, SMTT(30)
    <3>4. Cardinality(D!Busy') = flight'
      BY <1>f, <2>3, <3>3, CountAdd, SMTT(30)
    <3>5. flight' \in 0..MAX_IN_FLIGHT
      BY <1>f, <2>3
    <3> QED
      BY <1>1, <1>t, <2>1, <3>3, <3>4, <3>5, DnsCount, SMTT(30)
         DEF D!Receive, DnsInv, DnsTypes, D!PlacesConserved, D!AnswersQuestion, D!TableBounded
  <2> QED
    BY <1>1, <2>2, <2>3 DEF D!Receive
<1>2. ASSUME NEW w \in Worker, D!Ask(w) \/ D!Recv(w) \/ D!Timeout(w) PROVE DnsInv'
  <2>1. Threads' /\ D!Busy' = D!Busy
    BY <1>2, <1>t, AskThread, RecvThread, TimeoutThread, SMTT(30)
  <2>2. net' \subseteq D!Answer
    <3>1. CASE D!Ask(w)
      <4>1. worker[w].q \in D!Question /\ worker[w].server \in Nat /\ worker[w].server < Servers
        BY <1>t, <3>1, Zenon DEF D!Ask, Threads, WorkerState
      <4>2. worker[w].server + 1 \in 1..Servers /\ worker[w].q.id \in Id /\ worker[w].q.name \in Name
        BY <4>1, DnsAssumption, SMTT(30) DEF D!Question
      <4> DEFINE a(p, T) == [port |-> p, server |-> worker[w].server + 1, id |-> worker[w].q.id,
                             name |-> worker[w].q.name, ips |-> T]
      <4>3. \A p \in Port, T \in SUBSET Address : a(p, T) \in D!Answer
        BY <4>2 DEF D!Answer
      <4>4. net' = net \/ \E p \in Port, T \in SUBSET Address : net' = net \cup {a(p, T)}
        BY <3>1, Zenon DEF D!Ask
      <4> HIDE DEF a
      <4> QED
        BY <1>t, <4>3, <4>4, SMTT(30)
    <3>2. CASE D!Recv(w) \/ D!Timeout(w)
      BY <1>t, <3>2, SMTT(30) DEF D!Recv, D!Timeout
    <3> QED
      BY <1>2, <3>1, <3>2
  <2>3. UNCHANGED <<qAsked, flight, names, qTold>>
    BY <1>2, Zenon DEF D!Ask, D!Recv, D!Timeout
  <2> QED
    BY <1>t, <2>1, <2>2, <2>3, DnsCount, SMTT(30) DEF DnsInv, DnsTypes, D!PlacesConserved,
       D!AnswersQuestion, D!TableBounded
<1>3. ASSUME NEW w \in Worker, worker[w].at # "free", worker' = [worker EXCEPT ![w] = D!Idle],
             flight' = flight - 1
      PROVE  Threads' /\ flight' = Cardinality(D!Busy') /\ flight' \in 0..MAX_IN_FLIGHT
  <2>1. Threads' /\ D!Busy' = D!Busy \ {w} /\ w \in D!Busy
    BY <1>3, <1>t, EndThread, Zenon DEF D!Busy
  <2>2. Cardinality(D!Busy \ {w}) = Cardinality(D!Busy) - 1
    BY <1>f, <2>1, CountRemove, Zenon
  <2>3. IsFiniteSet(D!Busy \ {w})
    BY <1>f, CountSubset, Zenon
  <2>4. Cardinality(D!Busy \ {w}) \in Nat
    BY <2>3, CountType, Zenon
  <2> QED
    BY <1>3, <1>f, <2>1, <2>2, <2>4, SMTT(30)
<1>4. ASSUME NEW w \in Worker, D!GiveUp(w) PROVE DnsInv'
  <2>1. Threads' /\ flight' = Cardinality(D!Busy') /\ flight' \in 0..MAX_IN_FLIGHT
    BY <1>3, <1>4, Zenon DEF D!GiveUp
  <2>2. UNCHANGED <<qAsked, net, names, qTold>>
    BY <1>4 DEF D!GiveUp
  <2> QED
    BY <1>t, <2>1, <2>2, DnsCount, SMTT(30) DEF DnsInv, DnsTypes, D!PlacesConserved,
       D!AnswersQuestion, D!TableBounded
<1>5. ASSUME NEW w \in Worker, D!Learn(w) PROVE DnsInv'
  <2>1. worker[w].at = "learn" /\ UNCHANGED <<qAsked, net>>
    BY <1>5 DEF D!Learn
  <2>2. /\ worker[w].got.id = worker[w].q.id /\ worker[w].got.name \in Name /\ worker[w].got.ips \subseteq Address
    BY <1>t, <2>1 DEF Threads, WorkerState, Parsed
  <2>3. ASSUME NEW i \in worker[w].got.ips, D!Remember(i, worker[w].got.name),
               worker' = [worker EXCEPT ![w].got.ips = @ \ {i}], UNCHANGED <<flight, qTold>>
        PROVE  DnsInv'
    <3>1. Threads' /\ D!Busy' = D!Busy
      BY <1>t, <2>1, <2>3, LearnThread, Zenon
    <3>2. names' \in Seq(Entry) /\ D!TableBounded'
      BY <1>t, <2>2, <2>3, RememberTable
    <3> QED
      BY <2>1, <2>3, <3>1, <3>2, DnsCount, SMTT(30) DEF DnsInv, DnsTypes,
         D!PlacesConserved, D!AnswersQuestion
  <2>4. ASSUME qTold' = <<worker[w].q.id, worker[w].got.id>>, worker' = [worker EXCEPT ![w] = D!Idle],
               flight' = flight - 1, UNCHANGED names
        PROVE  DnsInv'
    <3>1. Threads' /\ flight' = Cardinality(D!Busy') /\ flight' \in 0..MAX_IN_FLIGHT
      BY <1>3, <2>1, <2>4, Zenon
    <3>2. D!AnswersQuestion'
      BY <2>2, <2>4 DEF D!AnswersQuestion
    <3> QED
      BY <1>t, <2>1, <2>4, <3>1, <3>2, DnsCount, SMTT(30) DEF DnsInv, DnsTypes,
         D!PlacesConserved, D!TableBounded
  <2> QED
    BY <1>5, <2>3, <2>4 DEF D!Learn
<1>6. CASE D!Lose \/ UNCHANGED dns
  <2>1. UNCHANGED <<qAsked, worker, flight, names, qTold>> /\ net' \subseteq net
    BY <1>6 DEF D!Lose, dns
  <2>2. Threads' /\ D!Busy' = D!Busy
    BY <1>t, <2>1 DEF Threads, D!Busy
  <2> QED
    BY <1>t, <2>1, <2>2, DnsCount DEF DnsInv, DnsTypes, D!PlacesConserved,
       D!AnswersQuestion, D!TableBounded
<1> QED
  BY <1>1, <1>2, <1>4, <1>5, <1>6, SMTT(30) DEF D!Next, D!Serve

(* A relay that was asked nothing.                                         *)
LEMMA DnsInit == ASSUME D!Init PROVE DnsInv
<1>1. Threads /\ D!Busy = {}
  BY DnsRecords, Zenon DEF D!Init, Threads, D!Busy
<1>2. names = <<>> /\ names \in Seq(Entry) /\ Len(names) = 0 /\ D!TableBounded
  BY DnsAssumption DEF D!Init, D!TableBounded
<1>3. flight = Cardinality(D!Busy) /\ flight \in 0..MAX_IN_FLIGHT
  BY <1>1, CountEmpty, DnsAssumption, SMTT(30) DEF D!Init
<1> QED
  BY <1>1, <1>2, <1>3, DnsAssumption, DnsCount, SMTT(30) DEF D!Init, DnsInv, DnsTypes,
     D!PlacesConserved, D!AnswersQuestion

(* The invariant contains the types.                                       *)
LEMMA DnsTypeOK == ASSUME DnsInv PROVE D!TypeOK
<1>1. \A w \in D!Busy : worker[w].q \in D!Question /\ worker[w].at \in {"ask", "wait", "learn"}
  BY DEF DnsInv, DnsTypes, Threads, D!Busy, WorkerState
<1> QED
  BY <1>1 DEF DnsInv, DnsTypes, D!TypeOK, Entry

(* The three sets of ConnectionsConserved are finite.                      *)
LEMMA FsFinite ==
    ASSUME FsTypes
    PROVE  IsFiniteSet(F!Waiting) /\ IsFiniteSet(F!Using) /\ IsFiniteSet(F!Served)
<1>1. DOMAIN pool = 1..Len(pool) /\ Len(pool) \in Nat
  BY PoolQueue DEF FsTypes
<1>2. IsFiniteSet(DOMAIN pool) /\ IsFiniteSet(F!Loop)
  BY <1>1, CountInterval, FsAssumption, SMTT(30) DEF F!Loop
<1>3. F!Waiting \subseteq DOMAIN pool /\ F!Using \subseteq Mount /\ F!Served \subseteq F!Loop
  BY DEF F!Waiting, F!Using, F!Served
<1> QED
  BY <1>2, <1>3, CountSubset, FsAssumption, SMTT(30)

(* A live connection that joins the pool waits there.                      *)
LEMMA JoinsWaiting ==
    ASSUME FsTypes, pool' = Append(pool, life), UNCHANGED <<life, alive>>, alive
    PROVE  F!Waiting' = F!Waiting \cup {Len(pool) + 1} /\ Len(pool) + 1 \notin F!Waiting
<1>1. \A k : k \in DOMAIN pool' <=> k \in DOMAIN pool \/ k = Len(pool) + 1
  BY Joins
<1>2. Len(pool) + 1 \notin DOMAIN pool /\ F!Live(pool'[Len(pool) + 1])
  BY Joins DEF F!Live
<1>3. \A k \in DOMAIN pool : F!Live(pool'[k]) <=> F!Live(pool[k])
  BY Joins, SMTT(30) DEF F!Live
<1> QED
  BY <1>1, <1>2, <1>3 DEF F!Waiting, F!Live

(* A live connection is neither lost nor served twice.                     *)
LEMMA ConservedStep ==
    ASSUME FsTypes, F!ConnectionsConserved, [F!Next]_fs
    PROVE  F!ConnectionsConserved'
<1> SUFFICES ASSUME alive', machine' # 0
             PROVE  Cardinality(F!Waiting') + Cardinality(F!Using') = Cardinality(F!Served')
  BY FsCount DEF F!ConnectionsConserved
<1>f. /\ IsFiniteSet(F!Waiting) /\ IsFiniteSet(F!Using) /\ IsFiniteSet(F!Served)
      /\ Cardinality(F!Waiting) \in Nat /\ Cardinality(F!Using) \in Nat /\ Cardinality(F!Served) \in Nat
  BY FsFinite, CountType
<1>e. alive /\ machine # 0 => Cardinality(F!Waiting) + Cardinality(F!Using) = Cardinality(F!Served)
  BY FsCount DEF F!ConnectionsConserved
<1>1. ASSUME NEW m \in 1..MaxMachines, NEW l \in F!Loop, alive, machine = m, loops[m][l] = "connect",
             pool' = Append(pool, life), loops' = [loops EXCEPT ![m][l] = "serve"],
             UNCHANGED <<life, alive, machine, call>>
      PROVE  Cardinality(F!Waiting') + Cardinality(F!Using') = Cardinality(F!Served')
  <2>1. F!Using' = F!Using
    BY <1>1 DEF F!Using, F!Live
  <2>2. F!Served' = F!Served \cup {l} /\ l \notin F!Served
    BY <1>1 DEF F!Served, FsTypes, LoopRow
  <2>3. F!Waiting' = F!Waiting \cup {Len(pool) + 1} /\ Len(pool) + 1 \notin F!Waiting
    BY <1>1, JoinsWaiting, SMTT(30)
  <2> QED
    <3>1. Cardinality(F!Waiting) + Cardinality(F!Using) = Cardinality(F!Served)
      BY <1>1, <1>e
    <3>2. Cardinality(F!Served') = Cardinality(F!Served) + 1 /\ Cardinality(F!Waiting') = Cardinality(F!Waiting) + 1
      BY <1>f, <2>2, <2>3, CountAdd, SMTT(30)
    <3> QED
      BY <1>f, <2>1, <3>1, <3>2, SMTT(30)
<1>2. ASSUME NEW m \in 1..MaxMachines, NEW l \in F!Loop, F!Connect(m, l) \/ F!Check(m, l)
      PROVE  Cardinality(F!Waiting') + Cardinality(F!Using') = Cardinality(F!Served')
  <2>1. CASE m = machine /\ pool' = Append(pool, life) /\ loops' = [loops EXCEPT ![m][l] = "serve"]
             /\ loops[m][l] = "connect"
    BY <1>1, <1>2, <2>1, Zenon DEF F!Connect, F!Check
  <2>2. ASSUME NEW p \in {"check", "none", "connect"}, UNCHANGED pool, loops[m][l] \in {"check", "connect"},
               loops' = [loops EXCEPT ![m][l] = p]
        PROVE  Cardinality(F!Waiting') + Cardinality(F!Using') = Cardinality(F!Served')
    <3>1. UNCHANGED <<life, alive, machine, call>>
      BY <1>2, Zenon DEF F!Connect, F!Check
    <3>2. F!Waiting' = F!Waiting /\ F!Using' = F!Using
      BY <2>2, <3>1 DEF F!Waiting, F!Using, F!Live
    <3>3. F!Served' = F!Served
      BY <2>2, <3>1 DEF F!Served, FsTypes, LoopRow
    <3> QED
      BY <1>e, <3>1, <3>2, <3>3
  <2> QED
    BY <1>2, <2>1, <2>2, Zenon DEF F!Connect, F!Check, F!Give
<1>3. CASE F!EngineStarts
  <2>1. F!Waiting' = {}
    BY <1>3 DEF F!Waiting, F!EngineStarts, FsTypes
  <2>2. F!Using' = {}
    BY <1>3 DEF F!Using, F!EngineStarts, FsTypes
  <2>3. F!Served' = {}
    <3>1. machine' \in 1..MaxMachines /\ loops'[machine'] = [l \in F!Loop |-> "connect"]
      BY <1>3, FsAssumption, SMTT(30) DEF F!EngineStarts, F!Started, FsTypes
    <3> QED
      BY <3>1 DEF F!Served
  <2> QED
    BY <2>1, <2>2, <2>3, CountEmpty, SMTT(30)
<1>4. CASE F!ServiceReturns
  <2>1. F!Waiting' = {}
    BY <1>4, NewLife, SMTT(30) DEF F!Waiting, F!ServiceReturns, F!Live
  <2>2. F!Using' = {}
    BY <1>4, NewLife DEF F!Using, F!ServiceReturns, F!Live
  <2>3. F!Served' = {}
    <3>1. machine \in 1..MaxMachines /\ loops' = F!Started(machine) /\ machine' = machine
      BY <1>4 DEF F!ServiceReturns, FsTypes
    <3> QED
      BY <3>1 DEF F!Served, F!Started, FsTypes
  <2> QED
    BY <2>1, <2>2, <2>3, CountEmpty
<1>5. ASSUME NEW t \in Mount, F!Request(t) \/ F!TakeTimesOut(t) \/ F!Broken(t)
      PROVE  Cardinality(F!Waiting') + Cardinality(F!Using') = Cardinality(F!Served')
  <2>1. UNCHANGED <<life, alive, machine, loops, pool>>
    BY <1>5, Zenon DEF F!Request, F!TakeTimesOut, F!Broken
  <2>2. F!Waiting' = F!Waiting /\ F!Served' = F!Served
    BY <2>1 DEF F!Waiting, F!Served, F!Live
  <2>3. F!Using' = F!Using
    BY <1>5, <2>1, FsRecords, Zenon DEF F!Using, F!Live, F!Request, F!TakeTimesOut,
       F!Broken, FsTypes
  <2> QED
    BY <1>e, <2>1, <2>2, <2>3, SMTT(30)
<1>6. ASSUME NEW t \in Mount, F!Take(t)
      PROVE  Cardinality(F!Waiting') + Cardinality(F!Using') = Cardinality(F!Served')
  <2>1. UNCHANGED <<life, alive, machine, loops>> /\ F!Served' = F!Served
    BY <1>6, Zenon DEF F!Take, F!Served
  <2> DEFINE n == Len(pool)
  <2>2. /\ n \in Nat \ {0} /\ DOMAIN pool = 1..n /\ DOMAIN pool' = 1..(n - 1)
        /\ \A k \in 1..(n - 1) : pool'[k] = pool[k]
    BY <1>6, PoolQueue DEF FsTypes, F!Take
  <2>3. \A k : k \in DOMAIN pool' <=> k \in DOMAIN pool /\ k # n
    BY <2>2
  <2>4. F!Waiting' = F!Waiting \ {n}
    BY <2>1, <2>2, <2>3 DEF F!Waiting, F!Live
  <2>5. n \in F!Waiting <=> F!Live(pool[n])
    BY <2>2 DEF F!Waiting
  <2>6. t \notin F!Using /\ F!Using' = IF F!Live(pool[n]) THEN F!Using \cup {t} ELSE F!Using
    BY <1>6, <2>1 DEF F!Using, F!Take, F!Live, FsTypes
  <2> HIDE DEF n
  <2> QED
    <3>1. Cardinality(F!Waiting) + Cardinality(F!Using) = Cardinality(F!Served)
      BY <1>e, <2>1, SMTT(30)
    <3>2. CASE F!Live(pool[n])
      <4>1. Cardinality(F!Waiting') = Cardinality(F!Waiting) - 1
        BY <1>f, <2>4, <2>5, <3>2, CountRemove, SMTT(30)
      <4>2. Cardinality(F!Using') = Cardinality(F!Using) + 1
        BY <1>f, <2>6, <3>2, CountAdd, SMTT(30)
      <4> QED
        BY <1>f, <2>1, <3>1, <4>1, <4>2, SMTT(30)
    <3>3. CASE ~F!Live(pool[n])
      <4>1. F!Waiting' = F!Waiting /\ F!Using' = F!Using
        BY <2>4, <2>5, <2>6, <3>3, SMTT(30)
      <4> QED
        BY <2>1, <3>1, <4>1, SMTT(30)
    <3> QED
      BY <3>2, <3>3
<1>7. ASSUME NEW t \in Mount, F!Answered(t)
      PROVE  Cardinality(F!Waiting') + Cardinality(F!Using') = Cardinality(F!Served')
  <2>1. UNCHANGED <<life, alive, machine, loops>> /\ F!Served' = F!Served /\ pool' = Append(pool, life) /\ alive
    BY <1>7 DEF F!Answered, F!Served, F!Give, F!Live
  <2>2. F!Waiting' = F!Waiting \cup {Len(pool) + 1} /\ Len(pool) + 1 \notin F!Waiting
    BY <2>1, JoinsWaiting
  <2>3. t \in F!Using /\ F!Using' = F!Using \ {t}
    BY <1>7, <2>1, FsRecords, SMTT(30) DEF F!Using, F!Answered, F!Live, FsTypes
  <2> QED
    <3>1. Cardinality(F!Waiting) + Cardinality(F!Using) = Cardinality(F!Served)
      BY <1>e, <2>1, SMTT(30)
    <3>2. Cardinality(F!Waiting') = Cardinality(F!Waiting) + 1
      BY <1>f, <2>2, CountAdd, SMTT(30)
    <3>3. Cardinality(F!Using') = Cardinality(F!Using) - 1
      BY <1>f, <2>3, CountRemove, SMTT(30)
    <3> QED
      BY <1>f, <2>1, <3>1, <3>2, <3>3, SMTT(30)
<1>8. ASSUME NEW t \in Mount, F!Aberrant(t)
      PROVE  Cardinality(F!Waiting') + Cardinality(F!Using') = Cardinality(F!Served')
  <2>1. PICK l \in F!Loop : loops[machine][l] = "serve" /\ loops' = [loops EXCEPT ![machine][l] = "check"]
    BY <1>8, Zenon DEF F!Aberrant
  <2>2. UNCHANGED <<life, alive, machine, pool>> /\ machine \in 1..MaxMachines
    <3>1. UNCHANGED <<life, alive, machine, pool>>
      BY <1>8, Zenon DEF F!Aberrant
    <3>2. machine \in 0..MaxMachines /\ machine # 0
      BY <3>1 DEF FsTypes
    <3>3. machine \in 1..MaxMachines
      BY <3>2, FsAssumption
    <3> QED
      BY <3>1, <3>3, Zenon
  <2>3. F!Waiting' = F!Waiting
    BY <2>2 DEF F!Waiting, F!Live
  <2>4. t \in F!Using /\ F!Using' = F!Using \ {t}
    BY <1>8, <2>2, FsRecords, SMTT(30) DEF F!Using, F!Aberrant, F!Live, FsTypes
  <2>5. l \in F!Served /\ F!Served' = F!Served \ {l}
    BY <2>1, <2>2, SMTT(30) DEF F!Served, FsTypes, LoopRow
  <2> QED
    <3>1. Cardinality(F!Waiting) + Cardinality(F!Using) = Cardinality(F!Served)
      BY <1>e, <2>2
    <3>2. Cardinality(F!Using') = Cardinality(F!Using) - 1 /\ Cardinality(F!Served') = Cardinality(F!Served) - 1
      BY <1>f, <2>4, <2>5, CountRemove, SMTT(30)
    <3> QED
      BY <1>f, <2>3, <3>1, <3>2, SMTT(30)
<1>9. CASE UNCHANGED fs
  BY <1>9, <1>e, Zenon DEF fs, F!Waiting, F!Using, F!Served, F!Live
<1> QED
  BY <1>2, <1>3, <1>4, <1>5, <1>6, <1>7, <1>8, <1>9, Zenon DEF F!Next, F!CallStep,
     F!EngineStops, F!ServiceDies

(* The pool of a machine that is off is empty.                             *)
LEMMA FsInit == ASSUME F!Init PROVE FsTypes /\ F!DeadBelowLive /\ F!ConnectionsConserved
<1>1. F!DeadBelowLive
  BY DEF F!Init, F!DeadBelowLive
<1>2. F!Waiting = {} /\ F!Using = {}
  BY DEF F!Init, F!Waiting, F!Using, F!Idle
<1>3. F!Served = {}
  <2>1. machine \in 1..MaxMachines /\ loops[machine] = [l \in F!Loop |-> "connect"]
    BY FsAssumption DEF F!Init
  <2> QED
    BY <2>1 DEF F!Served
<1>4. F!ConnectionsConserved
  BY <1>2, <1>3, CountEmpty, FsCount, SMTT(30) DEF F!ConnectionsConserved
<1> QED
  BY <1>1, <1>4, FsTypesInit

(* The invariant contains the types.                                       *)
LEMMA FsTypeOK == ASSUME FsTypes PROVE F!TypeOK
<1>1. pool \in Seq(1..MaxMachines)
  BY DEF FsTypes
<1>2. \A i \in DOMAIN pool : pool[i] \in 1..MaxMachines
  <2>1. \A T : pool \in Seq(T) => \A i \in DOMAIN pool : pool[i] \in T
    BY PoolQueue
  <2> QED
    BY <1>1, <2>1, Zenon
<1> QED
  BY <1>2, Zenon DEF FsTypes, F!TypeOK, LoopRow, FsCall

-----------------------------------------------------------------------------
(* A step is a step of one part, or leaves it alone.                       *)
LEMMA PoolsParts == [PoolsNext]_pools => [D!Next]_dns /\ [F!Next]_fs
  BY Zenon DEF PoolsNext, PoolsStep, pools

(* The pools of the machine, for any number of connections and of threads: *)
(* every connection is in the pool, in a call or dead, and the dead ones   *)
(* are below the live ones (solonfs.rs, fileserver.rs); every place of the *)
(* relay is a thread that answers its own question, and the table of names *)
(* keeps to its bound (dns.rs).                                            *)
THEOREM PoolsHold == PoolsSpec => []PoolsSound
<1> DEFINE FsInv == FsTypes /\ F!DeadBelowLive /\ F!ConnectionsConserved
<1>1. PoolsInit => FsInv /\ DnsInv
  BY FsInit, DnsInit DEF PoolsInit
<1>2. FsInv /\ DnsInv /\ [PoolsNext]_pools => FsInv' /\ DnsInv'
  BY PoolsParts, FsTypesStep, DeadBelowStep, ConservedStep, DnsStep
<1>3. FsInv /\ DnsInv => PoolsSound
  <2>1. FsInv => F!TypeOK
    BY FsTypeOK
  <2>2. DnsInv => D!TypeOK /\ D!PlacesConserved /\ D!AnswersQuestion /\ D!TableBounded
    BY DnsTypeOK DEF DnsInv
  <2> QED
    BY <2>1, <2>2 DEF PoolsSound
<1> QED
  BY <1>1, <1>2, <1>3, PTL DEF PoolsSpec
=============================================================================
