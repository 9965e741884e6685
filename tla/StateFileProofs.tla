-------------------------- MODULE StateFileProofs --------------------------
(***************************************************************************)
(* What is kept across the starts of the engine, for any set of drives and *)
(* any number of starts.                                                   *)
(***************************************************************************)
EXTENDS StateFile, FiniteSetTheorems, WellFoundedInduction, NaturalsInduction, TLAPS

-----------------------------------------------------------------------------
(* A set of numbers has a least one, which stands in for induction.        *)
Less == {ss \in Nat \X Nat : ss[1] < ss[2]}

(* The order of the numbers is well-founded.                               *)
LEMMA LessWF == IsWellFoundedOn(Less, Nat)
BY NatLessThanWellFounded DEF OpToRel, Less

(* A set of numbers that is not empty has a least one.                     *)
LEMMA Least ==
    ASSUME NEW T, T \subseteq Nat, T # {}
    PROVE  \E n \in T : \A m \in T : n <= m
<1>1. PICK n \in T : \A m \in T : ~(<<m, n>> \in Less)
  BY LessWF, WFMin, Zenon
<1>2. ASSUME NEW m \in T PROVE n <= m
  <2>1. m \in Nat /\ n \in Nat
    OBVIOUS
  <2>2. m < n => <<m, n>> \in Less
    BY <2>1 DEF Less
  <2> QED BY <1>1, <2>1, <2>2
<1> QED BY <1>2

-----------------------------------------------------------------------------
(* boot_shares: its list of the drives that are present has no others.     *)
Step(drives, f, i) ==
    IF i = 0 THEN <<>>
    ELSE IF drives[i] \in present THEN Append(f[i - 1], drives[i]) ELSE f[i - 1]

(* The recursive function of Present exists.                               *)
LEMMA KeptExists ==
    ASSUME NEW drives \in Seq(Drive), NEW n \in Nat
    PROVE  \E f : f = [i \in 0..n |-> Step(drives, f, i)]
<1> DEFINE Good(k) == \E f : f = [i \in 0..k |-> Step(drives, f, i)]
           T == {k \in Nat : ~Good(k)}
<1>1. SUFFICES T = {}
  BY <1>1
<1>2. SUFFICES ASSUME T # {} PROVE FALSE
  OBVIOUS
<1>3. PICK k \in T : \A m \in T : k <= m
  BY <1>2, Least, Zenon
<1>4. Good(0)
  <2> DEFINE f == [i \in 0..0 |-> <<>>]
  <2>1. f = [i \in 0..0 |-> Step(drives, f, i)]
    BY DEF Step
  <2> QED BY <2>1
<1>5. k \in Nat /\ k # 0
  BY <1>3, <1>4
<1>6. k - 1 \in Nat /\ k - 1 < k
  BY <1>5
<1>7. Good(k - 1)
  BY <1>3, <1>5, <1>6
<1>8. PICK g : g = [i \in 0..(k - 1) |-> Step(drives, g, i)]
  BY <1>7
<1> DEFINE f == [i \in 0..k |-> IF i = k THEN Step(drives, g, k) ELSE g[i]]
<1>9. ASSUME NEW i \in 0..k PROVE f[i] = Step(drives, f, i)
  <2>1. CASE i = 0
    BY <2>1, <1>5, <1>8 DEF Step
  <2>2. CASE i # 0
    <3>1. i - 1 \in 0..(k - 1) /\ i - 1 # k /\ i - 1 \in 0..k
      BY <2>2, <1>5
    <3>2. f[i - 1] = g[i - 1]
      BY <3>1
    <3>3. f[i] = Step(drives, g, i)
      <4>1. CASE i = k
        BY <4>1
      <4>2. CASE i # k
        <5>1. i \in 0..(k - 1)
          BY <4>2, <1>5
        <5>2. f[i] = g[i]
          BY <4>2
        <5>3. g[i] = Step(drives, g, i)
          BY <5>1, <1>8, ZenonT(30)
        <5> QED BY <5>2, <5>3, Zenon
      <4> QED BY <4>1, <4>2
    <3> QED BY <3>2, <3>3 DEF Step
  <2> QED BY <2>1, <2>2
<1>10. f = [i \in 0..k |-> Step(drives, f, i)]
  BY <1>9
<1>11. Good(k)
  BY <1>10, Zenon
<1> QED BY <1>3, <1>11

(* Present keeps to drives of the list it is given.                        *)
LEMMA PresentList ==
    ASSUME NEW drives \in Seq(Drive)
    PROVE  Present(drives) \in Seq(Drive) /\ Range(Present(drives)) \subseteq Range(drives)
<1> DEFINE kept == CHOOSE f : f = [i \in 0..Len(drives) |-> Step(drives, f, i)]
<1>1. Len(drives) \in Nat
  OBVIOUS
<1>2. kept = [i \in 0..Len(drives) |-> Step(drives, kept, i)]
  BY <1>1, KeptExists, Zenon
<1>3. Present(drives) = kept[Len(drives)]
  BY DEF Present, Step
<1> HIDE DEF kept
<1> DEFINE Good(i) == kept[i] \in Seq(Drive) /\ Range(kept[i]) \subseteq Range(drives)
           T == {i \in 0..Len(drives) : ~Good(i)}
<1>4. SUFFICES T = {}
  BY <1>1, <1>3, <1>4
<1>5. SUFFICES ASSUME T # {} PROVE FALSE
  OBVIOUS
<1>6. PICK k \in T : \A m \in T : k <= m
  <2>1. T \subseteq Nat
    BY <1>1
  <2> QED BY <1>5, <2>1, Least, Zenon
<1>7. k \in 0..Len(drives) /\ kept[k] = Step(drives, kept, k)
  BY <1>2, <1>6
<1>8. k # 0
  <2>1. <<>> \in Seq(Drive) /\ Range(<<>>) = {}
    BY DEF Range
  <2>2. k = 0 => kept[k] = <<>>
    BY <1>7 DEF Step
  <2> QED BY <1>6, <2>1, <2>2, Zenon
<1>9. Good(k - 1)
  BY <1>1, <1>6, <1>7, <1>8
<1>10. drives[k] \in Drive /\ drives[k] \in Range(drives)
  BY <1>7, <1>8 DEF Range
<1>11. Append(kept[k - 1], drives[k]) \in Seq(Drive)
  BY <1>9, <1>10
<1>12. Range(Append(kept[k - 1], drives[k])) \subseteq Range(drives)
  <2> DEFINE s == kept[k - 1]
             d == drives[k]
  <2>1. s \in Seq(Drive) /\ Range(s) \subseteq Range(drives)
    BY <1>9
  <2> HIDE DEF s, d
  <2>2. ASSUME NEW i \in DOMAIN Append(s, d) PROVE Append(s, d)[i] \in Range(drives)
    <3>1. CASE i \in DOMAIN s
      BY <2>1, <3>1 DEF Range
    <3>2. CASE i \notin DOMAIN s
      BY <2>1, <2>2, <3>2, <1>10 DEF d
    <3> QED BY <3>1, <3>2
  <2>3. Range(Append(s, d)) \subseteq Range(drives)
    BY <2>2 DEF Range
  <2> QED BY <2>3 DEF s, d
<1>13. Good(k)
  BY <1>7, <1>8, <1>9, <1>11, <1>12 DEF Step
<1> QED BY <1>6, <1>13

(* boot_shares gives a port to the drives of the file that are present, and *)
(* to each its own.                                                        *)
LEMMA BootTable ==
    ASSUME NEW drives \in Seq(Drive)
    PROVE  /\ BootPorts(drives) \in [Drive -> Nat]
           /\ \A d \in Drive : BootPorts(drives)[d] # 0 => d \in Range(Present(drives))
           /\ \A d, e \in Drive : d # e /\ BootPorts(drives)[d] # 0
                                    => BootPorts(drives)[d] # BootPorts(drives)[e]
<1> DEFINE found == Present(drives)
           At(d) == CHOOSE i \in DOMAIN found : found[i] = d
<1>1. found \in Seq(Drive)
  BY PresentList
<1>2. BootPorts(drives) = [d \in Drive |-> IF d \in Range(found) THEN At(d) ELSE 0]
  BY DEF BootPorts
<1> HIDE DEF found
<1>3. ASSUME NEW d \in Range(found) PROVE At(d) \in Nat /\ At(d) # 0 /\ found[At(d)] = d
  <2>1. \E i \in DOMAIN found : found[i] = d
    BY DEF Range
  <2>2. At(d) \in DOMAIN found /\ found[At(d)] = d
    BY <2>1
  <2> QED BY <2>2, <1>1
<1> HIDE DEF At
<1>4. BootPorts(drives) \in [Drive -> Nat]
  BY <1>2, <1>3
<1>5. \A d \in Drive : BootPorts(drives)[d] # 0 => d \in Range(found)
  BY <1>2
<1>6. ASSUME NEW d \in Drive, NEW e \in Drive, d # e, BootPorts(drives)[d] # 0
      PROVE  BootPorts(drives)[d] # BootPorts(drives)[e]
  <2>1. BootPorts(drives)[d] = At(d) /\ found[At(d)] = d
    BY <1>2, <1>3, <1>6
  <2>2. e \in Range(found) => BootPorts(drives)[e] = At(e) /\ found[At(e)] = e
    BY <1>2, <1>3
  <2>3. e \notin Range(found) => BootPorts(drives)[e] = 0
    BY <1>2
  <2> QED BY <2>1, <2>2, <2>3, <1>6
<1> QED BY <1>4, <1>5, <1>6 DEF found

(* ensure_share finds a port, and nobody uses it.                          *)
LEMMA FreePortIsFree ==
    ASSUME NEW used \in [Drive -> Nat], NEW x \in Drive, used[x] = 0
    PROVE  FreePort(used) \in Nat \ {0} /\ \A d \in Drive : used[d] # FreePort(used)
<1> DEFINE N == Cardinality(Drive)
           Open == {p \in 1..N : \A d \in Drive : used[d] # p}
           Rest == Drive \ {x}
           Taken == {used[d] : d \in Rest}
           f == [d \in Rest |-> used[d]]
<1>1. IsFiniteSet(Drive) /\ N \in Nat
  BY StateFileAssumption, FS_CardinalityType
<1>2. IsFiniteSet(Rest) /\ Cardinality(Rest) = N - 1
  BY <1>1, FS_RemoveElement
<1>3. f \in Surjection(Rest, Taken)
  BY DEF Surjection
<1>4. IsFiniteSet(Taken) /\ Cardinality(Taken) <= N - 1
  BY <1>2, <1>3, FS_Surjection
<1>5. N >= 1
  BY <1>1, <1>2, FS_CardinalityType
<1>6. Cardinality(1..N) = N
  BY <1>1, <1>5, FS_Interval
<1> HIDE DEF N
<1>7. Open # {}
  <2>1. SUFFICES ASSUME Open = {} PROVE FALSE
    OBVIOUS
  <2>2. 1..N \subseteq Taken
    BY <2>1, <1>1
  <2>3. Cardinality(1..N) <= Cardinality(Taken)
    BY <2>2, <1>4, FS_Subset, Zenon
  <2>4. Cardinality(Taken) \in Nat
    BY <1>4, FS_CardinalityType
  <2> QED BY <2>3, <2>4, <1>1, <1>4, <1>6
<1>8. PICK p \in Open : \A q \in Open : p <= q
  <2>1. Open \subseteq Nat
    BY <1>1
  <2> QED BY <1>7, <2>1, Least, Zenon
<1>9. \A q \in 1..(p - 1) : \E d \in Drive : used[d] = q
  BY <1>1, <1>8
<1>10. FreePort(used) \in 1..N /\ \A d \in Drive : used[d] # FreePort(used)
  BY <1>8, <1>9 DEF FreePort, N
<1> QED BY <1>1, <1>10

-----------------------------------------------------------------------------
Table == [Drive -> Nat]
Sharing == [pc : {"idle", "mount", "load", "save"}, drive : Drive, copy : Content]
Resuming == [pc : {"idle", "load", "save", "run"}, copy : Content]

(* The types; a port is any number.                                        *)
Types ==
    /\ file \in Content /\ stop \in Content
    /\ engine \in {"off", "on", "stopping", "lost"}
    /\ ports \in Table /\ vmPorts \in Table
    /\ share \in Sharing /\ resume \in Resuming
    /\ resumed \in [List -> Nat]
    /\ mishaps \subseteq Mishap
    /\ starts \in 0..MaxStarts

(* Nothing is shared, nor the list used, by a service that is not there.   *)
Attached ==
    /\ engine # "on" => share.pc = "idle"
    /\ engine = "lost" => resume.pc = "idle" /\ "killed" \in mishaps

(* With no overlap, one task at most is between its load and its save, and *)
(* its copy is the file.                                                   *)
CopiesCurrent ==
    FileKept =>
        /\ share.pc = "save" => share.copy = file /\ resume.pc # "save"
        /\ resume.pc = "save" => resume.copy = file /\ engine # "stopping"
        /\ engine = "stopping" => stop = file

(* The list in the file is of an earlier start, and one that is being used *)
(* is not in the file any more.                                            *)
Before(l) == l <= starts /\ (engine # "off" => l < starts)
ListsUsed ==
    FileKept =>
        /\ Before(file.resume)
        /\ resume.pc = "save" => file.resume # 0
        /\ resume.pc = "run" =>
              /\ resume.copy.resume # 0 /\ Before(resume.copy.resume)
              /\ resume.copy.resume # file.resume
        /\ \A l \in 1..MaxStarts : resumed[l] # 0 =>
              /\ resumed[l] = 1 /\ l < starts /\ l # file.resume
              /\ resume.pc = "run" => l # resume.copy.resume

(* A drive with a port is in the file, or ensure_share is about to add it. *)
Remembered ==
    FileKept /\ engine = "on" =>
        \A d \in Drive : ports[d] # 0 =>
            d \in Range(file.shares) \/ (share.pc \in {"load", "save"} /\ share.drive = d)

(* The drive that is being mounted is the one that the tables differ in.   *)
Mounting ==
    share.pc = "mount" =>
        ports[share.drive] = 0 /\ vmPorts[share.drive] = FreePort(ports)

IInv ==
    /\ Types /\ Attached /\ CopiesCurrent /\ ListsUsed /\ Remembered
    /\ Mounting /\ PortsDiffer /\ TableIsExact
-----------------------------------------------------------------------------
(* The records of state.json.                                              *)
LEMMA Contents ==
    /\ Default \in Content /\ Default.resume = 0
    /\ \A c \in Content :
          /\ c.shares \in Seq(Drive) /\ c.resume \in List
          /\ \A l \in List : /\ [c EXCEPT !.resume = l] \in Content
                             /\ [c EXCEPT !.resume = l].resume = l
                             /\ [c EXCEPT !.resume = l].shares = c.shares
          /\ \A s \in Seq(Drive) : /\ [c EXCEPT !.shares = s] \in Content
                                   /\ [c EXCEPT !.shares = s].resume = c.resume
                                   /\ [c EXCEPT !.shares = s].shares = s
BY StateFileAssumption DEF Content, Default, List

(* The tables and the tasks of an engine that is off.                      *)
LEMMA Nobody ==
    /\ NoPorts \in Table /\ \A d \in Drive : NoPorts[d] = 0
    /\ NoShare \in Sharing /\ NoShare.pc = "idle"
    /\ NoResume \in Resuming /\ NoResume.pc = "idle"
BY StateFileAssumption, Contents DEF NoPorts, Table, NoShare, Sharing, NoResume,
   Resuming

(* What a save leaves in the file.                                         *)
LEMMA Saved ==
    ASSUME NEW c, Save(c)
    PROVE  /\ file' \in {file, c}
           /\ mishaps \subseteq mishaps' /\ mishaps' \subseteq mishaps \cup {"unsaved"}
           /\ FileKept' => file' = c /\ FileKept
BY DEF Save, FileKept

(* What a load shows of the other tasks.                                   *)
LEMMA Loaded ==
    ASSUME Load
    PROVE  /\ mishaps \subseteq mishaps' /\ mishaps' \subseteq mishaps \cup {"overlap"}
           /\ FileKept' => /\ FileKept
                           /\ share.pc # "save" /\ resume.pc # "save" /\ engine # "stopping"
BY DEF Load, FileKept

(* A list with one drive more.                                             *)
LEMMA AppendRange ==
    ASSUME NEW s \in Seq(Drive), NEW d \in Drive
    PROVE  Append(s, d) \in Seq(Drive) /\ Range(Append(s, d)) = Range(s) \cup {d}
<1>1. Append(s, d) \in Seq(Drive) /\ Len(Append(s, d)) = Len(s) + 1 /\ Len(s) \in Nat
  OBVIOUS
<1>2. \A i \in 1..Len(s) : Append(s, d)[i] = s[i]
  OBVIOUS
<1>3. Append(s, d)[Len(s) + 1] = d
  OBVIOUS
<1>4. /\ DOMAIN Append(s, d) = 1..(Len(s) + 1) /\ DOMAIN s = 1..Len(s)
      /\ 1..(Len(s) + 1) = 1..Len(s) \cup {Len(s) + 1}
  BY <1>1
<1> QED BY <1>1, <1>2, <1>3, <1>4 DEF Range

(* Every step keeps the types.                                             *)
LEMMA TypesStep == Types /\ Mounting /\ [Next]_vars => Types'
<1> SUFFICES ASSUME Types, Mounting, [Next]_vars PROVE Types'
  OBVIOUS
<1>1. CASE Start
  <2>1. file.shares \in Seq(Drive)
    BY Contents DEF Types
  <2>2. ports' \in Table /\ vmPorts' \in Table
    BY <1>1, <2>1, BootTable DEF Start, Table
  <2>3. file' \in Content
    BY <1>1, <2>1, PresentList, Contents DEF Start, Types
  <2>4. resume' \in Resuming
    BY <1>1 DEF Start, Types, Resuming
  <2>5. starts' \in 0..MaxStarts
    BY <1>1, StateFileAssumption DEF Start, Types
  <2> QED BY <1>1, <2>2, <2>3, <2>4, <2>5 DEF Start, Types
<1>2. CASE Reattach
  <2>1. ports' \in Table
    BY <1>2, Contents, BootTable DEF Reattach, Types, Table
  <2>2. resume' \in Resuming
    BY <1>2 DEF Reattach, Types, Resuming
  <2>3. starts' \in 0..MaxStarts
    BY <1>2, StateFileAssumption DEF Reattach, Types
  <2> QED BY <1>2, <2>1, <2>2, <2>3 DEF Reattach, Types
<1>3. CASE ResumeLoad
  <2>1. resume' \in Resuming
    BY <1>3, Nobody DEF ResumeLoad, Types, Resuming
  <2>2. mishaps' \subseteq Mishap
    BY <1>3, Loaded, Zenon DEF ResumeLoad, Types, Mishap
  <2> QED BY <1>3, <2>1, <2>2 DEF ResumeLoad, Types, others
<1>4. CASE ResumeSave
  <2>1. resume' \in Resuming
    BY <1>4, Nobody DEF ResumeSave, Types, Resuming
  <2>2. resume.copy \in Content /\ 0 \in List
    BY StateFileAssumption DEF Types, Resuming, List
  <2>3. file' \in Content /\ mishaps' \subseteq Mishap
    BY <1>4, <2>2, Saved, Contents DEF ResumeSave, Types, Mishap
  <2> QED BY <1>4, <2>1, <2>3 DEF ResumeSave, Types, others
<1>5. CASE ResumeRun
  <2>1. resumed' \in [List -> Nat]
    BY <1>5, Contents DEF ResumeRun, Types, Resuming
  <2> QED BY <1>5, <2>1, Nobody DEF ResumeRun, Types, others
<1>6. CASE ShareMounted
  <2>1. share' \in Sharing
    BY <1>6 DEF ShareMounted, Types, Sharing
  <2>2. FreePort(ports) \in Nat
    BY <1>6, FreePortIsFree DEF ShareMounted, Mounting, Types, Sharing, Table
  <2>3. ports' \in Table
    BY <1>6, <2>2, Zenon DEF ShareMounted, Types, Table
  <2> QED BY <1>6, <2>1, <2>3 DEF ShareMounted, Types
<1>7. CASE ShareRefused
  <2>1. vmPorts' \in Table
    BY <1>7 DEF ShareRefused, Types, Table
  <2>2. mishaps' \subseteq Mishap
    BY <1>7, Zenon DEF ShareRefused, Types, Mishap
  <2> QED BY <1>7, <2>1, <2>2, Nobody DEF ShareRefused, Types
<1>8. CASE ShareLoad
  <2>1. share' \in Sharing
    BY <1>8, Zenon DEF ShareLoad, Types, Sharing
  <2>2. mishaps' \subseteq Mishap
    BY <1>8, Loaded DEF ShareLoad, Types, Mishap
  <2> QED BY <1>8, <2>1, <2>2 DEF ShareLoad, Types, others
<1>9. CASE ShareSave
  <2>1. share.copy \in Content /\ share.drive \in Drive
    BY DEF Types, Sharing
  <2>2. Append(share.copy.shares, share.drive) \in Seq(Drive)
    BY <2>1, Contents
  <2> DEFINE new == [share.copy EXCEPT !.shares = Append(share.copy.shares, share.drive)]
  <2>3. new \in Content
    BY <2>1, <2>2, Contents, Zenon
  <2>4. \/ UNCHANGED <<file, mishaps>>
        \/ Save(new)
    BY <1>9 DEF ShareSave
  <2> HIDE DEF new
  <2>5. file' \in Content /\ mishaps' \subseteq Mishap
    BY <2>3, <2>4, Saved, Zenon DEF Types, Mishap
  <2> QED BY <1>9, <2>5, Nobody DEF ShareSave, Types, others
<1>10. CASE StopLoad
  <2>1. mishaps' \subseteq Mishap
    BY <1>10, Loaded, Zenon DEF StopLoad, Types, Mishap
  <2> QED BY <1>10, <2>1, Nobody DEF StopLoad, Types
<1>11. CASE StopSave
  <2>1. PICK list \in {0, starts} : Save([stop EXCEPT !.resume = list])
    BY <1>11 DEF StopSave
  <2>2. list \in List /\ stop \in Content
    BY <2>1, StateFileAssumption DEF Types, List
  <2>3. file' \in Content /\ mishaps' \subseteq Mishap
    BY <2>1, <2>2, Saved, Contents DEF Types, Mishap
  <2> QED BY <1>11, <2>3, Contents DEF StopSave, Types
<1>12. CASE ServiceKilled
  BY <1>12, Nobody, Contents DEF ServiceKilled, ServiceEnds, Types, Mishap
<1>13. CASE PowerCut
  BY <1>13, Nobody, Contents DEF PowerCut, ServiceEnds, Types
<1>14. ASSUME NEW d \in Drive, ShareAdd(d) PROVE Types'
  <2>1. share' \in Sharing
    BY <1>14, Zenon DEF ShareAdd, Types, Sharing
  <2>2. FreePort(ports) \in Nat
    BY <1>14, FreePortIsFree DEF ShareAdd, Types, Table
  <2>3. vmPorts' \in Table
    BY <1>14, <2>2 DEF ShareAdd, Types, Table
  <2>4. mishaps' \subseteq Mishap
    BY <1>14 DEF ShareAdd, Types, Mishap
  <2> QED BY <1>14, <2>1, <2>3, <2>4 DEF ShareAdd, Types
<1>15. CASE UNCHANGED <<engine, file, mishaps, ports, resume, resumed, share, starts, stop,
                         vmPorts>>
  BY <1>15 DEF Types
<1>16. ASSUME (\E d \in Drive : PlugOrUnplug(d))
       PROVE  UNCHANGED <<engine, file, mishaps, ports, resume, resumed, share, starts, stop,
                          vmPorts>>
  BY <1>16 DEF PlugOrUnplug
<1>17. CASE UNCHANGED vars
  BY <1>17, <1>15 DEF vars, others
<1> QED BY <1>1, <1>2, <1>3, <1>4, <1>5, <1>6, <1>7, <1>8, <1>9, <1>10, <1>11, <1>12,
       <1>13, <1>14, <1>15, <1>16, <1>17 DEF Next

(* The tasks end with the engine they belong to.                           *)
LEMMA AttachedStep == IInv /\ [Next]_vars => Attached'
<1> SUFFICES ASSUME Types, Attached, CopiesCurrent, ListsUsed, Remembered, Mounting,
                    PortsDiffer, TableIsExact, [Next]_vars
             PROVE  Attached'
  BY DEF IInv
<1>1. CASE Start
  BY <1>1 DEF Attached, Start
<1>2. CASE Reattach
  BY <1>2 DEF Attached, Reattach
<1>3. CASE ResumeLoad
  BY <1>3, Nobody DEF Attached, ResumeLoad, others
<1>4. CASE ResumeSave
  BY <1>4, Nobody DEF Attached, ResumeSave, others
<1>5. CASE ResumeRun
  BY <1>5, Nobody DEF Attached, ResumeRun, others
<1>6. CASE ShareMounted
  BY <1>6 DEF Attached, ShareMounted
<1>7. CASE ShareRefused
  BY <1>7, Nobody DEF Attached, ShareRefused
<1>8. CASE ShareLoad
  BY <1>8 DEF Attached, ShareLoad, others
<1>9. CASE ShareSave
  BY <1>9, Nobody DEF Attached, ShareSave, others
<1>10. CASE StopLoad
  BY <1>10 DEF Attached, StopLoad
<1>11. CASE StopSave
  BY <1>11 DEF Attached, StopSave
<1>12. CASE ServiceKilled
  BY <1>12, Nobody DEF Attached, ServiceKilled, ServiceEnds
<1>13. CASE PowerCut
  BY <1>13, Nobody DEF Attached, PowerCut, ServiceEnds
<1>14. ASSUME NEW d \in Drive, ShareAdd(d) PROVE Attached'
  BY <1>14 DEF Attached, ShareAdd
<1>15. CASE UNCHANGED <<engine, mishaps, resume, share>>
  BY <1>15 DEF Attached
<1>16. ASSUME (\E d \in Drive : PlugOrUnplug(d))
       PROVE  UNCHANGED <<engine, mishaps, resume, share>>
  BY <1>16 DEF PlugOrUnplug
<1>17. CASE UNCHANGED vars
  BY <1>17, <1>15 DEF vars, others
<1> QED BY <1>1, <1>2, <1>3, <1>4, <1>5, <1>6, <1>7, <1>8, <1>9, <1>10, <1>11, <1>12,
       <1>13, <1>14, <1>15, <1>16, <1>17 DEF Next

(* A copy that is about to be saved is the file, unless loads and saves    *)
(* overlapped.                                                             *)
LEMMA CopiesStep == IInv /\ [Next]_vars => CopiesCurrent'
<1> SUFFICES ASSUME Types, Attached, CopiesCurrent, ListsUsed, Remembered, Mounting,
                    PortsDiffer, TableIsExact, [Next]_vars
             PROVE  CopiesCurrent'
  BY DEF IInv
<1>1. CASE Start
  BY <1>1 DEF Attached, CopiesCurrent, Start
<1>2. CASE Reattach
  BY <1>2 DEF CopiesCurrent, FileKept, Reattach
<1>3. CASE ResumeLoad
  BY <1>3, Nobody, Loaded DEF CopiesCurrent, ResumeLoad, others
<1>4. CASE ResumeSave
  BY <1>4, Nobody, Saved DEF Types, Resuming, CopiesCurrent, ResumeSave, others
<1>5. CASE ResumeRun
  BY <1>5, Nobody DEF CopiesCurrent, FileKept, ResumeRun, others
<1>6. CASE ShareMounted
  BY <1>6 DEF CopiesCurrent, FileKept, ShareMounted
<1>7. CASE ShareRefused
  BY <1>7, Nobody DEF CopiesCurrent, FileKept, ShareRefused
<1>8. CASE ShareLoad
  BY <1>8, Loaded DEF CopiesCurrent, ShareLoad, others
<1>9. CASE ShareSave
  BY <1>9, Nobody, Saved DEF Attached, CopiesCurrent, ShareSave, Save, others
<1>10. CASE StopLoad
  BY <1>10, Loaded DEF CopiesCurrent, StopLoad
<1>11. CASE StopSave
  BY <1>11, Saved DEF Attached, CopiesCurrent, StopSave
<1>12. CASE ServiceKilled
  BY <1>12, Nobody DEF CopiesCurrent, ServiceKilled, ServiceEnds
<1>13. CASE PowerCut
  BY <1>13, Nobody DEF CopiesCurrent, PowerCut, ServiceEnds
<1>14. ASSUME NEW d \in Drive, ShareAdd(d) PROVE CopiesCurrent'
  <2>1. FileKept' => FileKept
    BY <1>14 DEF ShareAdd, FileKept
  <2>2. share' = [share EXCEPT !.pc = "mount", !.drive = d] => share'.pc # "save"
    BY DEF Types, Sharing
  <2> QED BY <1>14, <2>1, <2>2, Zenon DEF CopiesCurrent, ShareAdd
<1>15. CASE UNCHANGED <<engine, file, mishaps, resume, share, stop>>
  BY <1>15 DEF CopiesCurrent, FileKept
<1>16. ASSUME (\E d \in Drive : PlugOrUnplug(d))
       PROVE  UNCHANGED <<engine, file, mishaps, resume, share, stop>>
  BY <1>16 DEF PlugOrUnplug
<1>17. CASE UNCHANGED vars
  BY <1>17, <1>15 DEF vars, others
<1> QED BY <1>1, <1>2, <1>3, <1>4, <1>5, <1>6, <1>7, <1>8, <1>9, <1>10, <1>11, <1>12,
       <1>13, <1>14, <1>15, <1>16, <1>17 DEF Next

(* A port is given to drives that are, or are about to be, in the file.    *)
LEMMA RememberedStep == IInv /\ [Next]_vars => Remembered'
<1> SUFFICES ASSUME Types, Attached, CopiesCurrent, ListsUsed, Remembered, Mounting,
                    PortsDiffer, TableIsExact, [Next]_vars
             PROVE  Remembered'
  BY DEF IInv
<1>1. CASE Start
  <2>1. file.shares \in Seq(Drive)
    BY Contents DEF Types
  <2>2. file'.shares = Present(file.shares)
    BY <1>1, <2>1, PresentList, Contents DEF Start, Types
  <2> QED BY <1>1, <2>1, <2>2, BootTable DEF Start, Remembered
<1>2. CASE Reattach
  <2>1. file.shares \in Seq(Drive)
    BY Contents DEF Types
  <2> QED BY <1>2, <2>1, BootTable, PresentList DEF Reattach, Remembered
<1>3. CASE ResumeLoad
  BY <1>3, Loaded DEF Remembered, ResumeLoad, others
<1>4. CASE ResumeSave
  <2>1. FileKept' => FileKept /\ file'.shares = file.shares
    <3> DEFINE new == [resume.copy EXCEPT !.resume = 0]
    <3>1. 0 \in List /\ resume.copy \in Content
      BY StateFileAssumption DEF Types, Resuming, List
    <3>2. Save(new) /\ new.shares = resume.copy.shares
      BY <1>4, <3>1, Contents DEF ResumeSave
    <3> HIDE DEF new
    <3> QED BY <1>4, <3>2, Saved DEF ResumeSave, CopiesCurrent
  <2> QED BY <1>4, <2>1 DEF ResumeSave, others, Remembered
<1>5. CASE ShareMounted
  BY <1>5 DEF Remembered, FileKept, ShareMounted
<1>6. CASE ShareRefused
  BY <1>6, Nobody DEF Remembered, FileKept, ShareRefused
<1>7. CASE ShareLoad
  BY <1>7, Loaded DEF Remembered, ShareLoad, others
<1>8. CASE ShareSave
  <2> DEFINE new == [share.copy EXCEPT !.shares = Append(share.copy.shares, share.drive)]
  <2>1. share.copy \in Content /\ share.drive \in Drive /\ share.copy.shares \in Seq(Drive)
    BY Contents DEF Types, Sharing
  <2>2. /\ Range(Append(share.copy.shares, share.drive))
             = Range(share.copy.shares) \cup {share.drive}
        /\ Append(share.copy.shares, share.drive) \in Seq(Drive)
    BY <2>1, AppendRange
  <2>3. new.shares = Append(share.copy.shares, share.drive)
    BY <2>1, <2>2, Contents
  <2>4. \/ UNCHANGED <<file, mishaps>> /\ share.drive \in Range(share.copy.shares)
        \/ Save(new)
    BY <1>8 DEF ShareSave
  <2> HIDE DEF new
  <2>5. FileKept' => /\ FileKept
                     /\ Range(file'.shares) = Range(file.shares) \cup {share.drive}
    BY <1>8, <2>1, <2>2, <2>3, <2>4, Saved, Zenon DEF ShareSave, CopiesCurrent, FileKept
  <2> QED BY <1>8, <2>5 DEF ShareSave, others, Remembered
<1>9. CASE StopLoad
  BY <1>9 DEF Remembered, StopLoad
<1>10. CASE StopSave
  BY <1>10 DEF Remembered, StopSave
<1>11. CASE ServiceKilled
  BY <1>11 DEF Remembered, ServiceKilled
<1>12. CASE PowerCut
  BY <1>12 DEF Remembered, PowerCut
<1>13. ASSUME NEW d \in Drive, ShareAdd(d) PROVE Remembered'
  BY <1>13 DEF Remembered, FileKept, ShareAdd
<1>14. CASE UNCHANGED <<engine, file, mishaps, ports, share>>
  BY <1>14 DEF Remembered, FileKept
<1>15. ASSUME ResumeRun \/ (\E d \in Drive : PlugOrUnplug(d))
       PROVE  UNCHANGED <<engine, file, mishaps, ports, share>>
  BY <1>15 DEF ResumeRun, others, PlugOrUnplug
<1>16. CASE UNCHANGED vars
  BY <1>16, <1>14 DEF vars, others
<1> QED BY <1>1, <1>2, <1>3, <1>4, <1>5, <1>6, <1>7, <1>8, <1>9, <1>10, <1>11, <1>12,
       <1>13, <1>14, <1>15, <1>16 DEF Next

(* The drive that is being mounted has the first free port.                *)
LEMMA MountingStep == IInv /\ [Next]_vars => Mounting'
<1> SUFFICES ASSUME Types, Attached, CopiesCurrent, ListsUsed, Remembered, Mounting,
                    PortsDiffer, TableIsExact, [Next]_vars
             PROVE  Mounting'
  BY DEF IInv
<1>1. CASE Start
  BY <1>1 DEF Attached, Mounting, Start
<1>2. CASE Reattach
  BY <1>2 DEF Attached, Mounting, Reattach
<1>3. CASE ShareMounted
  BY <1>3 DEF Mounting, ShareMounted
<1>4. CASE ShareRefused
  BY <1>4, Nobody DEF Mounting, ShareRefused
<1>5. CASE ShareLoad
  BY <1>5 DEF Mounting, ShareLoad, 
     others
<1>6. CASE ShareSave
  BY <1>6, Nobody DEF Mounting, ShareSave
<1>7. CASE StopLoad
  BY <1>7 DEF Mounting, StopLoad
<1>8. CASE ServiceKilled
  BY <1>8, Nobody DEF Mounting, ServiceKilled, ServiceEnds
<1>9. CASE PowerCut
  BY <1>9, Nobody DEF Mounting, PowerCut, ServiceEnds
<1>10. ASSUME NEW d \in Drive, ShareAdd(d) PROVE Mounting'
  <2>1. CASE share' = [share EXCEPT !.pc = "mount", !.drive = d]
    <3>1. share'.drive = d
      BY <2>1 DEF Types, Sharing
    <3> QED BY <1>10, <3>1 DEF Types, Mounting, Table, ShareAdd
  <2>2. CASE UNCHANGED share
    BY <1>10, <2>2 DEF Mounting, ShareAdd
  <2> QED BY <1>10, <2>1, <2>2 DEF ShareAdd
<1>11. CASE UNCHANGED <<ports, share, vmPorts>>
  BY <1>11 DEF Mounting
<1>12. ASSUME ResumeLoad \/ ResumeSave \/ ResumeRun \/ StopSave
              \/ (\E d \in Drive : PlugOrUnplug(d))
       PROVE  UNCHANGED <<ports, share, vmPorts>>
  BY <1>12 DEF ResumeLoad, others, ResumeSave, ResumeRun, StopSave, PlugOrUnplug
<1>13. CASE UNCHANGED vars
  BY <1>13, <1>11 DEF vars, others
<1> QED BY <1>1, <1>2, <1>3, <1>4, <1>5, <1>6, <1>7, <1>8, <1>9, <1>10, <1>11, <1>12,
       <1>13 DEF Next

(* Two drives have two ports, and the tables of the service and of the     *)
(* machine agree.                                                          *)
LEMMA TableStep == IInv /\ [Next]_vars => PortsDiffer' /\ TableIsExact'
<1> SUFFICES ASSUME Types, Attached, CopiesCurrent, ListsUsed, Remembered, Mounting,
                    PortsDiffer, TableIsExact, [Next]_vars
             PROVE  PortsDiffer' /\ TableIsExact'
  BY DEF IInv
<1>1. CASE Start
  <2>1. file.shares \in Seq(Drive)
    BY Contents DEF Types
  <2> QED BY <1>1, <2>1, BootTable DEF Start, PortsDiffer, PortsAlwaysDiffer, TableIsExact
<1>2. CASE Reattach
  BY <1>2 DEF PortsDiffer, TableIsExact, TableKept, Attached, Reattach
<1>3. CASE ResumeLoad
  BY <1>3, Loaded DEF PortsDiffer, PortsAlwaysDiffer, TableIsExact, TableKept, ResumeLoad,
     others
<1>4. CASE ResumeSave
  BY <1>4, Saved DEF PortsDiffer, PortsAlwaysDiffer, TableIsExact, TableKept, ResumeSave,
     others
<1>5. CASE ShareMounted
  BY <1>5 DEF Types, PortsDiffer, PortsAlwaysDiffer, TableIsExact, TableKept, Mounting,
     Table, ShareMounted
<1>6. CASE ShareRefused
  BY <1>6, Nobody DEF Types, PortsDiffer, PortsAlwaysDiffer, TableIsExact, TableKept,
     Mounting, Table, ShareRefused
<1>7. CASE ShareLoad
  BY <1>7, Loaded DEF PortsDiffer, PortsAlwaysDiffer, TableIsExact, TableKept, ShareLoad,
     others
<1>8. CASE ShareSave
  <2>1. TableKept' => TableKept
    BY <1>8 DEF ShareSave, Save, TableKept
  <2> QED BY <1>8, <2>1, Nobody DEF ShareSave, others, PortsDiffer, PortsAlwaysDiffer,
             TableIsExact
<1>9. CASE StopLoad
  BY <1>9, Nobody, Loaded DEF PortsDiffer, PortsAlwaysDiffer, TableIsExact, StopLoad
<1>10. CASE StopSave
  BY <1>10, Saved DEF PortsDiffer, PortsAlwaysDiffer, TableIsExact, TableKept, StopSave
<1>11. CASE ServiceKilled
  BY <1>11, Nobody DEF PortsDiffer, TableIsExact, TableKept, ServiceKilled
<1>12. CASE PowerCut
  BY <1>12, Nobody DEF PortsDiffer, PortsAlwaysDiffer, TableIsExact, PowerCut, ServiceEnds
<1>13. ASSUME NEW d \in Drive, ShareAdd(d) PROVE PortsDiffer' /\ TableIsExact'
  <2>1. FreePort(ports) \in Nat \ {0} /\ \A e \in Drive : ports[e] # FreePort(ports)
    BY <1>13, FreePortIsFree DEF ShareAdd, Types, Table
  <2>2. TableKept => \A e \in Drive : ports[e] = vmPorts[e]
    BY <1>13 DEF ShareAdd, TableIsExact
  <2>3. TableKept' => share'.pc = "mount" /\ share'.drive = d
    BY <1>13 DEF ShareAdd, Types, Sharing, TableKept
  <2>4. \A e \in Drive : vmPorts'[e] = IF e = d THEN FreePort(ports) ELSE vmPorts[e]
    BY <1>13 DEF ShareAdd, Types, Table
  <2>5. TableKept' => TableKept
    BY <1>13 DEF ShareAdd, TableKept
  <2>6. UNCHANGED ports
    BY <1>13 DEF ShareAdd
  <2>7. PortsDiffer'
    BY <2>1, <2>2, <2>4, <2>5 DEF PortsDiffer, PortsAlwaysDiffer
  <2>8. TableIsExact'
    BY <2>2, <2>3, <2>4, <2>5, <2>6 DEF TableIsExact
  <2> QED BY <2>7, <2>8
<1>14. CASE UNCHANGED <<mishaps, ports, share, vmPorts>>
  BY <1>14 DEF PortsDiffer, PortsAlwaysDiffer, TableIsExact, TableKept
<1>15. ASSUME ResumeRun \/ (\E d \in Drive : PlugOrUnplug(d))
       PROVE  UNCHANGED <<mishaps, ports, share, vmPorts>>
  BY <1>15 DEF ResumeRun, others, PlugOrUnplug
<1>16. CASE UNCHANGED vars
  BY <1>16, <1>14 DEF vars, others
<1> QED BY <1>1, <1>2, <1>3, <1>4, <1>5, <1>6, <1>7, <1>8, <1>9, <1>10, <1>11, <1>12,
       <1>13, <1>14, <1>15, <1>16, SMTT(30) DEF Next

(* A list that was used is never read again.                               *)
LEMMA ListsStep == IInv /\ [Next]_vars => ListsUsed'
<1> SUFFICES ASSUME Types, Attached, CopiesCurrent, ListsUsed, Remembered, Mounting,
                    PortsDiffer, TableIsExact, [Next]_vars
             PROVE  ListsUsed'
  BY DEF IInv
<1>1. CASE Start
  <2>1. file'.resume = file.resume
    BY <1>1, PresentList, Contents DEF Start, Types
  <2>2. resume'.pc = "load" /\ starts' = starts + 1 /\ starts \in Nat /\ file.resume \in Nat
    BY <1>1, Contents DEF Start, Types, Resuming, List
  <2>3. List \subseteq Nat /\ 1..MaxStarts \subseteq Nat
    BY StateFileAssumption DEF List
  <2> QED BY <1>1, <2>1, <2>2, <2>3 DEF Start, ListsUsed, Before, FileKept
<1>2. CASE Reattach
  <2>1. resume'.pc = "load" /\ starts' = starts + 1 /\ starts \in Nat /\ file.resume \in Nat
    BY <1>2, Contents DEF Reattach, Types, Resuming, List
  <2>2. 1..MaxStarts \subseteq Nat
    BY StateFileAssumption
  <2> QED BY <1>2, <2>1, <2>2 DEF Reattach, ListsUsed, Before, FileKept
<1>3. CASE ResumeLoad
  <2>1. FileKept' => FileKept
    BY <1>3, Loaded DEF ResumeLoad
  <2>2. resume'.pc # "run" /\ (resume'.pc = "save" => file.resume # 0)
    BY <1>3, Nobody DEF ResumeLoad
  <2> QED BY <1>3, <2>1, <2>2 DEF ResumeLoad, others, ListsUsed, Before
<1>4. CASE ResumeSave
  <2> DEFINE new == [resume.copy EXCEPT !.resume = 0]
  <2>1. 0 \in List /\ resume.copy \in Content
    BY StateFileAssumption DEF Types, Resuming, List
  <2>2. Save(new) /\ new.resume = 0
    BY <1>4, <2>1, Contents DEF ResumeSave
  <2> HIDE DEF new
  <2>3. FileKept' => FileKept /\ file'.resume = 0 /\ resume.copy = file
    BY <1>4, <2>2, Saved DEF ResumeSave, CopiesCurrent
  <2>4. resume'.pc # "save" /\ (resume'.pc = "run" => resume'.copy = resume.copy)
    BY <1>4, Nobody DEF ResumeSave, Types, Resuming
  <2>5. starts \in Nat /\ 0 <= starts
    BY DEF Types
  <2>6. FileKept /\ engine # "off" => 0 < starts
    BY <2>5, Contents DEF ListsUsed, Before, Types, List
  <2>7. UNCHANGED <<engine, resumed, starts>>
    BY <1>4 DEF ResumeSave, others
  <2>8. resume.pc = "save"
    BY <1>4 DEF ResumeSave
  <2>9. \A l \in 1..MaxStarts : l # 0
    BY StateFileAssumption
  <2> QED BY <2>3, <2>4, <2>5, <2>6, <2>7, <2>8, <2>9, SMTT(30) DEF ListsUsed, Before
<1>5. CASE ResumeRun
  <2> DEFINE r == resume.copy.resume
  <2>1. r \in List /\ starts \in 0..MaxStarts
    BY Contents, SMTT(30) DEF Types, Resuming
  <2>2. FileKept => /\ r # 0 /\ Before(r) /\ r # file.resume
                    /\ resumed[r] = 0
    BY <1>5, <2>1, StateFileAssumption DEF ResumeRun, ListsUsed, List
  <2>3. \A l \in List : resumed'[l] = IF l = r /\ engine = "on" THEN resumed[l] + 1 ELSE resumed[l]
    BY <1>5, <2>1 DEF ResumeRun, Types
  <2>4. resume'.pc = "idle"
    BY <1>5, Nobody DEF ResumeRun
  <2>5. UNCHANGED <<file, engine, mishaps, starts>>
    BY <1>5 DEF ResumeRun, others
  <2>6. 1..MaxStarts \subseteq List
    BY StateFileAssumption DEF List
  <2> HIDE DEF r
  <2>7. ASSUME FileKept', NEW l \in 1..MaxStarts, resumed'[l] # 0
        PROVE  resumed'[l] = 1 /\ l < starts /\ l # file.resume
    <3>1. FileKept
      BY <2>5, <2>7 DEF FileKept
    <3>2. CASE l = r /\ engine = "on"
      BY <2>2, <2>3, <2>6, <3>1, <3>2, SMTT(30) DEF Before
    <3>3. CASE ~(l = r /\ engine = "on")
      BY <2>3, <2>6, <2>7, <3>1, <3>3 DEF ListsUsed
    <3> QED BY <3>2, <3>3
  <2> QED BY <2>4, <2>5, <2>7 DEF ListsUsed, Before, FileKept
<1>6. CASE ShareRefused
  <2>1. FileKept' => FileKept
    BY <1>6 DEF ShareRefused, FileKept
  <2> QED BY <1>6, <2>1 DEF ShareRefused, ListsUsed, Before
<1>7. CASE ShareLoad
  <2>1. FileKept' => FileKept
    BY <1>7, Loaded DEF ShareLoad
  <2> QED BY <1>7, <2>1 DEF ShareLoad, others, ListsUsed, Before
<1>8. CASE ShareSave
  <2> DEFINE new == [share.copy EXCEPT !.shares = Append(share.copy.shares, share.drive)]
  <2>1. share.copy \in Content /\ Append(share.copy.shares, share.drive) \in Seq(Drive)
    BY Contents, AppendRange DEF Types, Sharing
  <2>2. new.resume = share.copy.resume
    BY <2>1, Contents
  <2>3. UNCHANGED <<file, mishaps>> \/ Save(new)
    BY <1>8 DEF ShareSave
  <2> HIDE DEF new
  <2>4. FileKept' => FileKept /\ file'.resume = file.resume
    BY <1>8, <2>2, <2>3, Saved DEF ShareSave, CopiesCurrent, FileKept
  <2> QED BY <1>8, <2>4 DEF ShareSave, others, ListsUsed, Before
<1>9. CASE StopLoad
  <2>1. FileKept' => FileKept
    BY <1>9, Loaded DEF StopLoad
  <2> QED BY <1>9, <2>1 DEF StopLoad, ListsUsed, Before
<1>10. CASE StopSave
  <2>1. PICK list \in {0, starts} : Save([stop EXCEPT !.resume = list])
    BY <1>10 DEF StopSave
  <2> DEFINE new == [stop EXCEPT !.resume = list]
  <2>2. list \in List /\ stop \in Content /\ starts \in Nat
    BY <2>1, StateFileAssumption DEF Types, List
  <2>3. new.resume = list
    BY <2>2, Contents
  <2>4. Save(new)
    BY <2>1
  <2> HIDE DEF new
  <2>5. FileKept' => FileKept /\ file'.resume \in {0, starts} /\ resume.pc # "save"
    BY <1>10, <2>3, <2>4, Saved DEF StopSave, CopiesCurrent
  <2>6. engine = "stopping" /\ engine' = "off" /\ UNCHANGED <<resume, resumed, starts>>
    BY <1>10 DEF StopSave
  <2>7. 1..MaxStarts \subseteq Nat \ {0}
    BY StateFileAssumption
  <2>8. resume.copy.resume \in Nat
    BY Contents DEF Types, Resuming, List
  <2> QED BY <2>2, <2>5, <2>6, <2>7, <2>8 DEF ListsUsed, Before
<1>11. CASE ServiceKilled
  <2>1. FileKept' => FileKept
    BY <1>11 DEF ServiceKilled, FileKept
  <2> QED BY <1>11, <2>1, Nobody DEF ServiceKilled, ServiceEnds, ListsUsed, Before
<1>12. CASE PowerCut
  <2>1. FileKept' => FileKept
    BY <1>12 DEF PowerCut, FileKept
  <2> QED BY <1>12, <2>1, Nobody DEF PowerCut, ServiceEnds, ListsUsed, Before
<1>13. CASE UNCHANGED <<engine, file, mishaps, resume, resumed, starts>>
  BY <1>13, SMTT(30) DEF Types, ListsUsed, FileKept, Before
<1>14. ASSUME ShareMounted \/ (\E d \in Drive : PlugOrUnplug(d))
       PROVE  UNCHANGED <<engine, file, mishaps, resume, resumed, starts>>
  BY <1>14, Zenon DEF ShareMounted, PlugOrUnplug
<1>15. ASSUME NEW d \in Drive, ShareAdd(d) PROVE ListsUsed'
  <2>1. FileKept' => FileKept
    BY <1>15 DEF ShareAdd, FileKept
  <2> QED BY <1>15, <2>1 DEF ShareAdd, ListsUsed, Before
<1>16. CASE UNCHANGED vars
  BY <1>16, <1>13 DEF vars, others
<1> QED BY <1>1, <1>2, <1>3, <1>4, <1>5, <1>6, <1>7, <1>8, <1>9, <1>10, <1>11, <1>12,
       <1>13, <1>14, <1>15, <1>16, SMTT(30) DEF Next

-----------------------------------------------------------------------------
(* The invariant holds before the first start.                             *)
LEMMA Start0 == Init => IInv
<1> SUFFICES ASSUME Init PROVE IInv
  OBVIOUS
<1>1. Types
  <2>1. resumed \in [List -> Nat] /\ starts \in 0..MaxStarts
    BY StateFileAssumption DEF Init
  <2> QED BY <2>1, Contents, Nobody DEF Init, Types
<1>2. Attached /\ CopiesCurrent /\ Remembered /\ Mounting
  BY Nobody DEF Init, Attached, CopiesCurrent, Remembered, Mounting
<1>3. ListsUsed
  <2>1. \A l \in 1..MaxStarts : resumed[l] = 0
    BY StateFileAssumption DEF Init, List
  <2> QED BY <2>1, Contents, Nobody DEF Init, ListsUsed, Before
<1>4. PortsDiffer /\ TableIsExact
  BY Nobody DEF Init, PortsDiffer, PortsAlwaysDiffer, TableIsExact
<1> QED BY <1>1, <1>2, <1>3, <1>4 DEF IInv

(* The invariant holds always.                                             *)
LEMMA Invariant == Spec => []IInv
<1>1. IInv /\ [Next]_vars => IInv'
  BY TypesStep, AttachedStep, CopiesStep, ListsStep, RememberedStep, MountingStep, TableStep
     DEF IInv
<1> QED BY Start0, <1>1, PTL DEF Spec

(* resume_after_start starts a list at most once, whatever is killed or    *)
(* loses its power in between, as long as no save of state.json is lost.   *)
THEOREM ResumedOnce == Spec => []ResumeOnce
<1>1. IInv => ResumeOnce
  <2> SUFFICES ASSUME IInv, FileKept, NEW l \in 1..MaxStarts PROVE resumed[l] <= 1
    BY DEF ResumeOnce
  <2>1. resumed[l] = 0 \/ resumed[l] = 1
    BY DEF IInv, ListsUsed
  <2> QED BY <2>1
<1> QED BY <1>1, Invariant, PTL

(* ensure_share leaves the drive in state.json.                            *)
THEOREM DrivesRemembered == Spec => []SharesRemembered
<1>1. IInv => SharesRemembered
  BY DEF IInv, Remembered, SharesRemembered
<1> QED BY <1>1, Invariant, PTL

(* ensure_share gives every drive of the machine a port of its own, and    *)
(* its table is the machine's.                                             *)
THEOREM TablesAgree == Spec => []SharesExact
<1>1. IInv => SharesExact
  BY DEF IInv, SharesExact
<1> QED BY <1>1, Invariant, PTL
=============================================================================
