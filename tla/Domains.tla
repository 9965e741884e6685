------------------------------ MODULE Domains ------------------------------
(***************************************************************************)
(* The local names of the containers: domains_for, the managed block of    *)
(* the Windows hosts file, the route to the containers' network and the    *)
(* local certificate authority of crates/solon-service/src/domains.rs,     *)
(* with the calls of them in engine.rs.                                    *)
(*                                                                         *)
(* update_domains rewrites the hosts file on a blocking thread.  Aborting  *)
(* the task that awaits it, as Engine::stop does, does not stop the        *)
(* thread.  The user edits the file too, and the service may be killed.    *)
(***************************************************************************)
EXTENDS Naturals, Sequences, FiniteSets

CONSTANTS Container,   \* containers: their names
          UserLine,    \* lines of the user in the hosts file, model values
          Job,         \* blocking threads that rewrite it, model values
          MaxLives,    \* bound: starts of the engine
          MaxChanges   \* bound: changes of the containers, and of the user's lines

VARIABLES
    engine,    \* "stopped", "starting", "running", "stopping"
    table,     \* inner.domains: names to containers
    loop,      \* the event loop: "off", "idle", or the thread that it awaits
    op,        \* start or stop: "none", "todo", the thread that it awaits, "route"
    job,       \* per thread: where it is, the names to write, the lines it has read
    file,      \* the hosts file: the user's lines and the managed names
    mine,      \* what the user wants there
    route,     \* the route to the containers' network is set
    ca,        \* the authority: its key and its certificate on disk, and the one in
               \* the root store of Windows, each by the start that made it; 0: none
    loading,   \* LocalCa::load_or_create: the file that is written, "store", "loaded"
    lives, changes,
    mixed,     \* history: two threads were at work at once, or one gave up
    harmed     \* history: a crash within a write, or the user's edit within a rewrite

hosts == <<table, loop, op, job, file, mine, changes, mixed, harmed>>
authority == <<ca, loading>>
vars == <<engine, route, lives, hosts, authority>>

NoJob == [at |-> "free", names |-> {}, lines |-> {}]
Working == {j \in Job : job[j].at # "free"}
Named == DOMAIN table
Torn == MaxLives + 1   \* a file that is truncated and not yet written

TypeOK ==
    /\ engine \in {"stopped", "starting", "running", "stopping"}
    /\ loop \in {"off", "idle"} \cup Job /\ op \in {"none", "todo", "route"} \cup Job
    /\ \A j \in Job : job[j].at \in {"free", "read", "open", "write"} /\ job[j].lines \subseteq UserLine
    /\ file.lines \subseteq UserLine /\ route \in BOOLEAN
    /\ ca \in [key : 0..Torn, cert : 0..Torn, trusted : 0..MaxLives]
    /\ loading \in {"no", "key", "cert", "store", "loaded"}

Init ==
    /\ engine = "stopped" /\ table = << >> /\ loop = "off" /\ op = "none"
    /\ job = [j \in Job |-> NoJob] /\ file = [lines |-> UserLine, names |-> {}] /\ mine = UserLine
    /\ route = FALSE /\ ca = [key |-> 0, cert |-> 0, trusted |-> 0] /\ loading = "no"
    /\ lives = 0 /\ changes = 0 /\ mixed = FALSE /\ harmed = FALSE

-----------------------------------------------------------------------------
(* sanitize: letters and digits, "_" and "." become "-".                   *)
Sanitize(name) == IF name \in {"my_web", "my.web", "my-web"} THEN "my-web" ELSE name

(* domains_for: the first container of a name has it.                      *)
DomainsFor(s) ==
    [n \in {Sanitize(s[k]) : k \in DOMAIN s} |->
        LET first == CHOOSE k \in DOMAIN s : /\ Sanitize(s[k]) = n
                                             /\ \A l \in 1..(k - 1) : Sanitize(s[l]) # n
        IN s[first]]

(* update_domains: the table at once, the file by a thread.                *)
Spawn(j, t) ==
    /\ job[j].at = "free" /\ table' = t
    /\ job' = [job EXCEPT ![j] = [at |-> "read", names |-> DOMAIN t, lines |-> {}]]
    /\ mixed' = (mixed \/ Working # {})

-----------------------------------------------------------------------------
(* write_hosts_block, on its thread.  read_hosts and the write retry while *)
(* somebody holds the file, and give up.                                   *)
Ends(j) == job' = [job EXCEPT ![j] = NoJob]
(* hosts_without_block: what lies outside of the managed block.            *)
HostsWithoutBlock(f) == f.lines
(* Mutant: a file that cannot be read counts as empty.                     *)
ReadHostsOrEmpty(j) ==
    /\ job[j].at = "read"
    /\ \E ok \in BOOLEAN :
          job' = [job EXCEPT ![j].at = "open", ![j].lines = IF ok THEN HostsWithoutBlock(file) ELSE {}]
    /\ UNCHANGED <<engine, route, lives, table, loop, op, file, mine, changes, mixed, harmed, authority>>
ReadHosts(j) ==
    /\ job[j].at = "read"
    /\ \/ /\ file.names # job[j].names /\ UNCHANGED mixed
          /\ job' = [job EXCEPT ![j].at = "open", ![j].lines = HostsWithoutBlock(file)]
       \/ file.names = job[j].names /\ Ends(j) /\ UNCHANGED mixed
       \/ Ends(j) /\ mixed' = TRUE
    /\ UNCHANGED <<engine, route, lives, table, loop, op, file, mine, changes, harmed, authority>>
Open(j) ==
    /\ job[j].at = "open"
    /\ \/ /\ job' = [job EXCEPT ![j].at = "write"] /\ file' = [lines |-> {}, names |-> {}]
          /\ UNCHANGED mixed
       \/ Ends(j) /\ mixed' = TRUE /\ UNCHANGED file
    /\ UNCHANGED <<engine, route, lives, table, loop, op, mine, changes, harmed, authority>>
Write(j) ==
    /\ job[j].at = "write" /\ Ends(j)
    /\ file' = [lines |-> job[j].lines, names |-> job[j].names]
    /\ UNCHANGED <<engine, route, lives, table, loop, op, mine, changes, mixed, harmed, authority>>

(* The user adds or removes a line.                                        *)
UserEdits ==
    /\ changes < MaxChanges /\ changes' = changes + 1
    /\ \E l \in UserLine :
          LET Edited(S) == IF l \in S THEN S \ {l} ELSE S \cup {l}
          IN file' = [file EXCEPT !.lines = Edited(@)] /\ mine' = Edited(mine)
    /\ harmed' = (harmed \/ \E j \in Job : job[j].at \in {"open", "write"})
    /\ UNCHANGED <<engine, route, lives, table, loop, op, job, mixed, authority>>

-----------------------------------------------------------------------------
(* Engine::start: update_domains of no container, the authority, which may *)
(* fail at any file, the event loop, then the route.                       *)
Start ==
    /\ engine = "stopped" /\ lives < MaxLives /\ engine' = "starting" /\ lives' = lives + 1
    /\ op' = "todo" /\ UNCHANGED <<route, table, loop, job, file, mine, changes, mixed, harmed, authority>>
OpSpawns ==
    /\ op = "todo" /\ \E j \in Job : Spawn(j, << >>) /\ op' = j
    /\ UNCHANGED <<engine, route, lives, loop, file, mine, changes, harmed, authority>>
Attached ==
    /\ engine = "starting" /\ op \in Job /\ job[op].at = "free"
    /\ op' = "route" /\ loop' = "idle"
    /\ loading' = IF loading = "loaded" THEN "loaded" ELSE "no"
    /\ UNCHANGED <<engine, route, lives, table, job, file, mine, changes, mixed, harmed, ca>>
(* ensure_route removes the old route before it adds one; each may fail.   *)
EnsureRoute ==
    /\ op = "route" /\ engine' = "running" /\ op' = "none" /\ route' \in BOOLEAN
    /\ UNCHANGED <<lives, table, loop, job, file, mine, changes, mixed, harmed, authority>>
(* EndpointsChanged: the loop awaits the thread.                           *)
Endpoints ==
    /\ loop = "idle" /\ changes < MaxChanges /\ changes' = changes + 1
    /\ \E s \in UNION {[1..n -> Container] : n \in 0..2}, j \in Job : Spawn(j, DomainsFor(s)) /\ loop' = j
    /\ UNCHANGED <<engine, route, lives, op, file, mine, harmed, authority>>
LoopGoesOn ==
    /\ loop \in Job /\ job[loop].at = "free" /\ loop' = "idle"
    /\ UNCHANGED <<engine, route, lives, table, op, job, file, mine, changes, mixed, harmed, authority>>
(* Engine::stop: the tasks are aborted, then update_domains of none.       *)
Stop ==
    /\ engine = "running" /\ engine' = "stopping" /\ loop' = "off" /\ op' = "todo" /\ loading' = "no"
    /\ UNCHANGED <<route, lives, table, job, file, mine, changes, mixed, harmed, ca>>
StopEnds ==
    /\ engine = "stopping" /\ op \in Job /\ job[op].at = "free"
    /\ engine' = "stopped" /\ op' = "none" /\ route' \in {FALSE, route}
    /\ UNCHANGED <<lives, table, loop, job, file, mine, changes, mixed, harmed, authority>>

-----------------------------------------------------------------------------
(* LocalCa::load_or_create: an authority is made unless both files exist,  *)
(* and certutil told of it; each file is truncated, then written.          *)
(* Mutant: the key alone will do.                                          *)
ExistsKey == ca.key # 0
Exists == ca.key # 0 /\ ca.cert # 0
LoadCa ==
    /\ engine = "starting" /\ op \in Job /\ job[op].at = "free"
    /\ \/ loading = "no" /\ Exists /\ loading' = "loaded" /\ UNCHANGED ca
       \/ loading = "no" /\ ~Exists /\ loading' = "key" /\ ca' = [ca EXCEPT !.key = Torn]
       \/ loading = "key" /\ loading' = "cert" /\ ca' = [ca EXCEPT !.key = lives, !.cert = Torn]
       \/ loading = "cert" /\ loading' = "store" /\ ca' = [ca EXCEPT !.cert = lives]
       \/ /\ loading = "store" /\ loading' = "loaded"
          /\ \/ ca' = [ca EXCEPT !.trusted = lives]
             \/ UNCHANGED ca
    /\ UNCHANGED <<engine, route, lives, hosts>>

(* The service is killed: the threads die with it, in the middle of a      *)
(* write too.                                                              *)
Crash ==
    /\ engine # "stopped" \/ Working # {}
    /\ engine' = "stopped" /\ table' = << >> /\ loop' = "off" /\ op' = "none" /\ loading' = "no"
    /\ job' = [j \in Job |-> NoJob] /\ harmed' = (harmed \/ \E j \in Job : job[j].at = "write")
    /\ UNCHANGED <<route, lives, file, mine, ca, changes, mixed>>

-----------------------------------------------------------------------------
Next ==
    \/ Start \/ OpSpawns \/ Attached \/ EnsureRoute \/ LoadCa
    \/ Endpoints \/ LoopGoesOn \/ Stop \/ StopEnds \/ Crash
    \/ UserEdits \/ \E j \in Job : ReadHosts(j) \/ Open(j) \/ Write(j)
Spec == Init /\ [][Next]_vars

-----------------------------------------------------------------------------
(* Between two updates, the hosts file names exactly the containers of the *)
(* table that the proxy routes by, as long as no thread outlived its task  *)
(* and none gave up.                                                       *)
HostsFollowElse ==
    Working = {} /\ loop = "idle" /\ ~mixed /\ ~harmed => file.names = Named

(* "The rest kept byte for byte": once no thread is writing, the file has  *)
(* the lines that the user wants, unless they edited it within a rewrite,  *)
(* or a crash cut the write.                                               *)
UserLinesKept == ~harmed /\ (\A j \in Job : job[j].at # "write") => file.lines = mine

(* The same, as long as no thread outlived its task.                       *)
UserLinesKeptElse == ~mixed => UserLinesKept

(* The key of an authority that is loaded is whole, and the authority that *)
(* Windows trusts is the one on disk: no crash while it was made lets a    *)
(* later start put another one beside it.                                  *)
AuthorityWhole ==
    /\ loading = "loaded" => ca.key \in 1..MaxLives
    /\ ca.trusted # 0 => ca.key = ca.trusted
=============================================================================
