---------------------------- MODULE DockerProxy ----------------------------
(***************************************************************************)
(* The way from a client of the Docker pipe to dockerd                     *)
(* (crates/solon-service/src/docker_proxy.rs): forward_requests finds the  *)
(* requests in a stream that arrives in arbitrary pieces, rewrites the     *)
(* mounts of those that create a container, shares their drives, and lets  *)
(* the rest through.                                                       *)
(*                                                                         *)
(* A stream is a sequence of characters, each with a number that only the  *)
(* end of a head uses.  The head of a request is "head" and then what      *)
(* parse_head finds in it, with Content-Length as the number, in the place *)
(* of its blank line; the body of containers/create is a mount, `src:dst'. *)
(***************************************************************************)
EXTENDS Naturals, Sequences, FiniteSets

VARIABLES
    first, second,  \* the requests of the client; it may have only one
    wire,      \* what the proxy has not read yet
    buf,       \* what it has read and not forwarded
    pc,        \* "head", "body", "exact", "size", "trailers", "raw", "end", "error"
    head,      \* the head that was found
    need,      \* copy_exact: what is left to copy
    out,       \* what dockerd was sent
    shared,    \* drives that the machine has since ensure_share
    denied     \* history: drives for which ensure_share failed

vars == <<first, second, wire, buf, pc, head, need, out, shared, denied>>

Fields(kind, len) == [kind |-> kind, len |-> len]
NoHead == Fields("none", 0)
Text(s) == [i \in DOMAIN s |-> Fields(s[i], 0)]
Chars(s) == [i \in DOMAIN s |-> s[i].kind]
Letter == {"c", "d"}

MAX_REWRITE_BODY == 8   \* characters, for 8 MiB
MAX_HEAD == 2           \* characters, for 1 MiB

-----------------------------------------------------------------------------
(* translate_host_path: the drive of a Windows path and the path of the    *)
(* machine, for C:\x, C:/x and, as MSYS writes it, /c/x and //c/x.         *)
Slashes(p) == Cardinality({i \in 1..Len(p) : \A j \in 1..i : p[j] = "/"})
Drive(p) == IF Len(p) >= 2 /\ p[1] \in Letter /\ p[2] = ":" THEN 1
            ELSE LET n == Slashes(p) IN
                 IF /\ n \in 1..2 /\ Len(p) > n /\ p[n + 1] \in Letter
                    /\ (Len(p) = n + 1 \/ p[n + 2] = "/") THEN n + 1 ELSE 0
IsHostPath(p) == Drive(p) # 0

(* Without the slashes at the end, and with one in front.                  *)
Trimmed(p) ==
    LET ends == {n \in 0..Len(p) : \A i \in (n + 1)..Len(p) : p[i] = "/"} IN
    SubSeq(p, 1, CHOOSE n \in ends : \A m \in ends : n <= m)
(* Mutant: backslashes stay.                                               *)
TranslateRaw(p) ==
    LET d == Drive(p)
        rest == SubSeq(p, IF d = 1 THEN 3 ELSE d + 1, Len(p)) IN
    <<"/mnt/host/", p[d]>> \o Trimmed(IF rest = <<>> \/ rest[1] # "/" THEN <<"/">> \o rest ELSE rest)
Translate(p) ==
    LET d == Drive(p)
        tail == SubSeq(p, IF d = 1 THEN 3 ELSE d + 1, Len(p))
        rest == [i \in 1..Len(tail) |-> IF tail[i] = "\\" THEN "/" ELSE tail[i]] IN
    <<"/mnt/host/", p[d]>> \o Trimmed(IF rest = <<>> \/ rest[1] # "/" THEN <<"/">> \o rest ELSE rest)

(* rewrite_bind: the source ends at the first colon after its drive's.     *)
Colons(b) == {i \in 1..Len(b) : b[i] = ":" /\ ~(i = 2 /\ b[1] \in Letter)}
Cut(b) == CHOOSE i \in Colons(b) : \A j \in Colons(b) : i <= j
Source(b) == SubSeq(b, 1, Cut(b) - 1)
Rewritable(b) == b # <<>> /\ Colons(b) # {} /\ IsHostPath(Source(b))
Rewrite(b) == IF Rewritable(b) THEN Translate(Source(b)) \o SubSeq(b, Cut(b), Len(b)) ELSE b
Drives(b) == IF Rewritable(b) THEN {Source(b)[Drive(Source(b))]} ELSE {}

-----------------------------------------------------------------------------
Bind == {<<"c", ":", "\\", "x", "\\", ":", "/", "x">>, <<"/", "d", "/", "x", ":", "/", "x">>,
         <<"d", ":", ":", "/", "x">>, <<"x", ":", "/", "x">>, <<"/", "x", ":", "/", "x">>}
LargeBind == <<"c", ":", "\\", "x", "\\", ":", "/", "x", "x">>

(* The requests of a client: without a body, with one of two characters,   *)
(* in chunks, hijacked after a body, and those that create a container:    *)
(* with a body that is small, too large to be rewritten, or in chunks.  A  *)
(* client that speaks something else has no head, or one that parse_head   *)
(* does not know.                                                          *)
Get == Text(<<"head", "get">>)
Put == <<Fields("head", 0), Fields("put", 2)>> \o Text(<<"x", "x">>)
Build == Text(<<"head", "chunked", "1", "x", "0", "end">>)
Exec == <<Fields("head", 0), Fields("upgrade", 1)>> \o Text(<<"x", "x", "head">>)
Create(b) == <<Fields("head", 0), Fields("create", Len(b))>> \o Text(b)
ChunkedCreate == Text(<<"head", "createChunked", "1", "\\", "0", "end">>)
Unknown == Text(<<"head", "unknown", "x", "get">>)
Endless == Text(<<"x", "x", "x", "x">>)
Raw == {Exec, Unknown, Endless}
Chunked == {Build, ChunkedCreate}
Request == {Get, Put} \cup Chunked \cup Raw \cup {Create(b) : b \in Bind \cup {LargeBind}}

TypeOK ==
    /\ first \in Request /\ second \in Request \cup {<<>>}
    /\ Len(wire) + Len(buf) <= Len(first) + Len(second)
    /\ pc \in {"head", "body", "exact", "size", "trailers", "raw", "end", "error"}
    /\ head = NoHead \/ \E r \in Request : head = r[2]
    /\ need \in 0..Len(LargeBind)
    /\ shared \subseteq Letter /\ denied \subseteq Letter

(* A client says nothing more in HTTP on a connection that it hijacks or   *)
(* on which it never did; it may go away in the middle of a request.       *)
Init ==
    /\ first \in Request /\ second \in Request \cup {<<>>}
    /\ first \in Raw => second = <<>>
    /\ \E n \in {0, 1} : wire = SubSeq(first \o second, 1, Len(first \o second) - n)
    /\ buf = <<>> /\ pc = "head" /\ head = NoHead /\ need = 0 /\ out = <<>>
    /\ shared = {} /\ denied = {}

(* client.read: any part of what there is, up to the size of the chunk.    *)
Read(most) ==
    \E n \in 1..Len(wire) :
        /\ n <= most
        /\ buf' = buf \o SubSeq(wire, 1, n)
        /\ wire' = SubSeq(wire, n + 1, Len(wire))
Goto(step) == pc' = step
Send(s) == out' = out \o s
Take(n) == buf' = SubSeq(buf, n + 1, Len(buf))
Requests == <<first, second>>
Shares == <<shared, denied>>

-----------------------------------------------------------------------------
Heads(s) == {i \in 1..Len(s) : s[i].kind \in {"get", "put", "chunked", "upgrade", "create", "createChunked", "unknown"}}
HeadEnd(s) == IF Heads(s) = {} THEN 0 ELSE CHOOSE i \in Heads(s) : \A j \in Heads(s) : i <= j

(* 1. The head, up to its blank line, unless it is too long.               *)
ReadHead ==
    /\ pc = "head" /\ HeadEnd(buf) = 0
    /\ IF Len(buf) > MAX_HEAD THEN Goto("raw") /\ UNCHANGED <<wire, buf, out>>
       ELSE \/ Read(Len(wire)) /\ UNCHANGED <<pc, out>>
            \/ wire = <<>> /\ Goto("end") /\ Send(buf) /\ buf' = <<>> /\ UNCHANGED wire
    /\ UNCHANGED <<Requests, head, need, Shares>>

(* 2. What follows depends on it.  Only the creation of a container whose  *)
(* length is known and small is rewritten; the head of any other request   *)
(* goes on as it is.                                                       *)
Rewritten(h) == h.kind = "create" /\ h.len <= MAX_REWRITE_BODY
ForwardHead ==
    /\ pc = "head" /\ HeadEnd(buf) # 0
    /\ LET n == HeadEnd(buf) IN
       /\ head' = buf[n] /\ Take(n)
       /\ IF Rewritten(buf[n]) THEN Goto("body") /\ UNCHANGED <<out, need>>
          ELSE /\ Send(SubSeq(buf, 1, n))
               /\ need' = buf[n].len
               /\ Goto(CASE buf[n].kind \in {"put", "create", "upgrade"} -> "exact"
                         [] buf[n].kind \in {"chunked", "createChunked"} -> "size"
                         [] buf[n].kind = "unknown" -> "raw"
                         [] OTHER -> "head")
    /\ UNCHANGED <<Requests, wire, Shares>>

ReadBody ==
    /\ pc = "body" /\ Len(buf) < head.len
    /\ \/ Read(head.len - Len(buf)) /\ UNCHANGED pc
       \/ wire = <<>> /\ Goto("error") /\ UNCHANGED <<buf, wire>>
    /\ UNCHANGED <<Requests, head, need, out, Shares>>

(* rewrite_create_body, ensure_share for each of its drives, of which a    *)
(* failure is only logged, set_content_length.                             *)
(* Mutant: the body is rewritten and its length is not.                    *)
ForwardCreateOldLength ==
    /\ pc = "body" /\ Len(buf) >= head.len
    /\ LET body == Chars(SubSeq(buf, 1, head.len)) IN
       /\ Send(<<Fields("head", 0), head>> \o Text(Rewrite(body)))
       /\ shared' = shared \cup Drives(body)
    /\ Take(head.len) /\ Goto("head") /\ head' = NoHead
    /\ UNCHANGED <<Requests, wire, need, denied>>
ForwardCreate ==
    /\ pc = "body" /\ Len(buf) >= head.len
    /\ LET body == Chars(SubSeq(buf, 1, head.len)) IN
       /\ Send(Create(Rewrite(body)))
       /\ \/ shared' = shared \cup Drives(body) /\ UNCHANGED denied
          \/ denied' = denied \cup Drives(body) /\ UNCHANGED shared
    /\ Take(head.len) /\ Goto("head") /\ head' = NoHead
    /\ UNCHANGED <<Requests, wire, need>>

(* copy_exact: first what was read already, then the rest of it.           *)
(* Mutant: all that was read already, however much is needed.              *)
CopyExactAll ==
    /\ pc = "exact" /\ buf # <<>>
    /\ Send(buf) /\ Take(Len(buf)) /\ need' = need - Len(buf)
    /\ UNCHANGED <<Requests, wire, pc, head, Shares>>
CopyExact ==
    /\ pc = "exact"
    /\ LET n == IF need <= Len(buf) THEN need ELSE Len(buf) IN
       IF need = 0 THEN /\ Goto(CASE head.kind \in {"chunked", "createChunked"} -> "size"
                               [] head.kind = "upgrade" -> "raw"
                               [] OTHER -> "head")
                        /\ UNCHANGED <<wire, buf, out, need>>
       ELSE IF n > 0 THEN /\ Send(SubSeq(buf, 1, n)) /\ Take(n) /\ need' = need - n
                          /\ UNCHANGED <<wire, pc>>
       ELSE \/ Read(need) /\ UNCHANGED <<pc, out, need>>
            \/ wire = <<>> /\ Goto("error") /\ UNCHANGED <<buf, wire, out, need>>
    /\ UNCHANGED <<Requests, head, Shares>>

(* copy_chunked: a line with a size, its data; after size 0 the trailers,  *)
(* which end at the first blank line of the buffer.                        *)
ChunkSize ==
    /\ pc = "size"
    /\ IF buf = <<>>
         THEN \/ Read(Len(wire)) /\ UNCHANGED <<pc, out, need>>
              \/ wire = <<>> /\ Goto("error") /\ UNCHANGED <<buf, wire, out, need>>
       ELSE /\ Send(SubSeq(buf, 1, 1)) /\ Take(1) /\ UNCHANGED wire
            /\ IF buf[1].kind = "0" THEN Goto("trailers") /\ UNCHANGED need
                               ELSE Goto("exact") /\ need' = 1
    /\ UNCHANGED <<Requests, head, Shares>>
Trailers ==
    /\ pc = "trailers"
    /\ IF buf = <<>>
         THEN \/ Read(Len(wire)) /\ UNCHANGED <<pc, out>>
              \/ wire = <<>> /\ Goto("head") /\ UNCHANGED <<buf, wire, out>>
       ELSE LET n == IF HeadEnd(buf) # 0 THEN HeadEnd(buf) ELSE 1 IN
            Send(SubSeq(buf, 1, n)) /\ Take(n) /\ Goto("head") /\ UNCHANGED wire
    /\ UNCHANGED <<Requests, head, need, Shares>>

(* 3. raw_tail: what was read already, then everything.                    *)
(* Mutant: only what is still to come.                                     *)
RawTailForgets ==
    /\ pc = "raw"
    /\ IF buf # <<>> THEN buf' = <<>> /\ UNCHANGED <<wire, pc, out>>
       ELSE \/ Read(Len(wire)) /\ UNCHANGED <<pc, out>>
            \/ wire = <<>> /\ Goto("end") /\ UNCHANGED <<buf, wire, out>>
    /\ UNCHANGED <<Requests, head, need, Shares>>
RawTail ==
    /\ pc = "raw"
    /\ IF buf # <<>> THEN Send(buf) /\ buf' = <<>> /\ UNCHANGED <<wire, pc>>
       ELSE \/ Read(Len(wire)) /\ UNCHANGED <<pc, out>>
            \/ wire = <<>> /\ Goto("end") /\ UNCHANGED <<buf, wire, out>>
    /\ UNCHANGED <<Requests, head, need, Shares>>

Next ==
    \/ ReadHead \/ ForwardHead \/ ReadBody \/ ForwardCreate
    \/ CopyExact \/ ChunkSize \/ Trailers \/ RawTail

Spec == Init /\ [][Next]_vars

-----------------------------------------------------------------------------
Translated(r) ==
    IF r # <<>> /\ Rewritten(r[2]) THEN Create(Rewrite(Chars(SubSeq(r, 3, Len(r))))) ELSE r
Wanted == Translated(first) \o Translated(second)

(* A client that sends the next request after chunks without waiting for   *)
(* the answer gives them the look of trailers.                             *)
Pipelined == first \in Chunked /\ second # <<>>

(* However the stream is cut into pieces, dockerd reads the requests of    *)
(* the client in order, nothing added, with the mounts translated in those *)
(* that create a container with a body of known and small length.          *)
ForwardsRequests == ~Pipelined => \E n \in 0..Len(Wanted) : out = SubSeq(Wanted, 1, n)

(* Nothing is held back: when the client has ended, all that it sent is    *)
(* forwarded, chunks and hijacked bytes included; it may have gone away    *)
(* before the last character of its last request.                          *)
ForwardsAll == pc = "end" /\ ~Pipelined => out \in {Wanted, SubSeq(Wanted, 1, Len(Wanted) - 1)}

(* A mount that names a drive reaches dockerd after the drive was shared   *)
(* or ensure_share has failed for it, and as a path of the machine without *)
(* a backslash, unless the request came in chunks or was too large.        *)
MountsReachable ==
    ~Pipelined => \A i \in DOMAIN out :
        /\ out[i].kind = "\\" => {first, second} \cap {ChunkedCreate, Create(LargeBind)} # {}
        /\ out[i].kind = "/mnt/host/" => out[i + 1].kind \in shared \cup denied
=============================================================================
