--------------------------------- MODULE WebIO ---------------------------------
(***************************************************************************)
(* One request at a time between a client of the web server (client.c,     *)
(* client_simple.c) and a worker of it (request.c), over the robust I/O of *)
(* common.c: short reads and writes, interrupted calls, lines that are     *)
(* split over several reads, files that shrink or go away, clients that go *)
(* away, and error pages that do not fit into the buffer they are made in. *)
(*                                                                         *)
(* What is sent is a sequence of symbols <<kind, value>>.  A line is its   *)
(* text, one symbol, and the end of the line; a body is single bytes.      *)
(* Status, server and type are one line.  The queue of connections is the  *)
(* matter of RequestQueue, the cache of FileCache.                         *)
(***************************************************************************)
EXTENDS Integers, SequencesExt, FiniteSetsExt

CONSTANTS Files,          \* the files of the file set, numbers
          Content,        \* their bytes when the file set was made
          Refused,        \* [names -> the status they are refused with], a
                          \* file of the file set once it is gone
          NameError,      \* [names -> the page that says so, with the name in it]
          MethodError,    \* the page for methods other than GET
          RioBuf,         \* RIO_BUFSIZE
          MaxLine,        \* MAXLINE, the longest line the server takes
          MaxBuf,         \* MAXBUF, the same for the client; body[] of request_error
          Wire,           \* what a socket holds: the header of a request, at least
          CsumMod,        \* 2^32
          Times,          \* nr_times
          MaxInterrupts   \* bound: reads and writes that return EINTR

EOL   == <<"eol", 10>>
Bytes == {EOL} \cup {"byte"} \X Nat

Names == DOMAIN Refused

\* There is a file set.  The pages of request_error are as long as they are.
ASSUME WebAssumption ==
    /\ IsFiniteSet(Files) /\ Files # {} /\ Content \in [Files -> Seq(Bytes)]
    /\ Files \subseteq Names /\ Names \subseteq Nat
    /\ NameError \in [Names -> Seq(Bytes)] /\ MethodError \in Seq(Bytes)
    /\ {RioBuf, MaxLine, MaxBuf, Wire, CsumMod} \subseteq Nat \ {0}
    /\ MaxLine > 2 /\ MaxBuf > 2 /\ Wire >= 4 /\ Times \in Nat /\ MaxInterrupts \in Nat

Ends    == {"client", "server"}
Peer(p) == IF p = "client" THEN "server" ELSE "client"
Methods == {"get", "post"}

Line(s)  == <<s, EOL>>
Blank    == Line(<<"return", 0>>)
MaxLen(p) == IF p = "client" THEN MaxBuf ELSE MaxLine

VARIABLES wire,        \* wire[p]: on its way to p
          open,        \* the ends that are open
          rio,         \* rio[p]: unread in rio_buf
          line,        \* line[p]: read into usrbuf by the current rio_readlineb
          left,        \* left[p]: what rio_write still has to write
          pc,
          ask,         \* the request: who asks, how, for what
          got,         \* length, csum, and the body as received
          asked,       \* how many requests were made
          fileset,     \* client: [csum, len] of the files
          disk,
          uri, size,   \* server: the file asked for and its file_size
          file_buf,
          rc,          \* ret of do_server_request: what request_readfile
                       \* returned, -1 before it does
          body,        \* of request_error, as it is written
          interrupts, overrun,
          lost,        \* files that were removed, or that may not be read any more
          died, shrunk \* history: the client went away; a file shrank

conn   == <<wire, open, rio, line, left>>
client == <<ask, got, asked, fileset>>
server == <<uri, size, file_buf, rc, body>>
faults == <<interrupts, overrun, lost, died, shrunk, disk>>
vars   == <<conn, pc, client, server, faults>>

NoAnswer == [length |-> 0, csum |-> 0, body |-> <<>>]

Init ==
    /\ wire = [p \in Ends |-> <<>>] /\ rio = wire /\ line = wire /\ left = wire
    /\ open = {} /\ pc = [client |-> "start", server |-> "idle"]
    /\ ask = [checked |-> FALSE, method |-> "get", file |-> Min(Names)]
    /\ got = NoAnswer /\ asked = 0 /\ fileset = <<>>
    /\ disk = Content /\ uri = Min(Names) /\ size = 0 /\ file_buf = <<>>
    /\ rc = -1 /\ body = <<>> /\ lost = {}
    /\ interrupts = 0 /\ overrun = FALSE /\ died = FALSE /\ shrunk = FALSE

Csum(s) == FoldLeft(LAMBDA a, b : (a + b[2]) % CsumMod, 0, s)

-----------------------------------------------------------------------------
(* The rio functions of common.c.                                          *)

\* Mutants
StaysOpen(p)     == open
Aborts(p)        == "exited"
TakesAll(s, n)   == Len(s)

\* What is left of s when n symbols are done.
Rest(s, n) == SubSeq(s, n + 1, Len(s))

\* unix_error, or a signal: the process ends and its socket is closed.
Exit(p) ==
    /\ pc' = [pc EXCEPT ![p] = "exited"]
    /\ open' = open \ {p}
    /\ left' = [left EXCEPT ![p] = <<>>]
    /\ UNCHANGED <<wire, rio, line, client, server, faults>>

\* read or write returns EINTR: the loop goes on.
AfterInterrupt(p) == pc[p]
Interrupted(p) ==
    /\ interrupts < MaxInterrupts
    /\ interrupts' = interrupts + 1
    /\ pc' = [pc EXCEPT ![p] = AfterInterrupt(p)]
    /\ UNCHANGED <<conn, client, server, overrun, lost, died, shrunk, disk>>

\* rio_write: one write.  A closed peer makes it fail, at once or later.
Write(p) ==
    /\ left[p] # <<>>
    /\ \/ Interrupted(p)
       \/ /\ Peer(p) \in open
          /\ \E n \in 1..Min({Len(left[p]), Wire - Len(wire[Peer(p)])}) :
                /\ wire' = [wire EXCEPT ![Peer(p)] = @ \o SubSeq(left[p], 1, n)]
                /\ left' = [left EXCEPT ![p] = Rest(@, n)]
          /\ UNCHANGED <<open, rio, line, pc, client, server, faults>>
       \/ /\ Peer(p) \notin open
          /\ left' = [left EXCEPT ![p] = <<>>]
          /\ UNCHANGED <<wire, open, rio, line, pc, client, server, faults>>
       \/ Peer(p) \notin open /\ Exit(p)

AtEof(p) == rio[p] = <<>> /\ wire[p] = <<>> /\ Peer(p) \notin open

\* rio_readlineb returns: an end of line, usrbuf is full, or end of file.
Ended(p) ==
    \/ AtEof(p)
    \/ line[p] # <<>> /\ (Last(line[p]) = EOL \/ Len(line[p]) = MaxLen(p))

Reading(p) == pc[p] \in {"line", "header", "headers", "head", "body"} /\ ~Ended(p)

\* read fails with ECONNRESET: the client is gone, or the server closed the
\* socket with part of the request unread (501).
Reset(p) ==
    Peer(p) \notin open /\ (p = "server" \/ wire["server"] # <<>>)

\* rio_readb: the buffer is empty and is filled again by one read.
Refill(p) ==
    /\ Reading(p) /\ rio[p] = <<>>
    /\ \/ Interrupted(p)
       \/ /\ wire[p] # <<>>
          /\ \E n \in 1..Min({RioBuf, Len(wire[p])}) :
                /\ rio' = [rio EXCEPT ![p] = SubSeq(wire[p], 1, n)]
                /\ wire' = [wire EXCEPT ![p] = Rest(@, n)]
          /\ UNCHANGED <<open, line, left, pc, client, server, faults>>
       \/ Reset(p) /\ Exit(p)

\* How much of s goes into a line with room for n more: up to its end.
Taken(s, n) ==
    LET end == {k \in 1..Len(s) : s[k] = EOL}
    IN Min({Len(s), n} \cup end)

\* rio_readlineb takes what is buffered.  A full usrbuf gets its terminating
\* zero one place too far.
TakeChars(p) ==
    /\ Reading(p) /\ rio[p] # <<>>
    /\ LET n == Taken(rio[p], MaxLen(p) - Len(line[p]))
       IN /\ line' = [line EXCEPT ![p] = @ \o SubSeq(rio[p], 1, n)]
          /\ rio' = [rio EXCEPT ![p] = Rest(@, n)]
          /\ overrun' = (overrun \/ Len(line[p]) + n >= MaxLen(p))
    /\ UNCHANGED <<wire, open, left, pc, client, server,
                   interrupts, lost, died, shrunk, disk>>

-----------------------------------------------------------------------------
(* The server: request.c.                                                  *)

Page(code, n, csum, text) ==
    Line(<<"status", code>>) \o Line(<<"length", n>>) \o Line(<<"csum", csum>>)
    \o Blank \o text
\* The line is used up, and the worker goes on to s with page to be written.
ServerGoes(s, page) ==
    /\ pc' = [pc EXCEPT !["server"] = s]
    /\ line' = [line EXCEPT !["server"] = <<>>]
    /\ left' = [left EXCEPT !["server"] = page]

\* The text and its terminating zero do not fit into body[MAXBUF].
TooLong(text) == Len(text) >= MaxBuf

\* request_error: sprintf goes on past the end of body.  If buf lies there, the
\* lines of the header are written over the rest, and the body is no longer
\* the one of which length and checksum were taken.
request_error(code, text) ==
    /\ \E n \in {Len(text), Min({Len(text), MaxBuf})} : body' = SubSeq(text, 1, n)
    /\ overrun' = (overrun \/ TooLong(text))
    /\ ServerGoes("close", Page(code, Len(text), Csum(text), body'))

\* request_init: at the end of file buf holds whatever it held.
request_init ==
    /\ pc["server"] = "line" /\ Ended("server")
    /\ \E m \in Methods, f \in Names :
          /\ line["server"] # <<>> => line["server"][1] = <<m, f>>
          /\ uri' = f
          /\ \/ m = "get" /\ ServerGoes("header", <<>>) /\ UNCHANGED <<rc, body, overrun>>
             \/ m # "get" /\ rc' = 0 /\ request_error(501, MethodError)
    /\ UNCHANGED <<wire, open, rio, client, size, file_buf,
                   interrupts, lost, died, shrunk, disk>>

\* request_read_headers: at the end of file rio_readlineb leaves buf alone.
\* What it held before decides, and the loop never ends if that is not blank.
request_read_headers ==
    /\ pc["server"] \in {"header", "headers"} /\ Ended("server")
    /\ \/ line["server"] = Blank /\ ServerGoes("stat", <<>>)
       \/ line["server"] \notin {Blank, <<>>} /\ ServerGoes("headers", <<>>)
       \/ line["server"] = <<>> /\ pc["server"] = "header" /\ ServerGoes("stat", <<>>)
       \/ line["server"] = <<>> /\ ServerGoes("spin", <<>>)
    /\ UNCHANGED <<wire, open, rio, client, server, faults>>

\* request_readfile as far as stat: names that are not served, or the size.  A
\* file that may not be read any more may still be there, with a size.
request_stat ==
    /\ pc["server"] = "stat"
    /\ \/ /\ uri \in Files /\ size' = Len(disk[uri])
          /\ ServerGoes("read", <<>>) /\ UNCHANGED <<rc, body, overrun>>
       \/ /\ uri \notin Files \ lost /\ size' = 0
          /\ rc' = 0 /\ request_error(Refused[uri], NameError[uri])
    /\ UNCHANGED <<wire, open, rio, client, uri, file_buf,
                   interrupts, lost, died, shrunk, disk>>

\* The rest of it.  A file that is not empty is opened, and the process ends if
\* that fails; what the file no longer has, malloc left in the buffer.
CannotOpen == size > 0 /\ uri \in lost
request_readfile ==
    /\ pc["server"] = "read"
    /\ \/ CannotOpen /\ Exit("server")
       \/ /\ ~CannotOpen
          /\ \E junk \in {EOL, <<"byte", 1>>} :
                file_buf' = [k \in 1..size |->
                                IF k <= Len(disk[uri]) THEN disk[uri][k] ELSE junk]
          /\ rc' = 1 /\ ServerGoes("send", <<>>)
          /\ UNCHANGED <<wire, open, rio, client, uri, size, body, faults>>

request_sendfile ==
    /\ pc["server"] = "send"
    /\ ServerGoes("close", Page(200, size, Csum(file_buf), file_buf))
    /\ UNCHANGED <<wire, open, rio, client, server, faults>>

OpenAfterClose(p) == open \ {p}
request_destroy ==
    /\ pc["server"] = "close" /\ left["server"] = <<>>
    /\ ServerGoes("idle", <<>>)
    /\ open' = OpenAfterClose("server")
    /\ UNCHANGED <<wire, rio, client, server, faults>>

\* request_error returns with more in body than fits: what lies behind it was
\* overwritten, and that may end the process.
Smashed ==
    /\ pc["server"] = "close" /\ left["server"] = <<>>
    /\ rc = 0 /\ TooLong(body) /\ Exit("server")

\* request_read_headers spins.
Spin == pc["server"] = "spin" /\ UNCHANGED vars

-----------------------------------------------------------------------------
(* The client: client.c, and client_simple.c where ask.checked is false.   *)

ClientGoes(s) ==
    /\ pc' = [pc EXCEPT !["client"] = s]
    /\ line' = [line EXCEPT !["client"] = <<>>]

\* What fileset.c writes into the index: the number of files and their lines.
Index == <<Cardinality(Files), [f \in Files |-> [csum |-> Csum(Content[f]),
                                                 len |-> Len(Content[f])]]>>

init_fileset ==
    /\ pc["client"] = "start"
    /\ IF Index[1] > 0 /\ Cardinality(DOMAIN Index[2]) = Index[1]
       THEN ClientGoes("next") /\ fileset' = Index[2]
       ELSE ClientGoes("aborted") /\ fileset' = fileset
    /\ UNCHANGED <<wire, open, rio, left, ask, got, asked, server, faults>>

\* client_request, client_send: a connection that a worker takes up, with
\* nothing known of its file.
client_send(checked, method, f) ==
    /\ pc["client"] = "next" /\ pc["server"] = "idle" /\ asked < Times
    /\ checked => method = "get" /\ f \in Files
    /\ asked' = asked + 1
    /\ ask' = [checked |-> checked, method |-> method, file |-> f]
    /\ got' = NoAnswer /\ overrun' = FALSE
    /\ open' = Ends /\ wire' = [p \in Ends |-> <<>>] /\ rio' = wire' /\ line' = wire'
    /\ left' = [left EXCEPT !["client"] =
                   Line(<<method, f>>) \o Line(<<"host", 0>>) \o Blank]
    /\ pc' = [client |-> "send", server |-> "line"]
    /\ uri' = Min(Names) /\ size' = 0 /\ file_buf' = <<>> /\ rc' = -1 /\ body' = <<>>
    /\ UNCHANGED <<fileset, interrupts, lost, died, shrunk, disk>>

client_sent ==
    /\ pc["client"] = "send" /\ left["client"] = <<>>
    /\ ClientGoes("head")
    /\ UNCHANGED <<wire, open, rio, left, client, server, faults>>

\* client_print: the header up to a blank line or the end of the file.
client_head ==
    /\ pc["client"] = "head" /\ Ended("client")
    /\ ClientGoes(IF line["client"] \in {Blank, <<>>} THEN "body" ELSE "head")
    /\ got' = IF line["client"] # <<>> /\ line["client"][1][1] \in {"length", "csum"}
              THEN [got EXCEPT ![line["client"][1][1]] = line["client"][1][2]]
              ELSE got
    /\ UNCHANGED <<wire, open, rio, left, ask, asked, fileset, server, faults>>

client_body ==
    /\ pc["client"] = "body" /\ Ended("client")
    /\ ClientGoes(IF line["client"] = <<>> THEN "check" ELSE "body")
    /\ got' = [got EXCEPT !.body = @ \o line["client"]]
    /\ UNCHANGED <<wire, open, rio, left, ask, asked, fileset, server, faults>>

\* The assertions at the end of client_print, and close; client_simple.c only
\* compares the lengths, and not when none was announced.
Accepted ==
    /\ fileset[ask.file] = [csum |-> got.csum, len |-> got.length]
    /\ got.length = Len(got.body) /\ got.csum = Csum(got.body)
client_check ==
    /\ pc["client"] = "check"
    /\ ClientGoes(IF \/ ask.checked /\ Accepted
                     \/ ~ask.checked /\ got.length \in {0, Len(got.body)}
                  THEN "next" ELSE "aborted")
    /\ open' = open \ {"client"}
    /\ UNCHANGED <<wire, rio, left, client, server, faults>>

-----------------------------------------------------------------------------
(* The environment.                                                        *)

ClientDies ==
    /\ "client" \in open
    /\ ClientGoes("gone") /\ open' = open \ {"client"}
    /\ left' = [left EXCEPT !["client"] = <<>>]
    /\ died' = TRUE
    /\ UNCHANGED <<wire, rio, client, server, interrupts, overrun, lost, shrunk, disk>>

\* Bound: one file changes, once.
Unchanged == ~shrunk /\ lost = {}

FileShrinks ==
    /\ Unchanged /\ shrunk' = TRUE
    /\ \E f \in Files : Content[f] # <<>> /\ disk' = [disk EXCEPT ![f] = Front(@)]
    /\ UNCHANGED <<conn, pc, client, server, interrupts, overrun, lost, died>>

\* A file of the file set is removed, or its permissions are taken away.
FileGoes ==
    /\ Unchanged
    /\ \E f \in Files : lost' = {f}
    /\ UNCHANGED <<conn, pc, client, server, interrupts, overrun, died, shrunk, disk>>

Io(p) == Write(p) \/ Refill(p) \/ TakeChars(p)

Server == \/ Io("server") \/ request_init \/ request_read_headers \/ request_stat
          \/ request_readfile \/ request_sendfile \/ request_destroy \/ Smashed
Answer == \/ Io("client") \/ client_sent \/ client_head \/ client_body \/ client_check
Ask    == \/ init_fileset
          \/ \E checked \in BOOLEAN, m \in Methods, f \in Names : client_send(checked, m, f)

Next == Server \/ Spin \/ Answer \/ Ask \/ ClientDies \/ FileShrinks \/ FileGoes

\* Both processes go on running.
Spec == Init /\ [][Next]_vars /\ WF_vars(Server) /\ WF_vars(Answer)

-----------------------------------------------------------------------------
(* Properties.                                                             *)

\* The present request may be refused, with this page.
Refusable == ask.method # "get" \/ ask.file \notin Files \ lost
Refusal   == IF ask.method = "get" THEN NameError[ask.file] ELSE MethodError

\* The present request may end the server: its file cannot be opened, or the
\* page that refuses it does not fit.
MayEnd ==
    \/ ask.method = "get" /\ ask.file \in lost
    \/ Refusable /\ TooLong(Refusal)

\* A complete answer is what it says: as many bytes as announced, with the
\* checksum announced, however reads and writes were cut up, unless it is an
\* error page that did not fit.  A file of the file set that did not shrink or
\* go arrives byte by byte, in order, and passes the assertions of
\* client_print.  What is refused brings the page of its error, and a file that
\* is gone brings itself, the page or, when the server ended, nothing.
AnswersExact ==
    pc["client"] = "check" =>
        \/ Refusable /\ TooLong(Refusal)
        \/ ask.method = "get" /\ ask.file \in lost /\ got = NoAnswer
        \/ /\ got.length = Len(got.body) /\ got.csum = Csum(got.body)
           /\ ~Refusable /\ ~shrunk => got.body = Content[ask.file] /\ Accepted
           /\ ask.method # "get" \/ ask.file \notin Files => got.body = Refusal
           /\ Refusable /\ ask.file \in Files /\ ~shrunk =>
                 got.body \in {Content[ask.file], Refusal}

\* Some line of s, up to its end, fills usrbuf.
LongLine(s) ==
    \E j, k \in 0..Len(s) : k - j >= MaxBuf /\ \A i \in j + 1..k - 1 : s[i] # EOL

\* The server ends only after a client went away in the middle of a request, for
\* a file that it may not open, or by an error page that does not fit; it spins
\* only after a client went away.  client.c gives up only if a file shrank or
\* went after the file set was made, or with such a page, and no GET ends in an
\* error of the connection.  A buffer is overrun only by such a page or by a
\* file with a line that fills it.
OnlyHangupsHurt ==
    /\ pc["server"] = "exited" => died \/ MayEnd
    /\ pc["server"] = "spin" => died
    /\ pc["client"] = "aborted" => shrunk \/ MayEnd
    /\ pc["client"] = "exited" => ask.method # "get"
    /\ overrun => \/ died \/ shrunk
                  \/ Refusable /\ TooLong(Refusal)
                  \/ ask.file \in Files /\ LongLine(Content[ask.file])

\* A request that is being sent is answered to its end and the worker is free
\* again, unless the client goes away, or the request ends the server; the
\* client finds the end of the connection then.  (EINTR does not come forever.)
RequestsEnd ==
    (pc["client"] = "send") ~>
        (died \/ /\ pc["server"] = "idle" \/ (pc["server"] = "exited" /\ MayEnd)
                 /\ pc["client"] \in {"next", "aborted", "exited"})
===============================================================================
