-------------------------------- MODULE Web ---------------------------------
(***************************************************************************)
(* HTTP requests and downloads (web.py over urllib).  The server, the      *)
(* network and the disk may fail at every step.                            *)
(***************************************************************************)
EXTENDS Naturals

CONSTANTS MaxRedirects,     \* bound: urllib follows ten
          MaxChunks         \* bound: chunks of a body

\* What the constants must be; assumed where they get their values.
WebAssumption == MaxRedirects \in Nat /\ MaxChunks \in Nat \ {0}

VARIABLES
    pc, op, skip,       \* the call: request or download; skip_http_error_check
    scheme, hops,       \* of the URL to open next, redirects followed
    fetched,            \* schemes that were opened
    status,             \* of the response: none, good, bad
    announced,          \* Content-Length was sent: the rest is known
    body,               \* chunks the server still has to send
    got,                \* chunks read
    dest, before,       \* the file: absent, old, part, short, whole; as the call found it
    opened,             \* download_file opened it
    result              \* none, ok, scheme, refused, http, transport, timeout

vars == <<pc, op, skip, scheme, hops, fetched, status, announced, body, got, dest, before, opened, result>>

Http == {"http", "https"}

TypeOK ==
    /\ pc \in {"idle", "open", "redirect", "head", "read", "copy", "unlink", "done"}
    /\ op \in {"none", "request", "download"} /\ skip \in BOOLEAN
    /\ scheme \in Http \cup {"file"} /\ hops \in 0..MaxRedirects /\ fetched \subseteq Http \cup {"file"}
    /\ status \in {"none", "good", "bad"} /\ announced \in BOOLEAN
    /\ body \in 0..MaxChunks /\ got \in 0..MaxChunks
    /\ dest \in {"absent", "old", "part", "short", "whole"}
    /\ before \in {"absent", "old", "part", "short", "whole"} /\ opened \in BOOLEAN
    /\ result \in {"none", "ok", "scheme", "refused", "http", "transport", "timeout", "os"}

Init ==
    /\ pc = "idle" /\ op = "none" /\ skip = FALSE /\ scheme = "http" /\ hops = 0 /\ fetched = {}
    /\ status = "none" /\ announced = FALSE /\ body = 0 /\ got = 0
    /\ dest \in {"absent", "old"} /\ before = dest /\ opened = FALSE /\ result = "none"

call == <<op, skip>>
reply == <<status, announced, body, got>>
disk == <<dest, before, opened>>

End(r) == pc' = "done" /\ result' = r

Goto(p) == pc' = p /\ UNCHANGED result

\* _require_http_scheme comes before everything.
Request(o, s, check) ==
    /\ pc = "idle" /\ op' = o /\ skip' = (o = "request" /\ ~check) /\ scheme' = s
    /\ before' = dest
    /\ IF s \in Http THEN Goto("open") ELSE End("scheme")
    /\ UNCHANGED <<hops, fetched, reply, dest, opened>>

\* _is_timeout tells a timeout from every other transport error.
TransportFails(cleanup) ==
    /\ \E r \in {"transport", "timeout"} : result' = r
    /\ pc' = IF cleanup THEN "unlink" ELSE "done"

\* The response's head: good, an HTTP error, a redirect, or nothing at all.
OpenUrl ==
    /\ pc = "open"
    /\ fetched' = fetched \cup {scheme}
    /\ \/ /\ Goto("head") /\ status' \in {"good", "bad"} /\ announced' \in BOOLEAN
          /\ body' \in 0..MaxChunks /\ UNCHANGED <<scheme, hops>>
       \/ /\ Goto("redirect") /\ scheme' \in Http \cup {"file"}
          /\ UNCHANGED <<hops, status, announced, body>>
       \/ TransportFails(FALSE) /\ UNCHANGED <<scheme, hops, status, announced, body>>
    /\ UNCHANGED <<call, got, disk>>

\* _HttpOnlyRedirectHandler, then urllib's own limit, which is an HTTP error.
Redirect ==
    /\ pc = "redirect"
    /\ \/ scheme \notin Http /\ End("refused") /\ UNCHANGED <<hops, status>>
       \/ scheme \in Http /\ hops < MaxRedirects /\ Goto("open") /\ hops' = hops + 1 /\ UNCHANGED status
       \/ scheme \in Http /\ hops = MaxRedirects /\ Goto("head") /\ status' = "bad" /\ UNCHANGED hops
    /\ UNCHANGED <<call, scheme, fetched, announced, body, got, disk>>

\* download_file reports an HTTP error at once and opens the file only after
\* a good head; _http_error_response reads the error's body first.
Head ==
    /\ pc = "head"
    /\ IF op = "request" THEN Goto("read") /\ UNCHANGED <<dest, opened>>
       ELSE IF status = "bad" THEN End("http") /\ UNCHANGED <<dest, opened>>
       ELSE \/ Goto("copy") /\ dest' = "part" /\ opened' = TRUE
            \/ End("transport") /\ UNCHANGED <<dest, opened>>
    /\ UNCHANGED <<call, scheme, hops, fetched, reply, before>>

\* The body of a request.  An error's body is read for the message only.
ReadBody ==
    /\ pc = "read"
    /\ \/ got' = got + body /\ body' = 0 /\ End(IF status = "bad" /\ ~skip THEN "http" ELSE "ok")
       \/ TransportFails(FALSE) /\ UNCHANGED <<body, got>>
    /\ UNCHANGED <<call, scheme, hops, fetched, status, announced, disk>>

\* shutil.copyfileobj: one chunk; or the network or the disk fails.
CopyChunk ==
    /\ pc = "copy"
    /\ \/ body > 0 /\ body' = body - 1 /\ got' = got + 1 /\ Goto("copy")
       \/ TransportFails(TRUE) /\ UNCHANGED <<body, got>>
    /\ UNCHANGED <<call, scheme, hops, fetched, status, announced, disk>>

\* The server closes the connection: at the end of the body, or before it,
\* which shows only when a length was announced (_require_complete_body).
\* Without one the end of the connection is the end of the body.
ConnectionCloses ==
    /\ pc = "copy"
    /\ IF announced /\ body > 0 THEN TransportFails(TRUE) /\ UNCHANGED dest
       ELSE \/ End("ok") /\ dest' = IF body = 0 THEN "whole" ELSE "short"
            \/ TransportFails(TRUE) /\ UNCHANGED dest
    /\ UNCHANGED <<call, scheme, hops, fetched, reply, before, opened>>

\* What was downloaded so far stays.
UnlinkNothing ==
    /\ pc = "unlink"
    /\ Goto("done")
    /\ UNCHANGED <<call, scheme, hops, fetched, reply, disk>>

\* The handler removes what this call created; the disk may refuse that too.
Unlink ==
    /\ pc = "unlink"
    /\ \/ dest' = "absent" /\ Goto("done")
       \/ End("os") /\ UNCHANGED dest
    /\ UNCHANGED <<call, scheme, hops, fetched, reply, before, opened>>

\* The caller has the answer.
Forget ==
    /\ pc = "done" /\ pc' = "idle" /\ op' = "none" /\ skip' = FALSE /\ scheme' = "http" /\ hops' = 0
    /\ fetched' = {} /\ status' = "none" /\ announced' = FALSE /\ body' = 0 /\ got' = 0
    /\ dest' = IF dest = "absent" THEN "absent" ELSE "old"
    /\ before' = dest' /\ opened' = FALSE /\ result' = "none"

Next ==
    \/ \E o \in {"request", "download"}, s \in Http \cup {"file"}, check \in BOOLEAN : Request(o, s, check)
    \/ OpenUrl \/ Redirect \/ Head \/ ReadBody \/ CopyChunk \/ ConnectionCloses \/ Unlink \/ Forget

Spec == Init /\ [][Next]_vars

-----------------------------------------------------------------------------

\* Whatever a server redirects to, nothing but http and https is opened.
OnlyHttpIsOpened == fetched \subseteq Http

\* A download that returns has left every byte the server announced; one that
\* fails has left no part of them, and the file it never opened as it was.
DownloadIsWholeOrGone ==
    pc = "done" /\ op = "download" =>
        /\ result = "ok" /\ announced => dest = "whole"
        /\ result \notin {"ok", "os"} => dest \notin {"part", "short"}
        /\ ~opened => dest = before

\* What each section of a call relies on: the URL to open is judged, the file is
\* opened by a download only, and a part of it is there only while it is copied,
\* until the handler removes it or where that failed.
CallInv ==
    /\ pc # "idle" => op # "none"
    /\ pc = "open" => scheme \in Http
    /\ pc = "read" => op = "request"
    /\ pc \in {"copy", "unlink"} => op = "download" /\ opened
    /\ pc \in {"idle", "open", "redirect", "head", "read", "copy"} => result = "none"
    /\ pc = "unlink" => result \in {"transport", "timeout"}
    /\ pc \notin {"copy", "unlink", "done"} => got = 0
    /\ got + body <= MaxChunks
    /\ ~opened => dest = before
    /\ dest = "part" => pc \in {"copy", "unlink"} \/ (pc = "done" /\ result = "os")
    /\ dest = "short" => pc = "done" /\ result = "ok"

\* The inductive invariant of the proofs.
WebInv == TypeOK /\ CallInv /\ OnlyHttpIsOpened /\ DownloadIsWholeOrGone
=============================================================================
